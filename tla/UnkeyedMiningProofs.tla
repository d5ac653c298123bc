------------------------ MODULE UnkeyedMiningProofs ------------------------
(***************************************************************************)
(* What the unkeyed-input miner guarantees for every wordlist, budget,     *)
(* site, buster mode and pattern of failures: types, the budget, and, in   *)
(* front of a cache that keys the buster, that the canonical entry stays   *)
(* clean and that every finding is genuine.                                *)
(***************************************************************************)
EXTENDS UnkeyedMining, FiniteSetTheorems, TLAPS

\* The axis being mined is one of the three.
LEMMA AxisNamed ==
    ASSUME axis \in 1 .. 3
    PROVE  Axes[axis] \in AxisNames
<1>1. axis = 1 \/ axis = 2 \/ axis = 3
  OBVIOUS
<1>2. Axes[1] = "header" /\ Axes[2] = "cookie" /\ Axes[3] = "query parameter"
  BY DEF Axes
<1>. QED
  BY <1>1, <1>2 DEF AxisNames

\* The list of the current axis is a sequence of names.
LEMMA ListedNames ==
    ASSUME TypeOK
    PROVE  Listed \in Seq(Names)
<1>1. Wordlist[Axes[axis]] \in Seq(Names)
  BY AxisNamed, MiningAssumption DEF TypeOK
<1>2. Extra \in Seq(Names)
  BY MiningAssumption
<1>3. \A s, t \in Seq(Names) : s \o t \in Seq(Names)
  OBVIOUS
<1>. QED
  BY <1>1, <1>2, <1>3 DEF Listed

\* Within the list, the current input is one of the inputs.
LEMMA CurrentInput ==
    ASSUME TypeOK, next <= Len(Listed)
    PROVE  Current \in Inputs
<1>1. Axes[axis] \in AxisNames
  BY AxisNamed DEF TypeOK
<1>2. Listed[next] \in Names
  BY ListedNames DEF TypeOK
<1>. QED
  BY <1>1, <1>2 DEF Current, Inputs
-----------------------------------------------------------------------------
(* The inductive invariant *)

\* What the attempt under way has yet to send.
Owed == CASE pc = "poison" -> 2 [] pc = "confirm" -> 1 [] OTHER -> 0

\* What a paid request can become on the wire.
Attempts == MaxRetries + 1

\* Every request sent or owed was paid for, retries run only while a request
\* does, and every token costs two.
Accounts ==
    /\ sent + Attempts * (budget + Owed) <= Attempts * MaxAggressiveRequests + retries
    /\ pc \in {"pick", "done"} => retries = 0
    /\ budget + 2 * token <= MaxAggressiveRequests

\* An attempt has a candidate and a token.
AttemptSound == pc \in {"poison", "confirm"} => next <= Len(Listed) /\ token > Canonical

\* The entries under tokens not used yet are absent.
FutureUntouched == \A key \in Keys : key[1] > token => store[key] = NoEntry

CanonicalSafe == \A key \in Keys : key[1] = Canonical => store[key] \in {Clean, NoEntry}

\* What an attempt can be served once it asks without its input: a clean
\* response, or the marker it stored itself, without the input in the key.
ConfirmSound ==
    pc \in {"poison", "confirm"} =>
        /\ store[<<token, Clean>>] \in {Current, Clean, NoEntry}
        /\ store[<<token, Clean>>] = Current => Vulnerable(Current)

Isolation ==
    /\ FutureUntouched
    /\ CanonicalSafe
    /\ ConfirmSound
    /\ \A input \in findings : Vulnerable(input)

IInv ==
    /\ TypeOK
    /\ Accounts
    /\ AttemptSound
    /\ Isolated(site, mode) => Isolation

-----------------------------------------------------------------------------
(* Requests *)

\* A request of the miner or of a user has one of the cache's keys.
LEMMA RequestKey ==
    ASSUME NEW t \in Tokens, NEW i \in Inputs \cup {Clean}
    PROVE  KeyOf(site, mode, [token |-> t, input |-> i]) \in Keys
<1>1. Canonical \in Tokens
  BY MiningAssumption DEF Canonical, Tokens
<1>. QED
  BY <1>1 DEF KeyOf, Keys

\* It leaves a well-typed store, and changes the entry under its key only.
LEMMA RequestStores ==
    ASSUME TypeOK, NEW t \in Tokens, NEW i \in Inputs \cup {Clean},
           NEW k, k = KeyOf(site, mode, [token |-> t, input |-> i]),
           NEW p, p = Produced(site, [token |-> t, input |-> i]),
           NEW s, s = Filled(store, k, p, site.stores)
    PROVE  /\ k \in Keys
           /\ s \in [Keys -> Inputs \cup {Clean, NoEntry}]
           /\ p \in {i, Clean}
           /\ p # Clean => i \in site.reads
           /\ \A key \in Keys : s[key] # store[key] => /\ key = k
                                                       /\ store[k] = NoEntry
                                                       /\ s[k] = p
                                                       /\ site.stores
<1>1. k \in Keys
  BY RequestKey
<1>2. p \in {i, Clean} /\ (p # Clean => i \in site.reads)
  BY DEF Produced
<1>3. s = store \/ (s = [store EXCEPT ![k] = p] /\ store[k] = NoEntry /\ site.stores)
  BY DEF Filled
<1>4. store \in [Keys -> Inputs \cup {Clean, NoEntry}]
  BY DEF TypeOK
<1>5. CASE s = store
  BY <1>1, <1>2, <1>4, <1>5
<1>6. CASE s = [store EXCEPT ![k] = p] /\ store[k] = NoEntry /\ site.stores
  <2>1. s \in [Keys -> Inputs \cup {Clean, NoEntry}]
    BY <1>1, <1>2, <1>4, <1>6
  <2>2. \A key \in Keys : s[key] = IF key = k THEN p ELSE store[key]
    BY <1>1, <1>4, <1>6
  <2>. QED
    BY <1>1, <1>2, <1>6, <2>1, <2>2
<1>. QED
  BY <1>3, <1>5, <1>6

\* In front of a cache that keys the buster, its key starts with its token.
LEMMA IsolatedKey ==
    ASSUME Isolated(site, mode), NEW t, NEW i
    PROVE  KeyOf(site, mode, [token |-> t, input |-> i]) =
               <<t, IF i \in site.keys THEN i ELSE Clean>>
BY DEF KeyOf

-----------------------------------------------------------------------------
(* Types and the budget *)

Basics == TypeOK /\ Accounts /\ AttemptSound

LEMMA InitBasics == Init => Basics
<1>. SUFFICES ASSUME Init PROVE Basics
  OBVIOUS
<1>1. Worklist \subseteq Inputs
  <2>1. \A s, t \in Seq(Names) : s \o t \in Seq(Names)
    OBVIOUS
  <2>2. \A name \in AxisNames : Wordlist[name] \o Extra \in Seq(Names)
    BY <2>1, MiningAssumption
  <2>. QED
    BY <2>2 DEF Worklist, Inputs
<1>2. site \in SitesOver(Inputs)
  BY <1>1 DEF Init, SitesOver
<1>3. store \in [Keys -> Inputs \cup {Clean, NoEntry}]
  BY DEF Init
<1>4. budget \in 0 .. MaxAggressiveRequests /\ token \in Tokens
  BY MiningAssumption DEF Init, Tokens, Canonical
<1>d. disturbed \in BOOLEAN
  BY Zenon DEF Init
<1>5. TypeOK
  BY <1>2, <1>3, <1>4, <1>d, MiningAssumption DEF Init, TypeOK
<1>6. Accounts
  BY MiningAssumption DEF Init, Accounts, Attempts, Owed, Canonical
<1>7. AttemptSound
  BY DEF Init, AttemptSound
<1>. QED
  BY <1>5, <1>6, <1>7 DEF Basics

\* A request, repeated or done with, uses up what was paid for it.
LEMMA RequestAccounts ==
    ASSUME Basics, pc \in {"poison", "confirm"},
           sent' = sent + 1, UNCHANGED <<budget, token>>,
           \/ pc' = pc /\ retries' = retries + 1
           \/ pc = "poison" /\ pc' \in {"pick", "confirm"} /\ retries' = 0
           \/ pc = "confirm" /\ pc' = "pick" /\ retries' = 0
    PROVE  Accounts'
<1>1. /\ Attempts \in Nat /\ Attempts * MaxAggressiveRequests \in Nat
      /\ retries \in Nat /\ retries < Attempts
      /\ budget \in Nat /\ sent \in Nat
  BY MiningAssumption DEF Attempts, Basics, TypeOK
<1>2. \A n \in Nat : /\ Attempts * n \in Nat
                     /\ Attempts * (n + 1) = Attempts * n + Attempts
                     /\ Attempts * (n + 2) = Attempts * n + Attempts + Attempts
                     /\ Attempts * (n + 0) = Attempts * n
  BY <1>1
<1>3. sent + Attempts * (budget + Owed) <= Attempts * MaxAggressiveRequests + retries
  BY DEF Basics, Accounts
<1>4. (pc = "poison" => Owed = 2) /\ (pc = "confirm" => Owed = 1)
  BY DEF Owed
<1>5. (pc' = "poison" => Owed' = 2) /\ (pc' = "confirm" => Owed' = 1) /\ (pc' = "pick" => Owed' = 0)
  BY DEF Owed
<1>. DEFINE max == Attempts * MaxAggressiveRequests
            left == Attempts * (budget + Owed)
            kept == Attempts * (budget + Owed')
<1>6. CASE pc' = pc /\ retries' = retries + 1
  <2>1. kept = left
    BY <1>4, <1>5, <1>6
  <2>. QED
    <3>1. sent + left <= max + retries
      BY <1>3
    <3>. HIDE DEF max, left, kept
    <3>2. left \in Nat
      <4>1. budget + Owed \in Nat
        BY <1>1, <1>4
      <4>. QED
        BY <1>1, <4>1 DEF left
    <3>3. sent' + kept <= max + retries'
      BY <1>1, <1>6, <2>1, <3>1, <3>2 DEF max
    <3>. QED
      BY <1>1, <1>6, <3>3 DEF Accounts, Basics, max, kept
<1>7. CASE pc = "poison" /\ pc' \in {"pick", "confirm"} /\ retries' = 0
  <2>1. left = Attempts * budget + Attempts + Attempts /\ Attempts * budget \in Nat
    BY <1>1, <1>2, <1>4, <1>7
  <2>2. kept \in {Attempts * budget, Attempts * budget + Attempts}
    BY <1>1, <1>2, <1>5, <1>7
  <2>3. sent + left <= max + retries
    BY <1>3
  <2>. HIDE DEF max, left, kept
  <2>4. sent + 1 + kept <= max
    BY <1>1, <2>1, <2>2, <2>3 DEF max
  <2>. QED
    BY <1>1, <1>7, <2>4 DEF Accounts, Attempts, Basics, max, kept
<1>8. CASE pc = "confirm" /\ pc' = "pick" /\ retries' = 0
  <2>1. left = Attempts * budget + Attempts /\ Attempts * budget \in Nat
    BY <1>1, <1>2, <1>4, <1>8
  <2>2. kept = Attempts * budget
    BY <1>1, <1>2, <1>5, <1>8
  <2>3. sent + left <= max + retries
    BY <1>3
  <2>. HIDE DEF max, left, kept
  <2>4. sent + 1 + kept <= max
    BY <1>1, <2>1, <2>2, <2>3 DEF max
  <2>. QED
    BY <1>1, <1>8, <2>4 DEF Accounts, Attempts, Basics, max, kept
<1>. QED
  BY <1>6, <1>7, <1>8

LEMMA StepBasics == Basics /\ [Next]_vars => Basics'
<1>. SUFFICES ASSUME Basics, [Next]_vars PROVE Basics'
  OBVIOUS
<1>. USE DEF Basics
<1>a. MaxAggressiveRequests \in Nat
  BY MiningAssumption
<1>1. CASE OutOfBudget
  BY <1>1, <1>a DEF OutOfBudget, target, TypeOK, Accounts, Owed, AttemptSound, Tokens
<1>2. CASE NextAxis
  <2>1. axis' \in 1 .. 3 /\ next' \in Nat \ {0} /\ pc' \in {"pick", "done"}
    BY <1>2 DEF NextAxis, Axes, TypeOK
  <2>. QED
    BY <1>2, <1>a, <2>1 DEF NextAxis, target, TypeOK, Accounts, Owed, AttemptSound, Tokens
<1>3. CASE SkipRepeated
  BY <1>3, <1>a DEF SkipRepeated, target, TypeOK, Accounts, Owed, AttemptSound, Tokens
<1>4. CASE Attempt
  <2>1. Current \in Inputs
    BY <1>4, CurrentInput DEF Attempt
  <2>2. budget' = budget - 2 /\ budget' \in 0 .. MaxAggressiveRequests
    BY <1>4, <1>a DEF Attempt, Affords, TypeOK
  <2>3. CASE pc' = "poison" /\ token' = token + 1 /\ UNCHANGED next
    <3>1. Accounts'
      <4>1. (budget + Owed)' = budget + Owed
        BY <1>4, <2>2, <2>3 DEF Attempt, Owed, TypeOK
      <4>. QED
        BY <1>4, <1>a, <2>2, <2>3, <4>1 DEF Attempt, TypeOK, Accounts, Attempts, Tokens
    <3>2. token' \in Tokens
      BY <1>4, <1>a, <2>2, <2>3 DEF Attempt, TypeOK, Accounts, Tokens
    <3>3. AttemptSound'
      BY <1>4, <2>3 DEF Attempt, AttemptSound, TypeOK, Tokens, Canonical, Listed
    <3>4. TypeOK'
      BY <1>4, <2>1, <2>2, <2>3, <3>2 DEF Attempt, target, TypeOK
    <3>. QED
      BY <3>1, <3>3, <3>4
  <2>4. CASE next' = next + 1 /\ UNCHANGED <<pc, token>>
    <3>1. TypeOK'
      BY <1>4, <2>1, <2>2, <2>4 DEF Attempt, target, TypeOK
    <3>2. Accounts'
      <4>1. Owed = 0 /\ Owed' = 0 /\ Attempts \in Nat
        BY <1>4, <2>4, MiningAssumption DEF Attempt, Owed, Attempts
      <4>2. Attempts * (budget - 2) <= Attempts * budget
        BY <1>4, <2>2, <4>1 DEF Attempt, TypeOK
      <4>. QED
        BY <1>4, <1>a, <2>2, <2>4, <4>1, <4>2, MiningAssumption
        DEF Attempt, TypeOK, Accounts, Attempts, Tokens
    <3>3. AttemptSound'
      BY <1>4, <2>4 DEF Attempt, AttemptSound
    <3>. QED
      BY <3>1, <3>2, <3>3
  <2>. QED
    BY <1>4, <2>3, <2>4 DEF Attempt, FreshToken
<1>5. CASE RequestFails
  <2>1. Current \in Inputs
    BY <1>5, CurrentInput DEF RequestFails, AttemptSound
  <2>2. store' \in [Keys -> Inputs \cup {Clean, NoEntry}]
    <3>1. CASE UNCHANGED store
      BY <3>1 DEF TypeOK
    <3>2. CASE Reaches(Request)
      BY <2>1, <3>2, RequestStores DEF Reaches, Request, Poison, Confirm, TypeOK
    <3>. QED
      BY <1>5, <3>1, <3>2 DEF RequestFails
  <2>3. /\ pc' \in {pc, "pick"} /\ next' \in Nat \ {0} /\ retries' \in 0 .. MaxRetries
        /\ pc' # "pick" => next' = next
    BY <1>5, MiningAssumption DEF RequestFails, NextCandidate, TypeOK
  <2>4. pc \in {"poison", "confirm"} /\ sent' = sent + 1
        /\ UNCHANGED <<target, axis, budget, token, findings, tried>>
    BY <1>5 DEF RequestFails
  <2>d. disturbed' \in BOOLEAN
    BY <1>5 DEF RequestFails
  <2>5. TypeOK'
    BY <2>2, <2>3, <2>4, <2>d DEF TypeOK, target
  <2>6. Accounts'
    BY <1>5, RequestAccounts DEF RequestFails, NextCandidate
  <2>7. AttemptSound'
    BY <2>3, <2>4 DEF AttemptSound, Listed
  <2>. QED
    BY <2>5, <2>6, <2>7
<1>6. CASE PoisonRequest
  <2>1. Current \in Inputs
    BY <1>6, CurrentInput DEF PoisonRequest, AttemptSound
  <2>2. store' \in [Keys -> Inputs \cup {Clean, NoEntry}]
    BY <1>6, <2>1, RequestStores DEF PoisonRequest, Reaches, Poison, TypeOK
  <2>3. /\ pc' \in {"pick", "confirm"}
        /\ next' \in Nat \ {0}
        /\ pc' = "confirm" => next' = next
    BY <1>6 DEF PoisonRequest, NextCandidate, TypeOK
  <2>4. sent' = sent + 1 /\ retries' = 0
        /\ UNCHANGED <<target, axis, budget, token, findings, tried, disturbed>>
    BY <1>6 DEF PoisonRequest
  <2>5. TypeOK'
    BY <2>2, <2>3, <2>4, MiningAssumption DEF TypeOK, target
  <2>6. Accounts'
    BY <1>6, <2>3, <2>4, RequestAccounts DEF PoisonRequest
  <2>7. AttemptSound'
    BY <1>6, <2>3, <2>4 DEF PoisonRequest, AttemptSound, Listed
  <2>. QED
    BY <2>5, <2>6, <2>7
<1>7. CASE ConfirmRequest
  <2>1. Current \in Inputs
    BY <1>7, CurrentInput DEF ConfirmRequest, AttemptSound
  <2>2. store' \in [Keys -> Inputs \cup {Clean, NoEntry}]
    BY <1>7, RequestStores DEF ConfirmRequest, Reaches, Confirm, TypeOK
  <2>3. pc' = "pick" /\ next' \in Nat \ {0} /\ findings' \subseteq Inputs
    BY <1>7, <2>1 DEF ConfirmRequest, NextCandidate, TypeOK
  <2>4. sent' = sent + 1 /\ retries' = 0
        /\ UNCHANGED <<target, axis, budget, token, tried, disturbed>>
    BY <1>7 DEF ConfirmRequest
  <2>5. TypeOK'
    BY <2>2, <2>3, <2>4, MiningAssumption DEF TypeOK, target
  <2>6. Accounts' /\ AttemptSound'
    BY <1>7, <2>3, <2>4, RequestAccounts DEF ConfirmRequest, AttemptSound
  <2>. QED
    BY <2>5, <2>6
<1>8. CASE Visit
  <2>1. Canonical \in Tokens
    BY <1>a DEF Canonical, Tokens
  <2>2. store' \in [Keys -> Inputs \cup {Clean, NoEntry}]
    BY <1>8, <2>1, RequestStores DEF Visit
  <2>. QED
    BY <1>8, <2>2 DEF Visit, target, TypeOK, Accounts, Owed, AttemptSound, Listed
<1>9. CASE Expire
  <2>1. store' \in [Keys -> Inputs \cup {Clean, NoEntry}]
    BY <1>9 DEF Expire, TypeOK
  <2>. QED
    BY <1>9, <2>1 DEF Expire, target, TypeOK, Accounts, Owed, AttemptSound, Listed
<1>10. CASE UNCHANGED vars
  BY <1>10 DEF vars, TypeOK, Accounts, Owed, AttemptSound, Listed
<1>. QED
  BY <1>1, <1>2, <1>3, <1>4, <1>5, <1>6, <1>7, <1>8, <1>9, <1>10 DEF Next, Miner

-----------------------------------------------------------------------------
(* Isolation *)

LEMMA InitIsolation == Init => Isolation
<1>. SUFFICES ASSUME Init PROVE Isolation
  OBVIOUS
<1>1. FutureUntouched /\ CanonicalSafe
  BY DEF Init, FutureUntouched, CanonicalSafe
<1>2. ConfirmSound /\ findings = {}
  BY DEF Init, ConfirmSound
<1>. QED
  BY <1>1, <1>2 DEF Isolation

\* Between requests the miner disturbs nothing.
LEMMA QuietStep ==
    ASSUME Basics, Isolation, UNCHANGED <<target, store, findings, token>>,
           pc' \in {"pick", "done"}
    PROVE  Isolation'
<1>1. FutureUntouched' /\ CanonicalSafe'
  BY DEF Isolation, FutureUntouched, CanonicalSafe
<1>2. ConfirmSound'
  BY DEF ConfirmSound
<1>3. (\A input \in findings : Vulnerable(input))'
  BY DEF Isolation, Vulnerable, target
<1>. QED
  BY <1>1, <1>2, <1>3 DEF Isolation

\* A request of an attempt writes only under the attempt's token, and its
\* marker outside its own key entry only if the input is not in the key.
LEMMA RequestIsolation ==
    ASSUME Basics, Isolated(site, mode), Isolation, pc \in {"poison", "confirm"},
           NEW i \in {Current, Clean}, Reaches([token |-> token, input |-> i]),
           UNCHANGED <<target, axis, token>>, pc' # "pick" => next' = next,
           pc' \in {"pick", "poison", "confirm"}
    PROVE  FutureUntouched' /\ CanonicalSafe' /\ ConfirmSound'
<1>. DEFINE k == KeyOf(site, mode, [token |-> token, input |-> i])
            p == Produced(site, [token |-> token, input |-> i])
<1>1. /\ Current \in Inputs /\ i \in Inputs \cup {Clean}
      /\ token \in Tokens /\ token \in Nat /\ token > Canonical
  BY CurrentInput DEF Basics, AttemptSound, TypeOK, Tokens
<1>2. k = <<token, IF i \in site.keys THEN i ELSE Clean>>
  BY IsolatedKey
<1>3. store' = Filled(store, k, p, site.stores)
  BY DEF Reaches
<1>4. /\ k \in Keys
      /\ p \in {i, Clean}
      /\ p # Clean => i \in site.reads
      /\ \A key \in Keys : store'[key] # store[key] =>
             key = k /\ store'[k] = p /\ site.stores
  BY <1>1, <1>3, RequestStores DEF Basics
<1>5. FutureUntouched'
  <2>. SUFFICES ASSUME NEW key \in Keys, key[1] > token
                PROVE  store'[key] = NoEntry
    BY DEF FutureUntouched
  <2>1. key # k
    BY <1>1, <1>2
  <2>. QED
    BY <1>4, <2>1 DEF Isolation, FutureUntouched
<1>6. CanonicalSafe'
  <2>. SUFFICES ASSUME NEW key \in Keys, key[1] = Canonical
                PROVE  store'[key] \in {Clean, NoEntry}
    BY DEF CanonicalSafe
  <2>1. key # k
    BY <1>1, <1>2 DEF Canonical
  <2>. QED
    BY <1>4, <2>1 DEF Isolation, CanonicalSafe
<1>7. ConfirmSound'
  <2>. DEFINE own == <<token, Clean>>
  <2>. SUFFICES ASSUME pc' # "pick"
                PROVE  /\ store'[own] \in {Current, Clean, NoEntry}
                       /\ store'[own] = Current => Vulnerable(Current)
    BY DEF ConfirmSound, Current, Listed, Vulnerable, target
  <2>1. own \in Keys
    BY <1>1 DEF Keys
  <2>2. /\ store[own] \in {Current, Clean, NoEntry}
        /\ store[own] = Current => Vulnerable(Current)
    BY DEF Isolation, ConfirmSound
  <2>3. CASE store'[own] = store[own]
    BY <2>2, <2>3
  <2>4. CASE store'[own] # store[own]
    <3>1. own = k /\ store'[own] = p /\ site.stores
      BY <1>4, <2>1, <2>4
    <3>2. p = Current => i = Current /\ Current \in site.reads
      BY <1>1, <1>4, MiningAssumption
    <3>3. i = Current => Current \notin site.keys
      BY <1>1, <1>2, <3>1, MiningAssumption
    <3>. QED
      BY <1>4, <3>1, <3>2, <3>3 DEF Vulnerable
  <2>. QED
    BY <2>3, <2>4
<1>. QED
  BY <1>5, <1>6, <1>7

LEMMA PoisonIsolation ==
    ASSUME Basics, Isolated(site, mode), Isolation, PoisonRequest
    PROVE  Isolation'
<1>1. FutureUntouched' /\ CanonicalSafe' /\ ConfirmSound'
  BY RequestIsolation DEF PoisonRequest, NextCandidate, Poison
<1>2. (\A input \in findings : Vulnerable(input))'
  BY DEF PoisonRequest, Isolation, Vulnerable, target
<1>. QED
  BY <1>1, <1>2 DEF Isolation

\* A failed request leaves what a request leaves, or nothing.
LEMMA FailureIsolation ==
    ASSUME Basics, Isolated(site, mode), Isolation, RequestFails
    PROVE  Isolation'
<1>1. /\ pc \in {"poison", "confirm"} /\ pc' \in {pc, "pick"} /\ (pc' # "pick" => next' = next)
      /\ UNCHANGED <<target, axis, token, findings>>
  BY DEF RequestFails, NextCandidate
<1>2. FutureUntouched' /\ CanonicalSafe' /\ ConfirmSound'
  <2>1. CASE UNCHANGED store
    BY <1>1, <2>1 DEF Isolation, FutureUntouched, CanonicalSafe, ConfirmSound,
                      Current, Listed, Vulnerable, target
  <2>2. CASE Reaches(Request)
    <3>1. Request \in {Poison, Confirm}
      BY DEF Request
    <3>. QED
      BY <1>1, <2>2, <3>1, RequestIsolation DEF Poison, Confirm
  <2>. QED
    BY <2>1, <2>2 DEF RequestFails
<1>3. (\A input \in findings : Vulnerable(input))'
  BY <1>1 DEF Isolation, Vulnerable, target
<1>. QED
  BY <1>2, <1>3 DEF Isolation

\* A confirm request is served its own attempt's entry or a clean response.
LEMMA ConfirmIsolation ==
    ASSUME Basics, Isolated(site, mode), Isolation, ConfirmRequest
    PROVE  Isolation'
<1>1. FutureUntouched' /\ CanonicalSafe' /\ ConfirmSound'
  BY RequestIsolation DEF ConfirmRequest, NextCandidate, Confirm
<1>2. KeyOf(site, mode, Confirm) = <<token, Clean>> /\ Produced(site, Confirm) = Clean
  BY IsolatedKey DEF Confirm, Produced
<1>3. Reply(Confirm) # Clean => Vulnerable(Current)
  BY <1>2 DEF Reply, Answer, Isolation, ConfirmSound, ConfirmRequest
<1>4. (\A input \in findings : Vulnerable(input))'
  BY <1>3 DEF ConfirmRequest, Isolation, Vulnerable, target
<1>. QED
  BY <1>1, <1>4 DEF Isolation

\* A user's request touches the canonical entry only, and stores a clean one.
LEMMA VisitIsolation ==
    ASSUME Basics, Isolated(site, mode), Isolation, Visit
    PROVE  Isolation'
<1>. DEFINE request == [token |-> Canonical, input |-> Clean]
            k == KeyOf(site, mode, request)
            p == Produced(site, request)
<1>1. token \in Nat /\ Canonical \in Tokens
  BY MiningAssumption DEF Basics, TypeOK, Tokens, Canonical
<1>2. k = <<Canonical, Clean>>
  BY IsolatedKey
<1>3. /\ store' = Filled(store, k, p, site.stores)
      /\ UNCHANGED <<target, axis, next, pc, token, findings>>
  BY DEF Visit
<1>4. /\ k \in Keys
      /\ p = Clean
      /\ \A key \in Keys : store'[key] # store[key] => key = k /\ store'[k] = p
  BY <1>1, <1>3, RequestStores DEF Basics
<1>5. FutureUntouched'
  <2>. SUFFICES ASSUME NEW key \in Keys, key[1] > token
                PROVE  store'[key] = NoEntry
    BY <1>3 DEF FutureUntouched
  <2>1. key # k
    BY <1>1, <1>2 DEF Canonical
  <2>. QED
    BY <1>4, <2>1 DEF Isolation, FutureUntouched
<1>6. CanonicalSafe'
  BY <1>4 DEF Isolation, CanonicalSafe
<1>7. ConfirmSound'
  <2>. SUFFICES ASSUME pc \in {"poison", "confirm"}
                PROVE  /\ store'[<<token, Clean>>] \in {Current, Clean, NoEntry}
                       /\ store'[<<token, Clean>>] = Current => Vulnerable(Current)
    BY <1>3 DEF ConfirmSound, Current, Listed, Vulnerable, target
  <2>1. <<token, Clean>> \in Keys /\ <<token, Clean>> # k
    BY <1>1, <1>2 DEF Keys, Canonical, Basics, TypeOK, AttemptSound
  <2>. QED
    BY <1>4, <2>1 DEF Isolation, ConfirmSound
<1>8. (\A input \in findings : Vulnerable(input))'
  BY <1>3 DEF Isolation, Vulnerable, target
<1>. QED
  BY <1>5, <1>6, <1>7, <1>8 DEF Isolation

\* An entry that expires takes nothing with it.
LEMMA ExpireIsolation ==
    ASSUME Basics, Isolation, Expire
    PROVE  Isolation'
<1>1. \A key \in Keys : store'[key] \in {store[key], NoEntry}
  BY DEF Expire, Basics, TypeOK
<1>2. UNCHANGED <<target, axis, next, pc, token, findings>>
  BY DEF Expire
<1>3. FutureUntouched' /\ CanonicalSafe'
  BY <1>1, <1>2 DEF Isolation, FutureUntouched, CanonicalSafe
<1>4. ConfirmSound'
  <2>. SUFFICES ASSUME pc \in {"poison", "confirm"}
                PROVE  /\ store'[<<token, Clean>>] \in {Current, Clean, NoEntry}
                       /\ store'[<<token, Clean>>] = Current => Vulnerable(Current)
    BY <1>2 DEF ConfirmSound, Current, Listed, Vulnerable, target
  <2>1. <<token, Clean>> \in Keys
    BY DEF Keys, Basics, TypeOK
  <2>2. Current \in Inputs
    BY CurrentInput DEF Basics, AttemptSound
  <2>. QED
    BY <1>1, <2>1, <2>2, MiningAssumption DEF Isolation, ConfirmSound
<1>5. (\A input \in findings : Vulnerable(input))'
  BY <1>2 DEF Isolation, Vulnerable, target
<1>. QED
  BY <1>3, <1>4, <1>5 DEF Isolation

LEMMA StepIsolation ==
    Basics /\ Isolated(site, mode) /\ Isolation /\ [Next]_vars => Isolation'
<1>. SUFFICES ASSUME Basics, Isolated(site, mode), Isolation, [Next]_vars
              PROVE  Isolation'
  OBVIOUS
<1>1. CASE OutOfBudget
  BY <1>1, QuietStep DEF OutOfBudget
<1>2. CASE NextAxis
  BY <1>2, QuietStep DEF NextAxis
<1>3. CASE SkipRepeated
  BY <1>3, QuietStep DEF SkipRepeated
<1>4. CASE Attempt
  <2>1. UNCHANGED <<target, store, findings>>
    BY <1>4 DEF Attempt, FreshToken
  <2>2. CASE pc' = "poison" /\ token' = token + 1
    <3>1. FutureUntouched'
      BY <2>1, <2>2 DEF Isolation, FutureUntouched, Keys, Tokens, Basics, TypeOK
    <3>2. CanonicalSafe'
      BY <2>1 DEF Isolation, CanonicalSafe
    <3>4. ConfirmSound'
      <4>1. <<token', Clean>> \in Keys /\ token' > token
        BY <2>2, StepBasics DEF Keys, Basics, TypeOK, Tokens
      <4>2. store'[<<token', Clean>>] = NoEntry
        BY <2>1, <4>1 DEF Isolation, FutureUntouched
      <4>3. Current' # NoEntry
        <5>1. Current \in Inputs /\ UNCHANGED <<axis, next>>
          BY <1>4, <2>2, CurrentInput DEF Attempt, Basics
        <5>. QED
          BY <5>1, MiningAssumption DEF Current, Listed
      <4>. QED
        BY <4>2, <4>3 DEF ConfirmSound
    <3>3. (\A input \in findings : Vulnerable(input))'
      BY <2>1 DEF Isolation, Vulnerable, target
    <3>. QED
      BY <3>1, <3>2, <3>3, <3>4 DEF Isolation
  <2>3. CASE UNCHANGED <<pc, token>>
    BY <1>4, <2>1, <2>3, QuietStep DEF Attempt, FreshToken
  <2>. QED
    BY <1>4, <2>2, <2>3 DEF Attempt, FreshToken
<1>5. CASE RequestFails
  BY <1>5, FailureIsolation
<1>6. CASE PoisonRequest
  BY <1>6, PoisonIsolation
<1>7. CASE ConfirmRequest
  BY <1>7, ConfirmIsolation
<1>8. CASE Visit
  BY <1>8, VisitIsolation
<1>9. CASE Expire
  BY <1>9, ExpireIsolation
<1>10. CASE UNCHANGED vars
  <2>1. UNCHANGED <<target, store, axis, next, pc, token, findings>>
    BY <1>10 DEF vars, target
  <2>2. FutureUntouched' /\ CanonicalSafe'
    BY <2>1 DEF Isolation, FutureUntouched, CanonicalSafe
  <2>3. ConfirmSound' /\ (\A input \in findings : Vulnerable(input))'
    BY <2>1 DEF Isolation, ConfirmSound, Current, Listed, Vulnerable, target
  <2>. QED
    BY <2>2, <2>3 DEF Isolation
<1>. QED
  BY <1>1, <1>2, <1>3, <1>4, <1>5, <1>6, <1>7, <1>8, <1>9, <1>10 DEF Next, Miner

-----------------------------------------------------------------------------
(* The theorems *)

LEMMA Invariance == Spec => []IInv
<1>1. Init => IInv
  BY InitBasics, InitIsolation DEF IInv, Basics
<1>2. IInv /\ [Next]_vars => IInv'
  <2>. SUFFICES ASSUME IInv, [Next]_vars PROVE IInv'
    OBVIOUS
  <2>1. Basics'
    BY StepBasics DEF IInv, Basics
  <2>2. UNCHANGED target
    BY DEF Next, Miner, OutOfBudget, NextAxis, SkipRepeated, Attempt, RequestFails,
           PoisonRequest, ConfirmRequest, Visit, Expire, vars, target
  <2>3. Isolated(site, mode)' => Isolation'
    BY <2>2, StepIsolation DEF IInv, Basics, Isolated, target
  <2>. QED
    BY <2>1, <2>3 DEF IInv, Basics
<1>. QED
  BY <1>1, <1>2, PTL DEF Spec

\* The model is well typed whatever the wordlists and the budget: the tokens
\* never outnumber what the budget pays for.
THEOREM TypeCorrect == Spec => []TypeOK
<1>1. IInv => TypeOK
  BY DEF IInv
<1>. QED
  BY <1>1, Invariance, PTL

\* Whatever the wordlists, the site and the failures, the miner never issues
\* more requests than MaxAggressiveRequests.
THEOREM BudgetIsRespected == Spec => []BudgetRespected
<1>1. IInv => BudgetRespected
  <2>. SUFFICES ASSUME IInv PROVE BudgetRespected
    OBVIOUS
  <2>1. /\ Attempts \in Nat /\ Attempts * MaxAggressiveRequests \in Nat
        /\ retries \in Nat /\ retries < Attempts /\ budget \in Nat /\ sent \in Nat
    BY MiningAssumption DEF Attempts, IInv, TypeOK
  <2>2. sent + Attempts * (budget + Owed) <= Attempts * MaxAggressiveRequests + retries
    BY DEF IInv, Accounts
  <2>3. CASE pc \in {"pick", "done"}
    <3>1. retries = 0 /\ Owed = 0
      BY <2>3 DEF IInv, Accounts, Owed
    <3>2. Attempts * (budget + Owed) \in Nat
      BY <2>1, <3>1
    <3>3. sent <= Attempts * MaxAggressiveRequests
      BY <2>1, <2>2, <3>1, <3>2
    <3>. QED
      BY <3>3, MiningAssumption DEF BudgetRespected, Attempts
  <2>4. CASE pc \in {"poison", "confirm"}
    <3>1. Owed \in {1, 2}
      BY <2>4 DEF Owed
    <3>2. budget + Owed \in Nat /\ budget + Owed >= 1
      BY <2>1, <3>1
    <3>3. \A n \in Nat : n >= 1 => Attempts * n \in Nat /\ Attempts * n >= Attempts
      BY <2>1
    <3>4. Attempts * (budget + Owed) \in Nat /\ Attempts * (budget + Owed) >= Attempts
      BY <3>2, <3>3
    <3>5. sent <= Attempts * MaxAggressiveRequests
      BY <2>1, <2>2, <3>4
    <3>. QED
      BY <3>5, MiningAssumption DEF BudgetRespected, Attempts
  <2>. QED
    BY <2>3, <2>4 DEF IInv, TypeOK
<1>. QED
  BY <1>1, Invariance, PTL

\* In front of any cache that keys the buster, every finding is an input that
\* reaches the origin, is outside the key and is stored.
THEOREM FindingsAreGenuine == Spec => []FindingsGenuine
<1>1. IInv => FindingsGenuine
  BY DEF IInv, Isolation, FindingsGenuine
<1>. QED
  BY <1>1, Invariance, PTL

\* In front of any cache that keys the buster, the entry real users are served
\* never holds the marker.
THEOREM CanonicalStaysClean == Spec => []CanonicalClean
<1>1. IInv => CanonicalClean
  <2>. SUFFICES ASSUME IInv, Isolated(site, mode), NEW input \in Inputs \cup {Clean}
                PROVE  store[<<Canonical, input>>] \in {Clean, NoEntry}
    BY DEF CanonicalClean
  <2>1. <<Canonical, input>> \in Keys
    BY MiningAssumption DEF Keys, Tokens, Canonical
  <2>. QED
    BY <2>1 DEF IInv, Isolation, CanonicalSafe
<1>. QED
  BY <1>1, Invariance, PTL

\* Every attempt starts under a token whose entries nothing has touched.
THEOREM TokensAreFresh == Spec => FreshTokens
<1>1. IInv /\ [Next]_vars =>
          [ Isolated(site, mode) /\ pc = "pick" /\ pc' = "poison" =>
                \A key \in Keys : key[1] = token' => store[key] = NoEntry ]_vars
  <2>. SUFFICES ASSUME IInv, Next, Isolated(site, mode), pc = "pick", pc' = "poison",
                       NEW key \in Keys, key[1] = token'
                PROVE  store[key] = NoEntry
    OBVIOUS
  <2>1. token' = token + 1 /\ token \in Nat
    BY DEF IInv, TypeOK, Tokens, Next, Miner, OutOfBudget, NextAxis, SkipRepeated, Attempt,
           Affords, FreshToken, RequestFails, PoisonRequest, ConfirmRequest, Visit, Expire
  <2>. QED
    BY <2>1 DEF IInv, Isolation, FutureUntouched
<1>. QED
  BY <1>1, Invariance, PTL DEF Spec, FreshTokens

-----------------------------------------------------------------------------
(* What has been tried *)

List(a) == Wordlist[Axes[a]] \o Extra

\* An input is covered once the loops are past it, or at it with its attempt
\* under way.
Covered(input) ==
    \E a \in 1 .. axis : \E i \in 1 .. Len(List(a)) :
        /\ input = <<Axes[a], List(a)[i]>>
        /\ a = axis => i < next \/ (i = next /\ UnderWay # {})

\* The inputs covered are the inputs tried, each paid for once; the miner ends
\* when they are all there is or when the budget is spent.
Coverage ==
    /\ \A input \in Inputs : input \in tried <=> Covered(input)
    /\ IsFiniteSet(tried)
    /\ 2 * Cardinality(tried) + budget = MaxAggressiveRequests
    /\ pc = "done" => budget < 2 \/ (axis = 3 /\ next > Len(Listed))
    /\ findings \subseteq tried \ UnderWay

\* While nothing fails and the cache keys the buster: an attempt finds its
\* entry untouched and poisons it if the input is vulnerable, and what was
\* tried and is vulnerable has been found.
NoneMissed ==
    Isolated(site, mode) /\ ~disturbed =>
        /\ \A input \in tried \ UnderWay : Vulnerable(input) => input \in findings
        /\ pc = "poison" => store[<<token, Clean>>] = NoEntry
        /\ pc = "confirm" /\ Vulnerable(Current) => store[<<token, Clean>>] = Current

Extras == Coverage /\ NoneMissed

\* The lists of the axes are sequences of names, and no two axes share a name.
LEMMA Lists ==
    /\ \A a \in 1 .. 3 : Axes[a] \in AxisNames /\ List(a) \in Seq(Names)
    /\ \A a, b \in 1 .. 3 : Axes[a] = Axes[b] => a = b
    /\ \A name \in AxisNames : \E a \in 1 .. 3 : name = Axes[a]
    /\ Listed = List(axis) /\ Current = <<Axes[axis], List(axis)[next]>>
    /\ UnderWay # {} <=> pc \in {"poison", "confirm"}
    /\ Len(Axes) = 3
<1>1. Axes[1] = "header" /\ Axes[2] = "cookie" /\ Axes[3] = "query parameter" /\ Len(Axes) = 3
  BY DEF Axes
<1>2. \A a \in 1 .. 3 : a = 1 \/ a = 2 \/ a = 3
  OBVIOUS
<1>3. \A a \in 1 .. 3 : Axes[a] \in AxisNames
  BY <1>1, <1>2 DEF AxisNames
<1>4. \A a \in 1 .. 3 : List(a) \in Seq(Names)
  <2>1. \A s, t \in Seq(Names) : s \o t \in Seq(Names)
    OBVIOUS
  <2>. QED
    BY <1>3, <2>1, MiningAssumption DEF List
<1>5. \A a, b \in 1 .. 3 : Axes[a] = Axes[b] => a = b
  BY <1>1, <1>2
<1>6. \A name \in AxisNames : \E a \in 1 .. 3 : name = Axes[a]
  <2>. SUFFICES ASSUME NEW name \in AxisNames PROVE \E a \in 1 .. 3 : name = Axes[a]
    OBVIOUS
  <2>1. 1 \in 1 .. 3 /\ 2 \in 1 .. 3 /\ 3 \in 1 .. 3
    OBVIOUS
  <2>2. name = Axes[1] \/ name = Axes[2] \/ name = Axes[3]
    BY <1>1 DEF AxisNames
  <2>. QED
    BY <2>1, <2>2
<1>7. Listed = List(axis) /\ Current = <<Axes[axis], List(axis)[next]>>
  BY DEF Listed, List, Current
<1>8. UnderWay # {} <=> pc \in {"poison", "confirm"}
  BY DEF UnderWay
<1>. QED
  BY <1>1, <1>3, <1>4, <1>5, <1>6, <1>7, <1>8

LEMMA ListsNext == (UnderWay # {} <=> pc \in {"poison", "confirm"})'
BY DEF UnderWay

\* An input not repeated on its axis has not been tried before.
LEMMA CurrentUntried ==
    ASSUME Basics, Coverage, Attempt
    PROVE  Current \in Inputs /\ Current \notin tried
<1>1. /\ pc = "pick" /\ next <= Len(Listed) /\ ~Repeated
      /\ axis \in 1 .. 3 /\ next \in Nat \ {0}
  BY DEF Attempt, Basics, TypeOK
<1>2. Current \in Inputs
  BY <1>1, CurrentInput DEF Basics
<1>3. ASSUME Covered(Current) PROVE FALSE
  <2>0. PICK a \in 1 .. axis : \E i \in 1 .. Len(List(a)) :
            /\ Current = <<Axes[a], List(a)[i]>>
            /\ a = axis => i < next \/ (i = next /\ UnderWay # {})
    BY <1>3 DEF Covered
  <2>1. PICK i \in 1 .. Len(List(a)) :
            /\ Current = <<Axes[a], List(a)[i]>>
            /\ a = axis => i < next \/ (i = next /\ UnderWay # {})
    BY <2>0
  <2>2. Axes[a] = Axes[axis] /\ List(a)[i] = List(axis)[next] /\ a \in 1 .. 3
    BY <1>1, <2>1, Lists
  <2>3. a = axis
    BY <1>1, <2>2, Lists
  <2>4. i \in 1 .. next - 1
    BY <1>1, <2>1, <2>3, Lists
  <2>. QED
    BY <1>1, <2>2, <2>3, <2>4, Lists DEF Repeated
<1>. QED
  BY <1>2, <1>3 DEF Coverage

\* An attempt under way is about an input that has been tried.
LEMMA CurrentTried ==
    ASSUME Basics, Coverage, pc \in {"poison", "confirm"}
    PROVE  Current \in tried
<1>1. next <= Len(Listed) /\ axis \in 1 .. 3 /\ next \in Nat \ {0}
  BY DEF Basics, TypeOK, AttemptSound
<1>2. Current \in Inputs
  BY <1>1, CurrentInput DEF Basics
<1>3. axis \in 1 .. axis /\ next \in 1 .. Len(List(axis))
  BY <1>1, Lists
<1>4. Covered(Current)
  BY <1>1, <1>3, Lists DEF Covered
<1>. QED
  BY <1>2, <1>4 DEF Coverage

\* What is covered stays what it is while an attempt goes on, or ends.
LEMMA StillCovered ==
    ASSUME Basics, UNCHANGED axis,
           \/ UNCHANGED next /\ (UnderWay' # {} <=> UnderWay # {})
           \/ next' = next + 1 /\ UnderWay # {} /\ UnderWay' = {},
           NEW input
    PROVE  Covered(input)' <=> Covered(input)
<1>1. next \in Nat /\ axis \in 1 .. 3 /\ \A a \in 1 .. axis : List(a) \in Seq(Names)
  BY Lists DEF Basics, TypeOK
<1>2. CASE UNCHANGED next /\ (UnderWay' # {} <=> UnderWay # {})
  BY <1>2 DEF Covered
<1>3. CASE next' = next + 1 /\ UnderWay # {} /\ UnderWay' = {}
  <2>1. \A a \in 1 .. axis : \A i \in 1 .. Len(List(a)) : i < next + 1 <=> i < next \/ i = next
    BY <1>1
  <2>. QED
    BY <1>3, <2>1 DEF Covered
<1>. QED
  BY <1>2, <1>3

LEMMA InitExtras == Init => Extras
<1>. SUFFICES ASSUME Init PROVE Extras
  OBVIOUS
<1>1. /\ tried = {} /\ findings = {} /\ pc = "pick" /\ budget = MaxAggressiveRequests
      /\ axis = 1 /\ next = 1
  BY DEF Init
<1>2. \A input : ~Covered(input)
  BY <1>1, Lists DEF Covered
<1>3. IsFiniteSet(tried) /\ Cardinality(tried) = 0
  BY <1>1, FS_EmptySet
<1>. QED
  BY <1>1, <1>2, <1>3, MiningAssumption DEF Extras, Coverage, NoneMissed

\* A request of an attempt leaves the attempt's input tried.
LEMMA RequestCoverage ==
    ASSUME Basics, Coverage, pc \in {"poison", "confirm"},
           UNCHANGED <<axis, budget, tried>>,
           \/ pc' \in {"poison", "confirm"} /\ next' = next /\ findings' = findings
           \/ pc' = "pick" /\ next' = next + 1 /\ findings' \in {findings, findings \cup {Current}}
    PROVE  Coverage'
<1>1. \A input \in Inputs : Covered(input)' <=> Covered(input)
  BY StillCovered, Lists, ListsNext DEF UnderWay
<1>2. findings' \subseteq tried' \ UnderWay'
  <2>1. CASE pc' \in {"poison", "confirm"} /\ next' = next /\ findings' = findings
    <3>1. UnderWay' = UnderWay
      BY <2>1 DEF UnderWay, Current, Listed
    <3>. QED
      BY <2>1, <3>1 DEF Coverage
  <2>2. CASE pc' = "pick" /\ findings' \in {findings, findings \cup {Current}}
    <3>1. UnderWay' = {}
      BY <2>2 DEF UnderWay
    <3>. QED
      BY <2>2, <3>1, CurrentTried DEF Coverage
  <2>. QED
    BY <2>1, <2>2
<1>. QED
  BY <1>1, <1>2 DEF Coverage

LEMMA StepCoverage ==
    ASSUME Basics, Coverage, [Next]_vars
    PROVE  Coverage'
<1>1. /\ axis \in 1 .. 3 /\ next \in Nat \ {0} /\ budget \in Nat /\ tried \subseteq Inputs
      /\ Len(List(axis)) \in Nat /\ \A a \in 1 .. axis : a \in 1 .. 3 /\ Len(List(a)) \in Nat
  BY Lists DEF Basics, TypeOK
<1>2. CASE OutOfBudget
  <2>1. pc = "pick" /\ pc' = "done" /\ budget < 2 /\ UNCHANGED <<axis, next, tried, budget, findings>>
    BY <1>1, <1>2 DEF OutOfBudget, Affords
  <2>2. UnderWay = {} /\ UnderWay' = {}
    BY <2>1 DEF UnderWay
  <2>3. \A input \in Inputs : Covered(input)' <=> Covered(input)
    BY <2>1, <2>2, StillCovered
  <2>. QED
    BY <2>1, <2>2, <2>3 DEF Coverage
<1>3. CASE NextAxis
  <2>1. /\ pc = "pick" /\ next > Len(Listed) /\ UNCHANGED <<tried, budget, findings>>
        /\ \/ axis < 3 /\ axis' = axis + 1 /\ next' = 1 /\ pc' = pc
           \/ axis = 3 /\ pc' = "done" /\ UNCHANGED <<axis, next>>
    BY <1>1, <1>3, Lists DEF NextAxis
  <2>2. UnderWay = {} /\ UnderWay' = {}
    BY <2>1 DEF UnderWay
  <2>3. ASSUME NEW input PROVE Covered(input)' <=> Covered(input)
    <3>1. CASE axis < 3 /\ axis' = axis + 1 /\ next' = 1
      <4>1. Covered(input) <=> \E a \in 1 .. axis : \E i \in 1 .. Len(List(a)) : input = <<Axes[a], List(a)[i]>>
        <5>1. \A a \in 1 .. axis : \A i \in 1 .. Len(List(a)) : a = axis => i < next
          BY <1>1, <2>1, Lists
        <5>. QED
          BY <5>1 DEF Covered
      <4>2. Covered(input)' <=> \E a \in 1 .. axis + 1 : \E i \in 1 .. Len(List(a)) :
                                    input = <<Axes[a], List(a)[i]>> /\ (a = axis + 1 => i < 1)
        BY <2>2, <3>1 DEF Covered
      <4>3. \A a \in 1 .. axis + 1 : a # axis + 1 <=> a \in 1 .. axis
        BY <1>1
      <4>4. 1 .. axis \subseteq 1 .. axis + 1
        BY <1>1
      <4>. QED
        BY <4>1, <4>2, <4>3, <4>4
    <3>2. CASE UNCHANGED <<axis, next>>
      BY <2>2, <3>2, StillCovered
    <3>. QED
      BY <2>1, <3>1, <3>2
  <2>4. pc' = "done" => (axis = 3 /\ next > Len(Listed))'
    BY <2>1 DEF Listed
  <2>. QED
    BY <2>1, <2>2, <2>3, <2>4 DEF Coverage
<1>4. CASE SkipRepeated
  <2>1. /\ pc = "pick" /\ pc' = pc /\ Repeated /\ next' = next + 1 /\ next <= Len(List(axis))
        /\ UNCHANGED <<axis, tried, budget, findings>>
    BY <1>4, Lists DEF SkipRepeated
  <2>2. UnderWay = {} /\ UnderWay' = {}
    BY <2>1 DEF UnderWay
  <2>3. PICK earlier \in 1 .. next - 1 : List(axis)[earlier] = List(axis)[next]
    BY <2>1, Lists DEF Repeated
  <2>4. ASSUME NEW input PROVE Covered(input)' <=> Covered(input)
    <3>1. Covered(input) => Covered(input)'
      BY <1>1, <2>1, <2>2 DEF Covered
    <3>2. ASSUME Covered(input)' PROVE Covered(input)
      <4>0. PICK a \in 1 .. axis : \E i \in 1 .. Len(List(a)) :
                input = <<Axes[a], List(a)[i]>> /\ (a = axis => i < next + 1)
        BY <2>1, <2>2, <3>2 DEF Covered
      <4>1. PICK i \in 1 .. Len(List(a)) :
                input = <<Axes[a], List(a)[i]>> /\ (a = axis => i < next + 1)
        BY <4>0
      <4>2. CASE a = axis /\ i = next
        <5>1. earlier \in 1 .. Len(List(axis)) /\ earlier < next /\ axis \in 1 .. axis
          BY <1>1, <2>1
        <5>. QED
          BY <2>3, <4>1, <4>2, <5>1 DEF Covered
      <4>3. CASE ~(a = axis /\ i = next)
        BY <1>1, <4>1, <4>3 DEF Covered
      <4>. QED
        BY <4>2, <4>3
    <3>. QED
      BY <3>1, <3>2
  <2>. QED
    BY <2>1, <2>2, <2>4 DEF Coverage
<1>5. CASE Attempt
  <2>1. /\ pc = "pick" /\ next <= Len(List(axis)) /\ budget' = budget - 2 /\ tried' = tried \cup {Current}
        /\ UNCHANGED <<axis, findings>>
        /\ \/ pc' = "poison" /\ next' = next
           \/ pc' = pc /\ next' = next + 1
    BY <1>5, Lists DEF Attempt
  <2>2. Current \in Inputs /\ Current \notin tried
    BY <1>5, CurrentUntried
  <2>3. IsFiniteSet(tried') /\ Cardinality(tried') = Cardinality(tried) + 1
    BY <2>1, <2>2, FS_AddElement DEF Coverage
  <2>4. UnderWay = {} /\ UnderWay' \subseteq {Current}
        /\ (UnderWay' # {} <=> pc' = "poison")
    BY <2>1 DEF UnderWay, Current, Listed
  <2>5. ASSUME NEW input PROVE Covered(input)' <=> Covered(input) \/ input = Current
    <3>1. Covered(input)' <=> \E a \in 1 .. axis : \E i \in 1 .. Len(List(a)) :
              input = <<Axes[a], List(a)[i]>> /\ (a = axis => i < next \/ i = next)
      <4>1. \A a \in 1 .. axis : \A i \in 1 .. Len(List(a)) : i < next + 1 <=> i < next \/ i = next
        BY <1>1
      <4>. QED
        BY <2>1, <2>4, <4>1 DEF Covered
    <3>2. Covered(input) <=> \E a \in 1 .. axis : \E i \in 1 .. Len(List(a)) :
              input = <<Axes[a], List(a)[i]>> /\ (a = axis => i < next)
      BY <2>4 DEF Covered
    <3>3. input = Current <=> \E a \in 1 .. axis : \E i \in 1 .. Len(List(a)) :
              input = <<Axes[a], List(a)[i]>> /\ a = axis /\ i = next
      BY <1>1, <2>1, Lists
    <3>. QED
      BY <3>1, <3>2, <3>3
  <2>6. 2 * Cardinality(tried') + budget' = MaxAggressiveRequests
    BY <1>1, <2>1, <2>3, FS_CardinalityType DEF Coverage
  <2>7. findings' \subseteq tried' \ UnderWay'
    BY <2>1, <2>2, <2>4 DEF Coverage
  <2>8. \A input \in Inputs : input \in tried' <=> Covered(input)'
    BY <2>1, <2>5 DEF Coverage
  <2>. QED
    BY <2>1, <2>3, <2>6, <2>7, <2>8 DEF Coverage
<1>6. CASE RequestFails
  BY <1>6, RequestCoverage DEF RequestFails, NextCandidate
<1>7. CASE PoisonRequest
  BY <1>7, RequestCoverage DEF PoisonRequest, NextCandidate
<1>8. CASE ConfirmRequest
  BY <1>8, RequestCoverage DEF ConfirmRequest, NextCandidate
<1>9. CASE Visit \/ Expire \/ UNCHANGED vars
  <2>1. UNCHANGED <<axis, next, pc, tried, budget, findings>>
    BY <1>9 DEF Visit, Expire, vars
  <2>2. UnderWay' = UnderWay
    BY <2>1 DEF UnderWay, Current, Listed
  <2>3. \A input \in Inputs : Covered(input)' <=> Covered(input)
    BY <2>1, <2>2, StillCovered
  <2>. QED
    BY <2>1, <2>2, <2>3 DEF Coverage, Listed
<1>. QED
  BY <1>2, <1>3, <1>4, <1>5, <1>6, <1>7, <1>8, <1>9 DEF Next, Miner

\* In an untouched entry, the poison request of a vulnerable input leaves it
\* and is served it.
LEMMA VulnerablePoisons ==
    ASSUME Basics, pc = "poison", Isolated(site, mode), Reaches(Poison),
           store[<<token, Clean>>] = NoEntry, Vulnerable(Current)
    PROVE  Reply(Poison) = Current /\ store'[<<token, Clean>>] = Current
<1>1. Current \in Inputs /\ token \in Tokens
  BY CurrentInput DEF Basics, AttemptSound, TypeOK
<1>2. KeyOf(site, mode, Poison) = <<token, Clean>> /\ Produced(site, Poison) = Current /\ site.stores
  BY IsolatedKey DEF Vulnerable, Poison, Produced
<1>3. <<token, Clean>> \in Keys
  BY <1>1 DEF Keys
<1>4. store' = [store EXCEPT ![<<token, Clean>>] = Current]
  BY <1>2 DEF Reaches, Filled
<1>5. store'[<<token, Clean>>] = Current
  BY <1>3, <1>4 DEF Basics, TypeOK
<1>. QED
  BY <1>2, <1>5 DEF Reply, Answer

LEMMA StepMissed ==
    ASSUME IInv, IInv', Coverage, NoneMissed, [Next]_vars
    PROVE  NoneMissed'
<1>1. CASE RequestFails \/ Expire
  BY <1>1 DEF RequestFails, Expire, NoneMissed
<1>2. CASE OutOfBudget \/ NextAxis \/ SkipRepeated
  <2>1. pc = "pick" /\ pc' \in {"pick", "done"} /\ UNCHANGED <<target, tried, findings, disturbed>>
    BY <1>2 DEF OutOfBudget, NextAxis, SkipRepeated
  <2>2. UnderWay = {} /\ UnderWay' = {}
    BY <2>1 DEF UnderWay
  <2>. QED
    BY <2>1, <2>2 DEF NoneMissed, Vulnerable, target
<1>3. CASE Attempt
  <2>1. /\ pc = "pick" /\ UNCHANGED <<target, axis, store, findings>> /\ tried' = tried \cup {Current}
        /\ \/ pc' = "poison" /\ token' = token + 1 /\ UNCHANGED <<next, disturbed>>
           \/ disturbed' = TRUE
    BY <1>3 DEF Attempt, FreshToken
  <2>2. CASE pc' = "poison" /\ token' = token + 1 /\ UNCHANGED <<next, disturbed>>
    <3>1. UnderWay = {} /\ UnderWay' = {Current}
      BY <2>1, <2>2 DEF UnderWay, Current, Listed
    <3>2. ASSUME Isolated(site, mode) PROVE store'[<<token', Clean>>] = NoEntry
      <4>1. <<token', Clean>> \in Keys /\ token' > token
        BY <2>2 DEF IInv, TypeOK, Keys, Tokens
      <4>. QED
        BY <2>1, <3>2, <4>1 DEF IInv, Isolation, FutureUntouched
    <3>. QED
      BY <2>1, <2>2, <3>1, <3>2 DEF NoneMissed, Vulnerable, target
  <2>3. CASE disturbed' = TRUE
    BY <2>3 DEF NoneMissed
  <2>. QED
    BY <2>1, <2>2, <2>3
<1>4. CASE PoisonRequest
  <2>1. /\ pc = "poison" /\ Reaches(Poison) /\ UNCHANGED <<target, axis, token, findings, tried, disturbed>>
        /\ \/ Reply(Poison) # Clean /\ pc' = "confirm" /\ UNCHANGED next
           \/ Reply(Poison) = Clean /\ pc' = "pick"
    BY <1>4 DEF PoisonRequest, NextCandidate
  <2>. SUFFICES ASSUME Isolated(site, mode), ~disturbed
                PROVE  /\ \A input \in tried \ UnderWay' : Vulnerable(input) => input \in findings
                       /\ pc' = "confirm" /\ Vulnerable(Current) => store'[<<token, Clean>>] = Current
    BY <2>1 DEF NoneMissed, Vulnerable, target, Current, Listed
  <2>2. Vulnerable(Current) => Reply(Poison) = Current /\ store'[<<token, Clean>>] = Current
    BY <2>1, VulnerablePoisons DEF NoneMissed, IInv, Basics
  <2>3. Current # Clean
    BY <2>1, CurrentInput, MiningAssumption DEF IInv, AttemptSound
  <2>4. CASE pc' = "confirm" /\ UNCHANGED next
    <3>1. UnderWay' = UnderWay
      BY <2>1, <2>4 DEF UnderWay, Current, Listed
    <3>. QED
      BY <2>2, <3>1 DEF NoneMissed
  <2>5. CASE Reply(Poison) = Clean /\ pc' = "pick"
    <3>1. UnderWay = {Current} /\ ~Vulnerable(Current)
      BY <2>1, <2>2, <2>3, <2>5 DEF UnderWay
    <3>. QED
      BY <2>5, <3>1 DEF NoneMissed
  <2>. QED
    BY <2>1, <2>4, <2>5
<1>5. CASE ConfirmRequest
  <2>1. /\ pc = "confirm" /\ UNCHANGED <<target, tried, disturbed>> /\ pc' = "pick"
        /\ \/ Reply(Confirm) # Clean /\ findings' = findings \cup {Current}
           \/ Reply(Confirm) = Clean /\ findings' = findings
    BY <1>5 DEF ConfirmRequest, NextCandidate
  <2>. SUFFICES ASSUME Isolated(site, mode), ~disturbed, NEW input \in tried, Vulnerable(input)
                PROVE  input \in findings'
    BY <2>1 DEF NoneMissed, Vulnerable, target
  <2>2. CASE input # Current
    BY <2>1, <2>2 DEF NoneMissed, UnderWay
  <2>3. CASE input = Current
    <3>1. store[<<token, Clean>>] = Current /\ Current # Clean /\ Current # NoEntry
      BY <2>1, <2>3, CurrentInput, MiningAssumption DEF NoneMissed, IInv, AttemptSound
    <3>2. KeyOf(site, mode, Confirm) = <<token, Clean>>
      BY IsolatedKey DEF Confirm
    <3>3. Reply(Confirm) # Clean
      BY <3>1, <3>2 DEF Reply, Answer
    <3>. QED
      BY <2>1, <2>3, <3>3
  <2>. QED
    BY <2>2, <2>3
<1>6. CASE Visit
  <2>. DEFINE k == KeyOf(site, mode, [token |-> Canonical, input |-> Clean])
              o == Produced(site, [token |-> Canonical, input |-> Clean])
  <2>1. /\ UNCHANGED <<target, axis, next, pc, token, findings, tried, disturbed>>
        /\ store' = Filled(store, k, o, site.stores)
    BY <1>6 DEF Visit
  <2>2. UnderWay' = UnderWay /\ Current' = Current
    BY <2>1 DEF UnderWay, Current, Listed
  <2>3. ASSUME pc \in {"poison", "confirm"}, Isolated(site, mode)
        PROVE  store'[<<token, Clean>>] = store[<<token, Clean>>]
    <3>1. <<token, Clean>> \in Keys /\ token > Canonical /\ Canonical \in Tokens /\ token \in Nat
      BY <2>3, MiningAssumption DEF Keys, IInv, TypeOK, AttemptSound, Tokens, Canonical
    <3>2. k = <<Canonical, Clean>>
      BY <2>3, IsolatedKey
    <3>3. <<token, Clean>> # k
      BY <3>1, <3>2 DEF Canonical
    <3>. QED
      BY <2>1, <3>1, <3>3, RequestStores DEF IInv
  <2>. QED
    BY <2>1, <2>2, <2>3 DEF NoneMissed, Vulnerable, target
<1>7. CASE UNCHANGED vars
  <2>1. NoneMissed' = NoneMissed
    BY <1>7 DEF vars, NoneMissed, UnderWay, Current, Listed, Vulnerable
  <2>. QED
    BY <2>1
<1>. QED
  BY <1>1, <1>2, <1>3, <1>4, <1>5, <1>6, <1>7 DEF Next, Miner

LEMMA ExtraInvariance == Spec => []Extras
<1>1. IInv /\ IInv' /\ Extras /\ [Next]_vars => Extras'
  BY StepCoverage, StepMissed DEF IInv, Basics, Extras
<1>. QED
  BY <1>1, InitExtras, Invariance, PTL DEF Spec

\* While nothing fails, the miner finds every vulnerable input it paid for and
\* leaves one untried only for want of budget, whatever the wordlists.
THEOREM NothingIsMissed == Spec => []MissesNothing
<1>1. IInv /\ Extras => MissesNothing
  <2>. SUFFICES ASSUME IInv, Extras, ~disturbed, pc = "done", Isolated(site, mode)
                PROVE  /\ \A input \in tried : Vulnerable(input) => input \in findings
                       /\ \/ tried = Worklist
                          \/ Cardinality(tried) = MaxAggressiveRequests \div 2
    BY DEF MissesNothing
  <2>1. UnderWay = {}
    BY DEF UnderWay
  <2>2. \A input \in tried : Vulnerable(input) => input \in findings
    BY <2>1 DEF Extras, NoneMissed
  <2>3. CASE budget < 2
    <3>1. Cardinality(tried) \in Nat /\ 2 * Cardinality(tried) + budget = MaxAggressiveRequests
      BY FS_CardinalityType DEF Extras, Coverage
    <3>2. \A c, b, m \in Nat : 2 * c + b = m /\ b < 2 => c = m \div 2
      OBVIOUS
    <3>3. budget \in Nat /\ MaxAggressiveRequests \in Nat
      BY MiningAssumption DEF IInv, TypeOK
    <3>4. Cardinality(tried) = MaxAggressiveRequests \div 2
      BY <2>3, <3>1, <3>2, <3>3
    <3>. QED
      BY <2>2, <3>4
  <2>4. CASE axis = 3 /\ next > Len(Listed)
    <3>1. ASSUME NEW input PROVE Covered(input) <=> input \in Worklist
      <4>1. \A a \in 1 .. 3 : Axes[a] \in AxisNames /\ Len(List(a)) \in Nat
        BY Lists
      <4>2. \A i \in 1 .. Len(List(3)) : i < next
        BY <2>4, <4>1, Lists DEF IInv, TypeOK
      <4>3. Covered(input) <=> \E a \in 1 .. 3 : \E i \in 1 .. Len(List(a)) : input = <<Axes[a], List(a)[i]>>
        BY <2>4, <4>2 DEF Covered
      <4>4. input \in Worklist <=> \E name \in AxisNames : \E i \in 1 .. Len(Wordlist[name] \o Extra) :
                                       input = <<name, (Wordlist[name] \o Extra)[i]>>
        BY SMTT(20) DEF Worklist
      <4>5. ASSUME NEW a \in 1 .. 3, NEW i \in 1 .. Len(List(a)), input = <<Axes[a], List(a)[i]>>
            PROVE  input \in Worklist
        BY <4>1, <4>4, <4>5 DEF List
      <4>6. ASSUME NEW name \in AxisNames, NEW i \in 1 .. Len(Wordlist[name] \o Extra),
                   input = <<name, (Wordlist[name] \o Extra)[i]>>
            PROVE  Covered(input)
        <5>1. PICK a \in 1 .. 3 : name = Axes[a]
          BY Lists
        <5>. QED
          BY <4>3, <4>6, <5>1 DEF List
      <4>. QED
        BY <4>3, <4>4, <4>5, <4>6
    <3>2. Worklist \subseteq Inputs
      <4>1. \A name \in AxisNames : \A i \in 1 .. Len(Wordlist[name] \o Extra) :
                (Wordlist[name] \o Extra)[i] \in Names
        <5>1. \A s, t \in Seq(Names) : s \o t \in Seq(Names)
          OBVIOUS
        <5>2. \A s \in Seq(Names) : \A i \in 1 .. Len(s) : s[i] \in Names
          OBVIOUS
        <5>. QED
          BY <5>1, <5>2, MiningAssumption
      <4>. QED
        BY <4>1 DEF Worklist, Inputs
    <3>3. tried = Worklist
      BY <3>1, <3>2 DEF IInv, TypeOK, Extras, Coverage
    <3>. QED
      BY <2>2, <3>3
  <2>. QED
    BY <2>3, <2>4 DEF Extras, Coverage
<1>. QED
  BY <1>1, Invariance, ExtraInvariance, PTL

-----------------------------------------------------------------------------
(* The steps of the abstract check *)

Settled == tried \ UnderWay

\* The site's part of the mapping stays as it is.
LEMMA MappedTarget ==
    ASSUME UNCHANGED target
    PROVE  /\ {input \in Inputs : Vulnerable(input)}' = {input \in Inputs : Vulnerable(input)}
           /\ (IF Isolated(site, mode) THEN Inputs ELSE {})' = (IF Isolated(site, mode) THEN Inputs ELSE {})
           /\ Isolated(site, mode)' = Isolated(site, mode)
BY DEF target, Vulnerable

\* The verdicts are on the inputs that are settled.
LEMMA SettledVerdicts ==
    ASSUME NEW input
    PROVE  VerdictOn(input) = IF input \in findings THEN "vulnerable"
                              ELSE IF input \in Settled THEN "clean" ELSE "untested"
BY DEF VerdictOn, Settled

LEMMA SettledVerdictsNext ==
    ASSUME NEW CONSTANT input
    PROVE  VerdictOn(input)' = IF input \in findings' THEN "vulnerable"
                               ELSE IF input \in Settled' THEN "clean" ELSE "untested"
BY DEF VerdictOn, Settled

\* The entry real users are served is one the promise allows.
LEMMA PlainAllowed == IInv => PlainEntry \in Promise!Plains
<1>. SUFFICES ASSUME IInv PROVE PlainEntry \in Promise!Plains
  OBVIOUS
<1>1. PlainEntry \in {"absent", "clean", "poisoned"}
  BY DEF PlainEntry
<1>2. ASSUME Isolated(site, mode) PROVE PlainEntry # "poisoned"
  <2>1. \A input \in Inputs \cup {Clean} : <<Canonical, input>> \in Keys
    BY MiningAssumption DEF Keys, Tokens, Canonical
  <2>2. \A input \in Inputs \cup {Clean} : store[<<Canonical, input>>] \notin Inputs
    BY <1>2, <2>1, MiningAssumption DEF IInv, Isolation, CanonicalSafe
  <2>. QED
    BY <2>2 DEF PlainEntry
<1>. QED
  BY <1>1, <1>2 DEF Promise!Plains

LEMMA PlainAllowedNext == (IInv => PlainEntry \in Promise!Plains)'
BY PlainAllowed, PTL

\* Where the promise lets the plain entry be, it stays.
LEMMA MappedPlains ==
    ASSUME UNCHANGED target
    PROVE  (Promise!Plains)' = Promise!Plains
BY MappedTarget DEF Promise!Plains

\* A step that judges no input serves the plain entry, or nothing.
LEMMA JudgesNothing ==
    ASSUME IInv', UNCHANGED <<target, findings>>, Settled' = Settled, (pc' = "done") = (pc = "done")
    PROVE  Promise!Serve
<1>1. [input \in Inputs |-> VerdictOn(input)]' = [input \in Inputs |-> VerdictOn(input)]
  BY SettledVerdicts, SettledVerdictsNext
<1>. QED
  BY <1>1, PlainAllowedNext, MappedPlains, MappedTarget DEF Promise!Serve

\* A step that settles one more input judges it, on the allowance.
LEMMA JudgesOne ==
    ASSUME IInv, IInv', Coverage, UNCHANGED target, pc # "done",
           NEW own \in Inputs, own \notin Settled, Settled' = Settled \cup {own},
           findings' \in {findings, findings \cup {own}},
           2 * (Cardinality(Settled) + 1) <= MaxAggressiveRequests,
           Isolated(site, mode) => PlainEntry' = PlainEntry
    PROVE  Promise!Check
<1>. DEFINE verdicts == [input \in Inputs |-> VerdictOn(input)]
<1>1. findings \subseteq Settled /\ own \notin findings
  BY DEF Coverage, Settled
<1>2. verdicts[own] = "untested"
  BY <1>1, SettledVerdicts
<1>3. Promise!Judged = Settled
  <2>1. Settled \subseteq Inputs
    BY DEF Settled, IInv, TypeOK
  <2>. QED
    BY <1>1, <2>1, SettledVerdicts DEF Promise!Judged
<1>4. Promise!Cardinality(Promise!Judged) < MaxAggressiveRequests \div 2
  <2>1. Cardinality(Settled) \in Nat
    <3>1. IsFiniteSet(Settled)
      BY FS_Subset DEF Settled, Coverage
    <3>. QED
      BY <3>1, FS_CardinalityType
  <2>2. \A c, m \in Nat : 2 * (c + 1) <= m => c < m \div 2
    OBVIOUS
  <2>3. Cardinality(Settled) < MaxAggressiveRequests \div 2
    BY <2>1, <2>2, MiningAssumption
  <2>. QED
    BY <1>3, <2>3 DEF Promise!Cardinality, Cardinality
<1>5. ASSUME NEW input \in Inputs, input # own PROVE VerdictOn(input)' = VerdictOn(input)
  BY <1>5, SettledVerdicts, SettledVerdictsNext
<1>6. VerdictOn(own)' \in Promise!Verdicts(own)
  <2>1. CASE own \in findings'
    <3>1. VerdictOn(own)' = "vulnerable"
      BY <2>1, SettledVerdictsNext
    <3>2. Isolated(site, mode) => Vulnerable(own)
      BY <2>1 DEF IInv, Isolation, Vulnerable, target
    <3>. QED
      BY <3>1, <3>2 DEF Promise!Verdicts
  <2>2. CASE own \notin findings'
    <3>1. VerdictOn(own)' = "clean"
      BY <2>2, SettledVerdictsNext
    <3>. QED
      BY <3>1 DEF Promise!Verdicts
  <2>. QED
    BY <2>1, <2>2
<1>7. verdicts' = [verdicts EXCEPT ![own] = VerdictOn(own)']
  BY <1>5
<1>8. PlainEntry' \in IF Isolated(site, mode) THEN {PlainEntry} ELSE Promise!Plains
  BY PlainAllowedNext, MappedPlains
<1>9. Promise!Judge(own)
  BY <1>2, <1>4, <1>6, <1>7, <1>8, MappedTarget DEF Promise!Judge
<1>. QED
  BY <1>9 DEF Promise!Check

\* Where the cache keys the buster, the requests of an attempt leave the plain
\* entry as it is.
LEMMA AttemptKeepsPlain ==
    ASSUME Basics, pc \in {"poison", "confirm"}, Isolated(site, mode),
           NEW i \in {Current, Clean}, Reaches([token |-> token, input |-> i]), UNCHANGED target
    PROVE  PlainEntry' = PlainEntry
<1>1. /\ i \in Inputs \cup {Clean} /\ token \in Tokens /\ token # Canonical
  BY CurrentInput DEF Basics, AttemptSound, TypeOK, Tokens, Canonical
<1>2. \A key \in Keys : key[1] = Canonical => store'[key] = store[key]
  BY <1>1, IsolatedKey, RequestStores DEF Reaches, Basics
<1>3. \A input \in Inputs \cup {Clean} : <<Canonical, input>> \in Keys
  BY MiningAssumption DEF Keys, Tokens, Canonical
<1>4. \A input \in Inputs \cup {Clean} : store'[<<Canonical, input>>] = store[<<Canonical, input>>]
  BY <1>2, <1>3
<1>. QED
  BY <1>4 DEF PlainEntry

\* An attempt that ends settles its input, which it was paid for.
LEMMA AttemptSettles ==
    ASSUME Basics, Coverage, pc \in {"poison", "confirm"}, UNCHANGED tried, pc' = "pick"
    PROVE  /\ Current \in Inputs /\ Current \notin Settled /\ Settled' = Settled \cup {Current}
           /\ 2 * (Cardinality(Settled) + 1) <= MaxAggressiveRequests
<1>1. UnderWay = {Current} /\ UnderWay' = {} /\ Current \in tried
  BY CurrentTried DEF UnderWay
<1>2. Current \notin Settled /\ Settled' = Settled \cup {Current} /\ tried = Settled \cup {Current}
  BY <1>1 DEF Settled
<1>3. IsFiniteSet(Settled) /\ Cardinality(tried) = Cardinality(Settled) + 1
  <2>1. IsFiniteSet(Settled)
    BY FS_Subset DEF Settled, Coverage
  <2>. QED
    BY <1>2, <2>1, FS_AddElement
<1>4. 2 * (Cardinality(Settled) + 1) <= MaxAggressiveRequests
  BY <1>3, FS_CardinalityType, MiningAssumption DEF Coverage, Basics, TypeOK
<1>. QED
  BY <1>1, <1>2, <1>4 DEF Basics, TypeOK

LEMMA InitPromise == Init => Promise!Init
<1>. SUFFICES ASSUME Init PROVE Promise!Init
  OBVIOUS
<1>1. /\ tried = {} /\ findings = {} /\ pc = "pick" /\ store = [key \in Keys |-> NoEntry]
  BY DEF Init
<1>2. [input \in Inputs |-> VerdictOn(input)] = [input \in Inputs |-> "untested"]
  BY <1>1 DEF VerdictOn
<1>3. PlainEntry = "absent"
  <2>1. \A input \in Inputs \cup {Clean} : store[<<Canonical, input>>] = NoEntry
    BY <1>1, MiningAssumption DEF Keys, Tokens, Canonical
  <2>. QED
    BY <2>1, MiningAssumption DEF PlainEntry
<1>4. Isolated(site, mode) \in BOOLEAN
  BY DEF Isolated
<1>. QED
  BY <1>1, <1>2, <1>3, <1>4 DEF Promise!Init

LEMMA StepPromise ==
    IInv /\ IInv' /\ Extras /\ [Next]_vars => [Promise!Next]_(Promise!vars)
<1>. SUFFICES ASSUME IInv, IInv', Extras, [Next]_vars PROVE [Promise!Next]_(Promise!vars)
  OBVIOUS
<1>a. Basics /\ Coverage
  BY DEF IInv, Basics, Extras
<1>1. CASE UNCHANGED <<target, store, findings, tried>> /\ pc = "pick" /\ pc' = "done"
  <2>1. Settled' = Settled
    BY <1>1 DEF Settled, UnderWay
  <2>2. [input \in Inputs |-> VerdictOn(input)]' = [input \in Inputs |-> VerdictOn(input)]
    BY <1>1, <2>1, SettledVerdicts, SettledVerdictsNext
  <2>3. Promise!Stop
    BY <1>1, <2>2, MappedTarget DEF Promise!Stop, PlainEntry
  <2>. QED
    BY <2>3 DEF Promise!Next, Promise!Check
<1>2. CASE UNCHANGED <<target, findings, tried>> /\ pc = "pick" /\ pc' = "pick"
  <2>1. Settled' = Settled
    BY <1>2 DEF Settled, UnderWay
  <2>. QED
    BY <1>2, <2>1, JudgesNothing DEF Promise!Next
<1>3. CASE Attempt
  <2>1. /\ pc = "pick" /\ UNCHANGED <<target, axis, store, findings>> /\ budget >= 2 /\ tried' = tried \cup {Current}
        /\ \/ pc' = "poison" /\ UNCHANGED next
           \/ pc' = "pick"
    BY <1>3 DEF Attempt, Affords
  <2>2. Current \in Inputs /\ Current \notin tried
    BY <1>a, <1>3, CurrentUntried
  <2>3. Settled = tried
    BY <2>1 DEF Settled, UnderWay
  <2>4. CASE pc' = "poison" /\ UNCHANGED next
    <3>1. UnderWay' = {Current}
      BY <2>1, <2>4 DEF UnderWay, Current, Listed
    <3>2. Settled' = Settled
      BY <2>1, <2>2, <2>3, <3>1 DEF Settled
    <3>. QED
      BY <2>1, <2>4, <3>2, JudgesNothing DEF Promise!Next
  <2>5. CASE pc' = "pick"
    <3>1. Settled' = Settled \cup {Current}
      BY <2>1, <2>3, <2>5 DEF Settled, UnderWay
    <3>2. 2 * (Cardinality(Settled) + 1) <= MaxAggressiveRequests
      BY <1>a, <2>1, <2>3, FS_CardinalityType, MiningAssumption DEF Coverage, Basics, TypeOK
    <3>. QED
      BY <1>a, <2>1, <2>2, <2>3, <3>1, <3>2, JudgesOne DEF Promise!Next, PlainEntry
  <2>. QED
    BY <2>1, <2>4, <2>5
<1>4. CASE RequestFails
  <2>1. /\ pc \in {"poison", "confirm"} /\ UNCHANGED <<target, axis, findings, tried>>
        /\ \/ pc' = pc /\ UNCHANGED next
           \/ pc' = "pick"
    BY <1>4 DEF RequestFails, NextCandidate
  <2>2. CASE pc' = pc /\ UNCHANGED next
    <3>1. Settled' = Settled
      BY <2>1, <2>2 DEF Settled, UnderWay, Current, Listed
    <3>. QED
      BY <2>1, <2>2, <3>1, JudgesNothing DEF Promise!Next
  <2>3. CASE pc' = "pick"
    <3>1. Isolated(site, mode) => PlainEntry' = PlainEntry
      <4>1. CASE UNCHANGED store
        BY <4>1 DEF PlainEntry
      <4>2. CASE Reaches(Request)
        BY <1>a, <2>1, <4>2, AttemptKeepsPlain DEF Request, Poison, Confirm
      <4>. QED
        BY <1>4, <4>1, <4>2 DEF RequestFails
    <3>. QED
      BY <1>a, <2>1, <2>3, <3>1, AttemptSettles, JudgesOne DEF Promise!Next
  <2>. QED
    BY <2>1, <2>2, <2>3
<1>5. CASE PoisonRequest
  <2>1. /\ pc = "poison" /\ UNCHANGED <<target, axis, findings, tried>> /\ Reaches(Poison)
        /\ \/ pc' = "confirm" /\ UNCHANGED next
           \/ pc' = "pick"
    BY <1>5 DEF PoisonRequest, NextCandidate
  <2>2. CASE pc' = "confirm" /\ UNCHANGED next
    <3>1. Settled' = Settled
      BY <2>1, <2>2 DEF Settled, UnderWay, Current, Listed
    <3>. QED
      BY <2>1, <2>2, <3>1, JudgesNothing DEF Promise!Next
  <2>3. CASE pc' = "pick"
    <3>1. Isolated(site, mode) => PlainEntry' = PlainEntry
      BY <1>a, <2>1, AttemptKeepsPlain DEF Poison
    <3>. QED
      BY <1>a, <2>1, <2>3, <3>1, AttemptSettles, JudgesOne DEF Promise!Next
  <2>. QED
    BY <2>1, <2>2, <2>3
<1>6. CASE ConfirmRequest
  <2>1. /\ pc = "confirm" /\ pc' = "pick" /\ UNCHANGED <<target, axis, tried>> /\ Reaches(Confirm)
        /\ findings' \in {findings, findings \cup {Current}}
    BY <1>6 DEF ConfirmRequest, NextCandidate
  <2>2. Isolated(site, mode) => PlainEntry' = PlainEntry
    BY <1>a, <2>1, AttemptKeepsPlain DEF Confirm
  <2>. QED
    BY <1>a, <2>1, <2>2, AttemptSettles, JudgesOne DEF Promise!Next
<1>7. CASE UNCHANGED <<target, axis, next, pc, findings, tried>>
  <2>1. Settled' = Settled
    BY <1>7 DEF Settled, UnderWay, Current, Listed
  <2>. QED
    BY <1>7, <2>1, JudgesNothing DEF Promise!Next
<1>8. OutOfBudget \/ NextAxis \/ SkipRepeated =>
          UNCHANGED <<target, store, findings, tried>> /\ pc = "pick" /\ pc' \in {"pick", "done"}
  BY DEF OutOfBudget, NextAxis, SkipRepeated
<1>9. Visit \/ Expire \/ UNCHANGED vars => UNCHANGED <<target, axis, next, pc, findings, tried>>
  BY DEF Visit, Expire, vars, target
<1>. QED
  BY <1>1, <1>2, <1>3, <1>4, <1>5, <1>6, <1>7, <1>8, <1>9 DEF Next, Miner

\* Step by step the miner is a poison/confirm check: it starts as one, and
\* everything it does is a step of one or changes nothing a reader of the
\* promise can see.
THEOREM KeepsPromiseStepwise == Spec => Promise!Init /\ [][Promise!Next]_(Promise!vars)
BY InitPromise, StepPromise, Invariance, ExtraInvariance, PTL DEF Spec
=============================================================================
