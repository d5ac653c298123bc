---------------------------- MODULE CPDoSProofs ----------------------------
(***************************************************************************)
(* What the CPDoS check guarantees for every budget, site, buster mode and *)
(* pattern of failures: types, that a header finding is genuine where the  *)
(* cache keys the buster, that none is the residue of an earlier variant   *)
(* while nothing fails, and that the first vulnerable variant is found.    *)
(***************************************************************************)
EXTENDS CPDoS, FiniteSetTheorems, TLAPS

(* The inductive invariant *)

UnderWay == pc \in {"poison", "confirm"}

\* Each token is a probe's, and each probe done with or under way was paid for.
Progress ==
    /\ token <= probe
    /\ pc = "pick" => token < probe
    /\ UnderWay => probe <= Len(Probes) /\ token > Canonical
    /\ 2 * (probe - 1) + budget + (IF UnderWay THEN 2 ELSE 0) <= MaxAggressiveRequests
    /\ findings # {} => pc = "done" /\ findings = {Probes[probe]} /\ probe <= Len(Probes)
    /\ pc = "done" => findings # {} \/ probe > Len(Probes) \/ budget < 2
    /\ pc = "confirm" => poisoned # Clean

Basics == TypeOK /\ Progress

\* In front of a cache that keys the buster: entries under tokens not used yet
\* are absent, and the canonical ones show no variant.
FutureUntouched == \A key \in Keys : key[1] > token => store[key] = NoEntry
CanonicalSafe == \A key \in Keys : key[1] = Canonical => store[key] \notin Variants
Apart == Isolated(site, mode) => FutureUntouched /\ CanonicalSafe

\* The key of a request of the current probe that does not carry its variant.
Own == << IF Isolated(site, mode) THEN token ELSE Canonical, Clean >>
Carried == Probes[probe]

\* What such a request may be served: the variant's error only if a plain
\* request would get it as well.
EntrySound ==
    /\ store[Own] \in {Carried, Clean, NoEntry}
    /\ store[Own] = Carried => Vulnerable(Carried)

Genuine ==
    ~broken /\ (Isolated(site, mode) \/ ~disturbed) =>
        /\ UnderWay => EntrySound
        /\ \A variant \in findings \ {"HMC"} : Vulnerable(variant)

\* While nothing fails, a probe finds the entry free of its predecessors, and
\* the error it leaves there is the one its poison request got.
NothingLeftBehind ==
    ~broken /\ ~disturbed =>
        /\ pc \in {"pick", "poison"} /\ probe <= Len(Probes) => store[Own] \in {Clean, NoEntry}
        /\ pc = "confirm" /\ store[Own] = Carried => poisoned = Carried

\* While nothing fails and the cache keys the buster, the probes done with
\* were of variants the site is not vulnerable to, and the one under way has
\* poisoned its entry if the site is vulnerable to it.
NonePassedOver ==
    Isolated(site, mode) /\ ~broken /\ ~disturbed =>
        /\ \A n \in 1 .. 2 : n < probe => ~Vulnerable(Probes[n])
        /\ pc = "poison" => store[Own] = NoEntry
        /\ pc = "confirm" /\ Vulnerable(Carried) => store[Own] = Carried /\ poisoned = Carried

IInv == Basics /\ Apart /\ Genuine /\ NothingLeftBehind /\ NonePassedOver

-----------------------------------------------------------------------------
(* Probes and requests *)

LEMMA ProbeNames ==
    /\ Len(Probes) = 3
    /\ Probes[1] = "HHO" /\ Probes[2] = "HMO" /\ Probes[3] = "HMC"
    /\ \A n \in 1 .. 3 : Probes[n] \in Variants
    /\ \A m, n \in 1 .. 3 : Probes[m] = Probes[n] => m = n
<1>1. Len(Probes) = 3 /\ Probes[1] = "HHO" /\ Probes[2] = "HMO" /\ Probes[3] = "HMC"
  BY DEF Probes
<1>2. \A n \in 1 .. 3 : n = 1 \/ n = 2 \/ n = 3
  OBVIOUS
<1>. QED
  BY <1>1, <1>2 DEF Variants

\* A request has one of the cache's keys, leaves a well-typed store, and
\* changes the entry under its key only, to what the origin answers.
LEMMA RequestStores ==
    ASSUME TypeOK, NEW t \in Tokens, NEW i \in Variants \cup {Clean},
           NEW k, k = KeyOf(site, mode, [token |-> t, input |-> i]),
           NEW o, o = Origin([token |-> t, input |-> i]),
           NEW s, s = Filled(store, k, o, site.stores)
    PROVE  /\ k \in Keys
           /\ s \in [Keys -> Variants \cup {Clean, Broken, NoEntry}]
           /\ o \in {i, Clean, Broken}
           /\ ~broken => o \in {i, Clean} /\ (o # Clean => i \in site.reads)
           /\ ~broken /\ i \in site.reads => o = i
           /\ s[k] = IF store[k] = NoEntry /\ site.stores THEN o ELSE store[k]
           /\ \A key \in Keys : s[key] # store[key] => /\ key = k
                                                       /\ store[k] = NoEntry
                                                       /\ site.stores
<1>1. k \in Keys
  <2>1. Canonical \in Tokens
    BY ProbeNames DEF Canonical, Tokens
  <2>. QED
    BY <2>1 DEF KeyOf, Keys
<1>2. /\ o \in {i, Clean, Broken}
      /\ ~broken => o \in {i, Clean} /\ (o # Clean => i \in site.reads)
      /\ ~broken /\ i \in site.reads => o = i
  BY DEF Origin, Produced
<1>3. s = store \/ (s = [store EXCEPT ![k] = o] /\ store[k] = NoEntry /\ site.stores)
  BY DEF Filled
<1>4. store \in [Keys -> Variants \cup {Clean, Broken, NoEntry}]
  BY DEF TypeOK
<1>5. CASE s = store /\ ~(store[k] = NoEntry /\ site.stores)
  BY <1>1, <1>2, <1>4, <1>5
<1>6. CASE s = [store EXCEPT ![k] = o] /\ store[k] = NoEntry /\ site.stores
  <2>1. s \in [Keys -> Variants \cup {Clean, Broken, NoEntry}]
    BY <1>1, <1>2, <1>4, <1>6
  <2>2. \A key \in Keys : s[key] = IF key = k THEN o ELSE store[key]
    BY <1>1, <1>4, <1>6
  <2>. QED
    BY <1>1, <1>2, <1>6, <2>1, <2>2
<1>. QED
  BY <1>3, <1>5, <1>6 DEF Filled

\* A request of the current probe shares the probe's own key unless its input
\* is in the key.
LEMMA ProbeKey ==
    ASSUME NEW i
    PROVE  LET k == KeyOf(site, mode, [token |-> token, input |-> i])
           IN  /\ k[1] = Own[1]
               /\ i = Clean \/ i \notin site.keys => k = Own
               /\ i # Clean /\ i \in site.keys => k # Own
BY DEF KeyOf, Own

\* The current variant is one of the three, and a request of the probe carries
\* it or nothing.
LEMMA ProbeCarries ==
    ASSUME TypeOK, probe <= Len(Probes)
    PROVE  /\ Carried \in Variants
           /\ Poison = [token |-> token, input |-> Carried]
           /\ \E i \in {Carried, Clean} : Confirm = [token |-> token, input |-> i]
           /\ probe <= 2 => Carried # "HMC" /\ Confirm = [token |-> token, input |-> Clean]
           /\ Carried # "HMC" => Confirm = [token |-> token, input |-> Clean]
<1>1. probe \in 1 .. 3
  BY ProbeNames DEF TypeOK
<1>2. Carried \in Variants /\ (probe <= 2 => Carried # "HMC")
  BY <1>1, ProbeNames DEF Carried
<1>. QED
  BY <1>2 DEF Poison, Confirm, ConfirmInput, Carried

-----------------------------------------------------------------------------
(* Types and progress *)

LEMMA InitBasics == Init => Basics
<1>. SUFFICES ASSUME Init PROVE Basics
  OBVIOUS
<1>1. broken \in BOOLEAN /\ hasQuery \in BOOLEAN /\ disturbed \in BOOLEAN
  BY Zenon DEF Init
<1>2. store \in [Keys -> Variants \cup {Clean, Broken, NoEntry}]
  BY DEF Init
<1>3. TypeOK
  BY <1>1, <1>2, ProbeNames, CPDoSAssumption DEF Init, TypeOK, Tokens, Canonical
<1>. QED
  BY <1>3, ProbeNames, CPDoSAssumption DEF Init, Basics, Progress, UnderWay, Canonical

\* What a request of the probe under way leaves is a well-typed store.
LEMMA ProbeStores ==
    ASSUME Basics, UnderWay, NEW request \in {Poison, Confirm}, Reaches(request)
    PROVE  store' \in [Keys -> Variants \cup {Clean, Broken, NoEntry}]
<1>1. probe <= Len(Probes) /\ token \in Tokens
  BY DEF Basics, Progress, TypeOK
<1>2. \E i \in Variants \cup {Clean} : request = [token |-> token, input |-> i]
  BY <1>1, ProbeCarries DEF Basics
<1>. QED
  BY <1>1, <1>2, RequestStores DEF Reaches, Basics

\* It is answered a variant's error, the broken resource's, or a clean response.
LEMMA ProbeReply ==
    ASSUME Basics, UnderWay, NEW request \in {Poison, Confirm}
    PROVE  Reply(request) \in Variants \cup {Clean, Broken}
<1>1. probe <= Len(Probes) /\ token \in Tokens
  BY DEF Basics, Progress, TypeOK
<1>2. PICK i \in Variants \cup {Clean} : request = [token |-> token, input |-> i]
  BY <1>1, ProbeCarries DEF Basics
<1>3. KeyOf(site, mode, request) \in Keys /\ Origin(request) \in {i, Clean, Broken}
  BY <1>1, <1>2, RequestStores DEF Basics
<1>. QED
  BY <1>2, <1>3 DEF Reply, Answer, Basics, TypeOK

LEMMA StepBasics == Basics /\ [Next]_vars => Basics'
<1>. SUFFICES ASSUME Basics, [Next]_vars PROVE Basics'
  OBVIOUS
<1>a. /\ MaxAggressiveRequests \in Nat /\ MaxRetries \in Nat
      /\ Len(Probes) = 3 /\ \A n \in 1 .. 3 : Probes[n] \in Variants
  BY CPDoSAssumption, ProbeNames
<1>1. CASE Stop
  BY <1>1, <1>a DEF Stop, target, Basics, TypeOK, Progress, UnderWay
<1>2. CASE StartProbe
  <2>1. /\ budget' = budget - 2 /\ budget >= 2 /\ pc = "pick" /\ probe <= 3
        /\ UNCHANGED <<target, store, retries, poisoned, findings>>
    BY <1>2, <1>a DEF StartProbe
  <2>2. \/ pc' = "poison" /\ token' = token + 1 /\ UNCHANGED <<probe, disturbed>>
        \/ pc' = "pick" /\ probe' = probe + 1 /\ UNCHANGED <<token, disturbed>>
        \/ pc' = "pick" /\ probe' = probe + 1 /\ disturbed' = TRUE /\ UNCHANGED token
    BY <1>2 DEF StartProbe, NextProbe
  <2>d. disturbed' \in BOOLEAN
    BY <2>2, Zenon DEF Basics, TypeOK
  <2>3. TypeOK'
    BY <2>1, <2>2, <2>d, <1>a DEF target, Basics, TypeOK, Progress, Tokens
  <2>4. Progress'
    BY <2>1, <2>2, <1>a DEF Basics, TypeOK, Progress, Tokens, UnderWay, Canonical
  <2>. QED
    BY <2>3, <2>4 DEF Basics
<1>3. CASE RequestFails
  <2>1. /\ UnderWay /\ disturbed' = TRUE
        /\ UNCHANGED <<target, budget, poisoned, token, findings>>
        /\ \/ retries < MaxRetries /\ retries' = retries + 1 /\ UNCHANGED <<pc, probe>>
           \/ pc' = "pick" /\ probe' = probe + 1 /\ retries' = 0
    BY <1>3 DEF RequestFails, Retry, NextProbe, UnderWay
  <2>2. store' \in [Keys -> Variants \cup {Clean, Broken, NoEntry}]
    <3>1. Request \in {Poison, Confirm}
      BY DEF Request
    <3>. QED
      BY <1>3, <2>1, <3>1, ProbeStores DEF RequestFails, Basics, TypeOK
  <2>3. TypeOK'
    BY <2>1, <2>2, <1>a DEF target, Basics, TypeOK, Progress
  <2>4. Progress'
    BY <2>1, <1>a DEF Basics, TypeOK, Progress, UnderWay, Tokens
  <2>. QED
    BY <2>3, <2>4 DEF Basics
<1>4. CASE PoisonRequest
  <2>1. /\ UnderWay /\ pc = "poison" /\ retries' = 0
        /\ UNCHANGED <<target, budget, token, findings, disturbed>>
        /\ \/ Reply(Poison) # Clean /\ pc' = "confirm" /\ poisoned' = Reply(Poison) /\ UNCHANGED probe
           \/ pc' = "pick" /\ probe' = probe + 1 /\ UNCHANGED poisoned
    BY <1>4 DEF PoisonRequest, NextProbe, UnderWay
  <2>2. store' \in [Keys -> Variants \cup {Clean, Broken, NoEntry}]
    BY <1>4, <2>1, ProbeStores DEF PoisonRequest
  <2>3. Reply(Poison) \in Variants \cup {Clean, Broken}
    BY <2>1, ProbeReply
  <2>4. TypeOK'
    BY <2>1, <2>2, <2>3, <1>a DEF target, Basics, TypeOK, Progress
  <2>5. Progress'
    BY <2>1, <1>a DEF Basics, TypeOK, Progress, UnderWay, Tokens
  <2>. QED
    BY <2>4, <2>5 DEF Basics
<1>5. CASE ConfirmRequest
  <2>1. /\ UnderWay /\ pc = "confirm" /\ retries' = 0
        /\ UNCHANGED <<target, budget, poisoned, token, disturbed>>
        /\ \/ findings' = findings \cup {Probes[probe]} /\ pc' = "done" /\ UNCHANGED probe
           \/ pc' = "pick" /\ probe' = probe + 1 /\ UNCHANGED findings
    BY <1>5 DEF ConfirmRequest, AfterFinding, NextProbe, UnderWay
  <2>2. store' \in [Keys -> Variants \cup {Clean, Broken, NoEntry}]
    BY <1>5, <2>1, ProbeStores DEF ConfirmRequest
  <2>3. findings = {} /\ Probes[probe] \in Variants
    BY <2>1, <1>a DEF Basics, TypeOK, Progress, UnderWay
  <2>4. TypeOK'
    BY <2>1, <2>2, <2>3, <1>a DEF target, Basics, TypeOK, Progress
  <2>5. CASE findings' = findings \cup {Probes[probe]} /\ pc' = "done" /\ UNCHANGED probe
    <3>1. findings' = {Probes[probe]}
      BY <2>3, <2>5
    <3>2. probe <= Len(Probes)
      BY <2>1 DEF Basics, Progress
    <3>. QED
      BY <2>1, <2>5, <3>1, <3>2, <2>4, <1>a DEF Basics, TypeOK, Progress, UnderWay, Tokens
  <2>6. CASE pc' = "pick" /\ probe' = probe + 1 /\ UNCHANGED findings
    <3>1. Progress'
      BY <2>1, <2>3, <2>6, <1>a DEF Basics, TypeOK, Progress, UnderWay, Tokens
    <3>. QED
      BY <2>4, <3>1 DEF Basics
  <2>. QED
    BY <2>1, <2>5, <2>6
<1>6. CASE Visit
  <2>1. store' \in [Keys -> Variants \cup {Clean, Broken, NoEntry}]
    <3>1. Canonical \in Tokens
      BY <1>a DEF Canonical, Tokens
    <3>. QED
      BY <1>6, <3>1, RequestStores DEF Visit, Basics
  <2>. QED
    BY <1>6, <2>1 DEF Visit, target, Basics, TypeOK, Progress, UnderWay
<1>7. CASE Expire
  BY <1>7 DEF Expire, target, Basics, TypeOK, Progress, UnderWay
<1>8. CASE UNCHANGED vars
  BY <1>8 DEF vars, Basics, TypeOK, Progress, UnderWay
<1>. QED
  BY <1>1, <1>2, <1>3, <1>4, <1>5, <1>6, <1>7, <1>8 DEF Next, Check

-----------------------------------------------------------------------------
(* Isolation and residues *)

Rest == Apart /\ Genuine /\ NothingLeftBehind /\ NonePassedOver

LEMMA InitRest == Init => Rest
<1>. SUFFICES ASSUME Init PROVE Rest
  OBVIOUS
<1>1. /\ store = [key \in Keys |-> NoEntry] /\ pc = "pick" /\ findings = {}
      /\ probe = 1 /\ token = Canonical
  BY DEF Init
<1>2. Own \in Keys
  BY <1>1, ProbeNames DEF Own, Keys, Tokens, Canonical
<1>3. Apart
  BY <1>1, CPDoSAssumption DEF Apart, FutureUntouched, CanonicalSafe
<1>4. Genuine /\ NothingLeftBehind /\ NonePassedOver
  BY <1>1, <1>2 DEF Genuine, NothingLeftBehind, NonePassedOver, UnderWay
<1>. QED
  BY <1>3, <1>4 DEF Rest

\* What a request of the probe under way leaves alone, and what it can leave
\* under the probe's own key.
LEMMA ProbeRequest ==
    ASSUME Basics, UnderWay, NEW i \in {Carried, Clean},
           NEW request, request = [token |-> token, input |-> i],
           Reaches(request), Apart, UNCHANGED <<target, token>>
    PROVE  /\ Apart'
           /\ store'[Own] # store[Own] =>
                  /\ KeyOf(site, mode, request) = Own
                  /\ store[Own] = NoEntry /\ store'[Own] = Origin(request)
                  /\ Reply(request) = Origin(request) /\ site.stores
           /\ store'[Own] # store[Own] /\ store'[Own] = Carried /\ ~broken => Vulnerable(Carried)
           /\ store'[Own] # store[Own] /\ ~broken => store'[Own] \in {Carried, Clean}
<1>. DEFINE k == KeyOf(site, mode, request)
            o == Origin(request)
<1>1. /\ Carried \in Variants /\ i \in Variants \cup {Clean} /\ token \in Tokens
      /\ token \in Nat /\ token > Canonical
  BY ProbeCarries DEF Basics, Progress, TypeOK, Tokens
<1>2. /\ k \in Keys
      /\ store' \in [Keys -> Variants \cup {Clean, Broken, NoEntry}]
      /\ ~broken => o \in {i, Clean} /\ (o # Clean => i \in site.reads)
      /\ store'[k] = IF store[k] = NoEntry /\ site.stores THEN o ELSE store[k]
      /\ \A key \in Keys : store'[key] # store[key] => key = k /\ store[k] = NoEntry /\ site.stores
  BY <1>1, RequestStores DEF Reaches, Basics
<1>3. /\ k[1] = Own[1]
      /\ i # Clean /\ i \in site.keys => k # Own
  BY ProbeKey
<1>4. Own \in Keys
  BY <1>1, ProbeNames DEF Own, Keys, Tokens, Canonical
<1>5. Apart'
  <2>. SUFFICES ASSUME Isolated(site, mode) PROVE (FutureUntouched /\ CanonicalSafe)'
    BY DEF Apart, target
  <2>1. k[1] = token /\ FutureUntouched /\ CanonicalSafe
    BY <1>3 DEF Own, Apart
  <2>2. \A key \in Keys : key[1] # token => store'[key] = store[key]
    BY <1>2, <2>1
  <2>3. FutureUntouched'
    BY <1>1, <2>1, <2>2 DEF FutureUntouched
  <2>4. CanonicalSafe'
    BY <1>1, <2>1, <2>2 DEF CanonicalSafe
  <2>. QED
    BY <2>3, <2>4
<1>6. ASSUME store'[Own] # store[Own]
      PROVE  /\ k = Own /\ store[Own] = NoEntry /\ store'[Own] = o /\ site.stores
             /\ Reply(request) = o
  BY <1>2, <1>4, <1>6 DEF Reply, Answer
<1>7. ASSUME store'[Own] # store[Own], store'[Own] = Carried, ~broken
      PROVE  Vulnerable(Carried)
  <2>1. k = Own /\ o = Carried /\ site.stores
    BY <1>6, <1>7
  <2>2. Carried # Clean
    BY <1>1, CPDoSAssumption
  <2>3. i = Carried /\ i \in site.reads
    BY <1>2, <1>7, <2>1, <2>2
  <2>. QED
    BY <1>3, <2>1, <2>2, <2>3 DEF Vulnerable
<1>8. ASSUME store'[Own] # store[Own], ~broken
      PROVE  store'[Own] \in {Carried, Clean}
  BY <1>2, <1>6, <1>8
<1>. QED
  BY <1>5, <1>6, <1>7, <1>8

\* Where no finding is added, the findings stay genuine.
LEMMA OldFindings ==
    ASSUME Genuine, UNCHANGED <<target, findings>>,
           disturbed' = FALSE => disturbed = FALSE, disturbed \in BOOLEAN, disturbed' \in BOOLEAN
    PROVE  (~broken /\ (Isolated(site, mode) \/ ~disturbed) =>
                \A variant \in findings \ {"HMC"} : Vulnerable(variant))'
<1>1. (Isolated(site, mode) \/ ~disturbed)' => Isolated(site, mode) \/ ~disturbed
  BY DEF target
<1>. QED
  BY <1>1 DEF Genuine, Vulnerable, target

LEMMA StartRest ==
    ASSUME Basics, Basics', Rest, StartProbe
    PROVE  Rest'
<1>1. /\ pc = "pick" /\ probe <= Len(Probes) /\ UNCHANGED <<target, store, findings>>
      /\ token \in Nat /\ probe \in 1 .. 3 /\ Len(Probes) = 3 /\ disturbed \in BOOLEAN
      /\ disturbed' \in BOOLEAN
  BY ProbeNames DEF StartProbe, Basics, TypeOK, Tokens
<1>2. \/ pc' = "poison" /\ token' = token + 1 /\ UNCHANGED <<probe, disturbed>>
      \/ pc' = "pick" /\ probe = 3 /\ probe' = probe + 1 /\ UNCHANGED <<token, disturbed>>
      \/ pc' = "pick" /\ disturbed' = TRUE /\ UNCHANGED token
  <2>1. Probes[probe] = "HMC" => probe = 3
    BY <1>1, ProbeNames
  <2>. QED
    BY <2>1 DEF StartProbe, NextProbe
<1>3. token' >= token
  BY <1>1, <1>2
<1>4. Apart'
  <2>1. \A key \in Keys : key[1] \in Nat
    BY DEF Keys, Tokens
  <2>2. token' \in Nat
    BY <1>1, <1>2
  <2>3. \A key \in Keys : key[1] > token' => key[1] > token
    BY <1>1, <1>3, <2>1, <2>2
  <2>. QED
    BY <1>1, <2>3 DEF Rest, Apart, FutureUntouched, CanonicalSafe, target
<1>5. (~broken /\ (Isolated(site, mode) \/ ~disturbed) =>
           \A variant \in findings \ {"HMC"} : Vulnerable(variant))'
  BY <1>1, <1>2, OldFindings DEF Rest
<1>6. CASE pc' = "poison" /\ token' = token + 1 /\ UNCHANGED <<probe, disturbed>>
  <2>1. ASSUME Isolated(site, mode) PROVE store'[Own'] = NoEntry
    <3>1. Own' = <<token + 1, Clean>> /\ token + 1 \in Tokens
      BY <1>1, <1>6, <2>1 DEF Own, target, Basics, TypeOK
    <3>. QED
      BY <1>1, <2>1, <3>1 DEF Rest, Apart, FutureUntouched, Keys
  <2>2. ASSUME ~Isolated(site, mode), ~broken, ~disturbed PROVE store'[Own'] \in {Clean, NoEntry}
    <3>1. Own' = Own
      BY <1>1, <2>2 DEF Own, target
    <3>. QED
      BY <1>1, <2>2, <3>1 DEF Rest, NothingLeftBehind
  <2>3. Carried' \notin {Clean, NoEntry}
    <3>1. Carried' \in Variants
      BY <1>1, <1>6, ProbeCarries DEF Basics, Carried
    <3>. QED
      BY <3>1, CPDoSAssumption
  <2>4. Genuine'
    BY <1>1, <1>5, <1>6, <2>1, <2>2, <2>3 DEF Genuine, EntrySound, target
  <2>5. NothingLeftBehind'
    BY <1>1, <1>6, <2>1, <2>2 DEF NothingLeftBehind, target
  <2>6. NonePassedOver'
    BY <1>1, <1>6, <2>1 DEF Rest, NonePassedOver, target, Vulnerable
  <2>. QED
    BY <1>4, <2>4, <2>5, <2>6 DEF Rest
<1>7. CASE pc' = "pick" /\ probe = 3 /\ probe' = probe + 1 /\ UNCHANGED <<token, disturbed>>
  <2>1. Genuine'
    BY <1>5, <1>7 DEF Genuine, UnderWay
  <2>2. NothingLeftBehind'
    BY <1>1, <1>7 DEF NothingLeftBehind
  <2>3. NonePassedOver'
    BY <1>1, <1>7 DEF Rest, NonePassedOver, target, Vulnerable
  <2>. QED
    BY <1>4, <2>1, <2>2, <2>3 DEF Rest
<1>8. CASE pc' = "pick" /\ disturbed' = TRUE /\ UNCHANGED token
  BY <1>4, <1>5, <1>8 DEF Rest, Genuine, NothingLeftBehind, NonePassedOver, UnderWay
<1>. QED
  BY <1>2, <1>6, <1>7, <1>8

LEMMA PoisonRest ==
    ASSUME Basics, Basics', Rest, PoisonRequest
    PROVE  Rest'
<1>1. /\ pc = "poison" /\ UnderWay /\ Reaches(Poison) /\ UNCHANGED <<target, token, findings, disturbed>>
      /\ \/ Reply(Poison) # Clean /\ pc' = "confirm" /\ poisoned' = Reply(Poison) /\ probe' = probe
         \/ Reply(Poison) = Clean /\ pc' = "pick" /\ probe' = probe + 1
      /\ disturbed \in BOOLEAN /\ probe \in 1 .. 3 /\ token \in Tokens
  BY ProbeNames DEF PoisonRequest, NextProbe, UnderWay, Basics, TypeOK, Progress
<1>2. /\ Carried \in Variants /\ Poison = [token |-> token, input |-> Carried]
      /\ Carried \notin {Clean, NoEntry}
  BY <1>1, ProbeCarries, CPDoSAssumption DEF Basics, Progress
<1>3. /\ Apart'
      /\ store'[Own] # store[Own] =>
             /\ KeyOf(site, mode, Poison) = Own
             /\ store[Own] = NoEntry /\ store'[Own] = Origin(Poison)
             /\ Reply(Poison) = Origin(Poison) /\ site.stores
      /\ store'[Own] # store[Own] /\ store'[Own] = Carried /\ ~broken => Vulnerable(Carried)
      /\ store'[Own] # store[Own] /\ ~broken => store'[Own] \in {Carried, Clean}
  BY <1>1, <1>2, ProbeRequest DEF Rest
<1>4. Own' = Own /\ (pc' = "confirm" => Carried' = Carried)
  BY <1>1 DEF Own, Carried, target
<1>5. Genuine'
  <2>1. (~broken /\ (Isolated(site, mode) \/ ~disturbed) =>
             \A variant \in findings \ {"HMC"} : Vulnerable(variant))'
    BY <1>1, OldFindings DEF Rest
  <2>2. ASSUME ~broken, Isolated(site, mode) \/ ~disturbed, pc' = "confirm"
        PROVE  EntrySound'
    BY <1>1, <1>3, <1>4, <2>2 DEF Rest, Genuine, EntrySound, target, Vulnerable
  <2>. QED
    BY <1>1, <2>1, <2>2 DEF Genuine, UnderWay, target
<1>6. NothingLeftBehind'
  <2>. SUFFICES ASSUME ~broken, ~disturbed
                PROVE  /\ pc' = "pick" => store'[Own] \in {Clean, NoEntry}
                       /\ pc' = "confirm" /\ store'[Own] = Carried => poisoned' = Carried
    BY <1>1, <1>4 DEF NothingLeftBehind, target
  <2>1. store[Own] \in {Clean, NoEntry}
    BY <1>1 DEF Rest, NothingLeftBehind, Basics, Progress
  <2>. QED
    BY <1>1, <1>2, <1>3, <2>1
<1>7. NonePassedOver'
  <2>. SUFFICES ASSUME Isolated(site, mode), ~broken, ~disturbed
                PROVE  /\ \A n \in 1 .. 2 : n < probe' => ~Vulnerable(Probes[n])
                       /\ pc' = "confirm" /\ Vulnerable(Carried) =>
                              store'[Own] = Carried /\ poisoned' = Carried
    BY <1>1, <1>4 DEF NonePassedOver, target, Vulnerable
  <2>1. ASSUME Vulnerable(Carried)
        PROVE  Reply(Poison) = Carried /\ store'[Own] = Carried
    <3>1. KeyOf(site, mode, Poison) = Own /\ site.stores /\ Carried \in site.reads
      BY <1>2, <2>1, ProbeKey DEF Vulnerable
    <3>2. store[Own] = NoEntry
      BY <1>1 DEF Rest, NonePassedOver
    <3>3. Origin(Poison) = Carried /\ store'[Own] = Carried
      <4>. DEFINE request == [token |-> token, input |-> Carried]
      <4>1. /\ Carried \in Variants \cup {Clean} /\ token \in Tokens /\ TypeOK
            /\ store' = Filled(store, KeyOf(site, mode, request), Origin(request), site.stores)
        BY <1>1, <1>2 DEF Reaches, Basics
      <4>2. KeyOf(site, mode, request) = Own
        BY <1>2, <3>1
      <4>3. Carried \in site.reads => Origin(request) = Carried
        BY <4>1, RequestStores
      <4>4. store'[Own] = IF store[Own] = NoEntry /\ site.stores THEN Origin(request) ELSE store[Own]
        BY <4>1, <4>2, RequestStores
      <4>. QED
        BY <1>2, <3>1, <3>2, <4>3, <4>4
    <3>. QED
      BY <3>1, <3>2, <3>3 DEF Reply, Answer
  <2>2. \A n \in 1 .. 2 : n < probe => ~Vulnerable(Probes[n])
    BY DEF Rest, NonePassedOver
  <2>3. CASE pc' = "pick" /\ Reply(Poison) = Clean /\ probe' = probe + 1
    <3>1. ~Vulnerable(Probes[probe])
      BY <1>2, <2>1, <2>3 DEF Carried
    <3>. QED
      BY <1>1, <2>2, <2>3, <3>1
  <2>4. CASE pc' = "confirm" /\ poisoned' = Reply(Poison) /\ probe' = probe
    BY <2>1, <2>2, <2>4
  <2>. QED
    BY <1>1, <2>3, <2>4
<1>. QED
  BY <1>3, <1>5, <1>6, <1>7 DEF Rest

\* The confirming request of a header variant carries nothing: it is answered
\* under the probe's own key, with a clean response unless one is stored.
LEMMA HeaderConfirm ==
    ASSUME Basics, UnderWay, Carried # "HMC", ~broken
    PROVE  /\ KeyOf(site, mode, Confirm) = Own
           /\ Origin(Confirm) = Clean
           /\ Reply(Confirm) = IF store[Own] = NoEntry THEN Clean ELSE store[Own]
<1>1. Confirm = [token |-> token, input |-> Clean]
  BY ProbeCarries DEF Basics, Progress
<1>2. KeyOf(site, mode, Confirm) = Own
  BY <1>1, ProbeKey
<1>3. Origin(Confirm) = Clean
  BY <1>1 DEF Origin, Produced
<1>. QED
  BY <1>2, <1>3 DEF Reply, Answer

LEMMA ConfirmRest ==
    ASSUME Basics, Basics', Rest, ConfirmRequest
    PROVE  Rest'
<1>1. /\ pc = "confirm" /\ UnderWay /\ Reaches(Confirm) /\ UNCHANGED <<target, token, poisoned, disturbed>>
      /\ \/ Reply(Confirm) = poisoned /\ findings' = findings \cup {Carried} /\ pc' = "done" /\ probe' = probe
         \/ Reply(Confirm) # poisoned /\ findings' = findings /\ pc' = "pick" /\ probe' = probe + 1
      /\ disturbed \in BOOLEAN /\ probe \in 1 .. 3 /\ token \in Tokens /\ poisoned # Clean
      /\ poisoned \in Variants \cup {Clean, Broken} /\ Len(Probes) = 3
  BY ProbeNames DEF ConfirmRequest, NextProbe, AfterFinding, UnderWay, Basics, TypeOK, Progress, Carried
<1>2. Carried \in Variants /\ Carried \notin {Clean, NoEntry} /\ poisoned # NoEntry
  BY <1>1, ProbeCarries, CPDoSAssumption DEF Basics, Progress
<1>3. PICK i \in {Carried, Clean} : Confirm = [token |-> token, input |-> i]
  BY ProbeCarries, <1>1 DEF Basics, Progress
<1>4. /\ Apart'
      /\ store'[Own] # store[Own] => store[Own] = NoEntry /\ store'[Own] = Origin(Confirm)
  BY <1>1, <1>3, ProbeRequest DEF Rest
<1>5. Own' = Own
  BY <1>1 DEF Own, target
<1>6. ASSUME ~broken, Isolated(site, mode) \/ ~disturbed
      PROVE  EntrySound
  BY <1>1, <1>6 DEF Rest, Genuine
<1>7. Genuine'
  <2>. SUFFICES ASSUME ~broken, Isolated(site, mode) \/ ~disturbed,
                       NEW variant \in findings' \ {"HMC"}
                PROVE  Vulnerable(variant)
    BY <1>1 DEF Genuine, UnderWay, Vulnerable, target
  <2>1. CASE variant \in findings
    BY <2>1 DEF Rest, Genuine
  <2>2. CASE variant = Carried /\ Reply(Confirm) = poisoned
    <3>1. store[Own] \notin {Clean, NoEntry}
      BY <1>1, <1>2, <2>2, HeaderConfirm
    <3>. QED
      BY <1>6, <2>2, <3>1 DEF EntrySound
  <2>. QED
    BY <1>1, <2>1, <2>2
<1>8. ASSUME ~broken, ~disturbed, probe <= 2, store[Own] = Carried, poisoned = Carried
      PROVE  Reply(Confirm) = poisoned
  <2>1. Carried # "HMC"
    BY <1>1, <1>8, ProbeCarries DEF Basics
  <2>. QED
    BY <1>1, <1>2, <1>8, <2>1, HeaderConfirm
<1>9. NothingLeftBehind'
  <2>. SUFFICES ASSUME ~broken, ~disturbed, pc' = "pick", probe' <= 3
                PROVE  store'[Own] \in {Clean, NoEntry}
    BY <1>1, <1>5 DEF NothingLeftBehind, target
  <2>1. Reply(Confirm) # poisoned /\ probe <= 2
    BY <1>1
  <2>2. Carried # "HMC"
    BY <1>1, <2>1, ProbeCarries DEF Basics
  <2>3. store[Own] \in {Clean, NoEntry}
    BY <1>1, <1>6, <1>8, <2>1 DEF EntrySound, Rest, NothingLeftBehind
  <2>. QED
    BY <1>1, <1>4, <2>2, <2>3, HeaderConfirm
<1>10. NonePassedOver'
  <2>. SUFFICES ASSUME Isolated(site, mode), ~broken, ~disturbed
                PROVE  \A n \in 1 .. 2 : n < probe' => ~Vulnerable(Probes[n])
    BY <1>1 DEF NonePassedOver, target, Vulnerable
  <2>1. \A n \in 1 .. 2 : n < probe => ~Vulnerable(Probes[n])
    BY DEF Rest, NonePassedOver
  <2>2. CASE probe' = probe
    BY <2>1, <2>2
  <2>3. CASE probe' = probe + 1 /\ Reply(Confirm) # poisoned
    <3>1. probe <= 2 => ~Vulnerable(Probes[probe])
      BY <1>1, <1>8, <2>3 DEF Rest, NonePassedOver, Carried
    <3>. QED
      BY <1>1, <2>1, <2>3, <3>1
  <2>. QED
    BY <1>1, <2>2, <2>3
<1>. QED
  BY <1>4, <1>7, <1>9, <1>10 DEF Rest

\* A failed request leaves what a request leaves, or nothing.
LEMMA FailureRest ==
    ASSUME Basics, Basics', Rest, RequestFails
    PROVE  Rest'
<1>1. /\ UnderWay /\ UNCHANGED <<target, token, findings>> /\ disturbed' = TRUE
      /\ (pc' = pc /\ probe' = probe) \/ pc' = "pick"
      /\ disturbed \in BOOLEAN
  BY DEF RequestFails, Retry, NextProbe, UnderWay, Basics, TypeOK
<1>2. /\ Apart'
      /\ store'[Own] # store[Own] /\ ~broken => store'[Own] \in {Carried, Clean}
      /\ store'[Own] # store[Own] /\ store'[Own] = Carried /\ ~broken => Vulnerable(Carried)
  <2>1. CASE UNCHANGED store
    BY <1>1, <2>1 DEF Rest, Apart, FutureUntouched, CanonicalSafe, target
  <2>2. CASE Reaches(Request)
    <3>1. PICK i \in {Carried, Clean} : Request = [token |-> token, input |-> i]
      BY <1>1, ProbeCarries DEF Request, Basics, Progress
    <3>. QED
      BY <1>1, <2>2, <3>1, ProbeRequest DEF Rest
  <2>. QED
    BY <2>1, <2>2 DEF RequestFails
<1>3. (~broken /\ (Isolated(site, mode) \/ ~disturbed) =>
           \A variant \in findings \ {"HMC"} : Vulnerable(variant))'
  BY <1>1, OldFindings DEF Rest
<1>4. Genuine'
  <2>. SUFFICES ASSUME ~broken, Isolated(site, mode), pc' = pc, probe' = probe
                PROVE  EntrySound'
    BY <1>1, <1>3 DEF Genuine, UnderWay, target
  <2>1. EntrySound
    BY <1>1 DEF Rest, Genuine
  <2>2. Own' = Own /\ Carried' = Carried
    BY <1>1 DEF Own, Carried, target
  <2>. QED
    BY <1>1, <1>2, <2>1, <2>2 DEF EntrySound, Vulnerable, target
<1>. QED
  BY <1>1, <1>2, <1>4 DEF Rest, NothingLeftBehind, NonePassedOver

\* A user's request fills the canonical entry without any variant's error.
LEMMA VisitRest ==
    ASSUME Basics, Basics', Rest, Visit
    PROVE  Rest'
<1>. DEFINE request == [token |-> Canonical, input |-> Clean]
            k == KeyOf(site, mode, request)
            o == Origin(request)
<1>1. /\ store' = Filled(store, k, o, site.stores)
      /\ UNCHANGED <<target, probe, pc, poisoned, token, findings, disturbed>>
      /\ token \in Nat /\ token \in Tokens /\ Canonical \in Tokens /\ disturbed \in BOOLEAN
  BY ProbeNames DEF Visit, Basics, TypeOK, Tokens, Canonical
<1>2. k = <<Canonical, Clean>>
  BY DEF KeyOf
<1>3. o \in {Clean, Broken} /\ (~broken => o = Clean)
  BY DEF Origin, Produced
<1>4. \A key \in Keys : store'[key] # store[key] => key = k /\ store'[key] = o
  <2>1. /\ store'[k] = IF store[k] = NoEntry /\ site.stores THEN o ELSE store[k]
        /\ \A key \in Keys : store'[key] # store[key] => key = k /\ store[k] = NoEntry /\ site.stores
    BY <1>1, RequestStores DEF Basics
  <2>. QED
    BY <2>1
<1>5. Own \in Keys /\ Own' = Own /\ Carried' = Carried
      /\ (Isolated(site, mode) /\ UnderWay => Own # k)
  BY <1>1, <1>2 DEF Own, Carried, Keys, target, Basics, Progress, Canonical
<1>6. UnderWay => Carried \notin {Clean, NoEntry}
  BY ProbeCarries, CPDoSAssumption DEF Basics, Progress
<1>7. Apart'
  <2>. SUFFICES ASSUME Isolated(site, mode) PROVE (FutureUntouched /\ CanonicalSafe)'
    BY <1>1 DEF Apart, target
  <2>1. FutureUntouched'
    <3>. SUFFICES ASSUME NEW key \in Keys, key[1] > token PROVE store'[key] = NoEntry
      BY <1>1 DEF FutureUntouched
    <3>1. key # k
      BY <1>1, <1>2 DEF Canonical
    <3>. QED
      BY <1>4, <3>1 DEF Rest, Apart, FutureUntouched
  <2>2. CanonicalSafe'
    <3>1. o \notin Variants
      BY <1>3, CPDoSAssumption
    <3>. QED
      BY <1>4, <3>1 DEF Rest, Apart, CanonicalSafe
  <2>. QED
    BY <2>1, <2>2
<1>8. Genuine'
  <2>1. (~broken /\ (Isolated(site, mode) \/ ~disturbed) =>
             \A variant \in findings \ {"HMC"} : Vulnerable(variant))'
    BY <1>1, OldFindings DEF Rest
  <2>2. ASSUME ~broken, Isolated(site, mode) \/ ~disturbed, UnderWay
        PROVE  EntrySound'
    <3>1. store'[Own] = store[Own] \/ store'[Own] = Clean
      BY <1>3, <1>4, <1>5, <2>2
    <3>. QED
      BY <1>1, <1>5, <1>6, <2>2, <3>1 DEF Rest, Genuine, EntrySound, Vulnerable, target
  <2>. QED
    BY <1>1, <2>1, <2>2 DEF Genuine, UnderWay, target
<1>9. NothingLeftBehind'
  <2>. SUFFICES ASSUME ~broken, ~disturbed
                PROVE  /\ pc \in {"pick", "poison"} /\ probe <= Len(Probes) => store'[Own] \in {Clean, NoEntry}
                       /\ pc = "confirm" /\ store'[Own] = Carried => poisoned = Carried
    BY <1>1, <1>5 DEF NothingLeftBehind, target
  <2>1. store'[Own] = store[Own] \/ store'[Own] = Clean
    BY <1>3, <1>4, <1>5
  <2>. QED
    BY <1>6, <2>1 DEF Rest, NothingLeftBehind, UnderWay
<1>10. NonePassedOver'
  <2>1. Isolated(site, mode) /\ UnderWay => store'[Own] = store[Own]
    BY <1>4, <1>5
  <2>. QED
    BY <1>1, <1>5, <2>1 DEF Rest, NonePassedOver, UnderWay, Vulnerable, target
<1>. QED
  BY <1>7, <1>8, <1>9, <1>10 DEF Rest

\* An entry that expires takes nothing with it.
LEMMA ExpireRest ==
    ASSUME Basics, Basics', Rest, Expire
    PROVE  Rest'
<1>1. /\ \A key \in Keys : store'[key] \in {store[key], NoEntry}
      /\ UNCHANGED <<target, probe, pc, poisoned, token, findings>> /\ disturbed' = TRUE
      /\ disturbed \in BOOLEAN /\ token \in Tokens
  BY DEF Expire, Basics, TypeOK
<1>2. Apart'
  BY <1>1, CPDoSAssumption DEF Rest, Apart, FutureUntouched, CanonicalSafe, target
<1>3. Genuine'
  <2>1. (~broken /\ (Isolated(site, mode) \/ ~disturbed) =>
             \A variant \in findings \ {"HMC"} : Vulnerable(variant))'
    BY <1>1, OldFindings DEF Rest
  <2>2. ASSUME ~broken, Isolated(site, mode), UnderWay
        PROVE  EntrySound'
    <3>1. Own \in Keys /\ Own' = Own /\ Carried' = Carried /\ EntrySound
      BY <1>1, <2>2 DEF Own, Carried, Keys, target, Rest, Genuine
    <3>2. Carried # NoEntry
      BY <2>2, ProbeCarries, CPDoSAssumption DEF Basics, Progress
    <3>. QED
      BY <1>1, <3>1, <3>2 DEF EntrySound, Vulnerable, target
  <2>. QED
    BY <1>1, <2>1, <2>2 DEF Genuine, UnderWay, target
<1>. QED
  BY <1>1, <1>2, <1>3 DEF Rest, NothingLeftBehind, NonePassedOver

LEMMA StepRest ==
    ASSUME Basics, Basics', Rest, [Next]_vars
    PROVE  Rest'
<1>1. CASE Stop
  <2>1. pc' = "done" /\ UNCHANGED <<target, store, probe, token, findings, disturbed>>
    BY <1>1 DEF Stop
  <2>2. Apart'
    BY <2>1 DEF Rest, Apart, FutureUntouched, CanonicalSafe, target
  <2>. QED
    BY <2>1, <2>2 DEF Rest, Genuine, NothingLeftBehind, NonePassedOver, UnderWay, Vulnerable, target
<1>2. CASE UNCHANGED vars
  <2>1. /\ Apart' = Apart /\ Genuine' = Genuine /\ NothingLeftBehind' = NothingLeftBehind
        /\ NonePassedOver' = NonePassedOver
    BY <1>2 DEF vars, Apart, FutureUntouched, CanonicalSafe, Genuine, NothingLeftBehind,
                NonePassedOver, UnderWay, EntrySound, Own, Carried, Vulnerable
  <2>. QED
    BY <2>1 DEF Rest
<1>. QED
  BY <1>1, <1>2, StartRest, FailureRest, PoisonRest, ConfirmRest, VisitRest, ExpireRest DEF Next, Check

-----------------------------------------------------------------------------
(* The theorems *)

LEMMA Invariance == Spec => []IInv
<1>1. Init => IInv
  BY InitBasics, InitRest DEF IInv, Rest
<1>2. IInv /\ [Next]_vars => IInv'
  BY StepBasics, StepRest DEF IInv, Rest
<1>. QED
  BY <1>1, <1>2, PTL DEF Spec

\* The model is well typed whatever the budget: no probe comes after the
\* third, and none is started that the budget does not pay for.
THEOREM TypeCorrect == Spec => []TypeOK
<1>1. IInv => TypeOK
  BY DEF IInv, Basics
<1>. QED
  BY <1>1, Invariance, PTL

\* In front of any cache that keys the buster, a header variant is reported
\* only if a plain request would get the error, whatever fails or expires.
THEOREM HeaderFindingsAreGenuine == Spec => []HeaderFindingsGenuine
<1>1. IInv => HeaderFindingsGenuine
  BY DEF IInv, Genuine, HeaderFindingsGenuine
<1>. QED
  BY <1>1, Invariance, PTL

\* While nothing fails, stopping at the first finding keeps every variant's
\* error out of the next one's verdict, even where the buster is ignored.
THEOREM NoFindingIsResidue == Spec => []NoResidualFinding
<1>1. IInv => NoResidualFinding
  BY DEF IInv, Genuine, NoResidualFinding
<1>. QED
  BY <1>1, Invariance, PTL

\* While nothing fails, the check passes over no vulnerable header variant and
\* stops early only for a finding or for the budget.
THEOREM FirstVulnerableIsFound == Spec => []FirstVulnerableFound
<1>1. IInv => FirstVulnerableFound
  <2>. SUFFICES ASSUME IInv, ~disturbed, pc = "done", Isolated(site, mode), ~broken
                PROVE  /\ \A n \in 1 .. 2 : Vulnerable(Probes[n]) => probe <= n
                       /\ findings = {} => probe > Len(Probes) \/ budget < 2
    BY DEF FirstVulnerableFound
  <2>1. \A n \in 1 .. 2 : n < probe => ~Vulnerable(Probes[n])
    BY DEF IInv, NonePassedOver
  <2>2. probe \in Nat
    BY ProbeNames DEF IInv, Basics, TypeOK
  <2>. QED
    BY <2>1, <2>2 DEF IInv, Basics, Progress
<1>. QED
  BY <1>1, Invariance, PTL

-----------------------------------------------------------------------------
(* The steps of the abstract check *)

\* The site's part of the mapping stays as it is.
LEMMA MappedTarget ==
    ASSUME UNCHANGED target
    PROVE  /\ {variant \in Variants : Vulnerable(variant)}' = {variant \in Variants : Vulnerable(variant)}
           /\ (IF Isolated(site, mode) /\ ~broken THEN {"HHO", "HMO"} ELSE {})'
                  = (IF Isolated(site, mode) /\ ~broken THEN {"HHO", "HMO"} ELSE {})
           /\ Isolated(site, mode)' = Isolated(site, mode)
BY DEF target, Vulnerable

\* The entry real users are served is one the promise allows.
LEMMA PlainAllowed == Apart => PlainEntry \in Promise!Plains
<1>. SUFFICES ASSUME Apart PROVE PlainEntry \in Promise!Plains
  OBVIOUS
<1>1. PlainEntry \in {"absent", "clean", "poisoned"}
  BY DEF PlainEntry
<1>2. ASSUME Isolated(site, mode) PROVE PlainEntry # "poisoned"
  <2>1. \A input \in Variants \cup {Clean} : store[<<Canonical, input>>] \notin Variants
    <3>1. \A input \in Variants \cup {Clean} : <<Canonical, input>> \in Keys
      BY ProbeNames DEF Keys, Tokens, Canonical
    <3>. QED
      BY <1>2, <3>1 DEF Apart, CanonicalSafe
  <2>. QED
    BY <2>1 DEF PlainEntry
<1>. QED
  BY <1>1, <1>2 DEF Promise!Plains

LEMMA PlainAllowedNext == (Apart => PlainEntry \in Promise!Plains)'
BY PlainAllowed, PTL

\* A step that judges no variant serves the plain entry, or nothing.
LEMMA JudgesNothing ==
    ASSUME Apart', UNCHANGED <<target, probe, findings>>, (pc' = "done") = (pc = "done")
    PROVE  Promise!Serve
<1>1. PlainEntry' \in Promise!Plains
  <2>1. PlainEntry' \in Promise!Plains'
    BY PlainAllowedNext
  <2>2. Promise!Plains' = Promise!Plains
    BY MappedTarget DEF Promise!Plains
  <2>. QED
    BY <2>1, <2>2
<1>2. [variant \in Variants |-> VerdictOn(variant)]' = [variant \in Variants |-> VerdictOn(variant)]
  BY DEF VerdictOn
<1>. QED
  BY <1>1, <1>2, MappedTarget DEF Promise!Serve

\* Before the check ends, the variants judged are those of the probes done with.
SoFar ==
    /\ \A n \in 1 .. 3 : VerdictOn(Probes[n]) = IF n < probe THEN "clean" ELSE "untested"
    /\ Cardinality(Promise!Judged) = probe - 1

LEMMA JudgedSoFar == Basics /\ pc # "done" => SoFar
<1>. SUFFICES ASSUME Basics, pc # "done" PROVE SoFar
  OBVIOUS
<1>1. findings = {} /\ probe \in 1 .. 4
  BY ProbeNames DEF Basics, TypeOK, Progress
<1>2. ASSUME NEW n \in 1 .. 3
      PROVE  VerdictOn(Probes[n]) = IF n < probe THEN "clean" ELSE "untested"
  <2>1. Probes[n] \in {Probes[m] : m \in 1 .. probe - 1} <=> n < probe
    <3>1. ASSUME NEW m \in 1 .. probe - 1, Probes[n] = Probes[m] PROVE n < probe
      <4>1. m \in 1 .. 3
        BY <1>1
      <4>. QED
        BY <1>1, <3>1, <4>1, ProbeNames
    <3>2. n < probe => n \in 1 .. probe - 1
      BY <1>1
    <3>. QED
      BY <3>1, <3>2
  <2>. QED
    BY <1>1, <2>1 DEF VerdictOn
<1>3. Cardinality(Promise!Judged) = probe - 1
  <2>1. Promise!Judged = {variant \in Variants : VerdictOn(variant) # "untested"}
    BY DEF Promise!Judged
  <2>2. /\ VerdictOn("HHO") = IF 1 < probe THEN "clean" ELSE "untested"
        /\ VerdictOn("HMO") = IF 2 < probe THEN "clean" ELSE "untested"
        /\ VerdictOn("HMC") = IF 3 < probe THEN "clean" ELSE "untested"
    BY <1>2, ProbeNames
  <2>3. /\ probe = 1 => Promise!Judged = {}
        /\ probe = 2 => Promise!Judged = {"HHO"}
        /\ probe = 3 => Promise!Judged = {"HHO", "HMO"}
        /\ probe = 4 => Promise!Judged = {"HHO", "HMO", "HMC"}
    BY <2>1, <2>2 DEF Variants
  <2>4. /\ Cardinality({}) = 0 /\ IsFiniteSet({"HHO"}) /\ Cardinality({"HHO"}) = 1
    BY FS_EmptySet, FS_Singleton
  <2>5. IsFiniteSet({"HHO", "HMO"}) /\ Cardinality({"HHO", "HMO"}) = 2
    <3>1. {"HHO", "HMO"} = {"HHO"} \cup {"HMO"}
      OBVIOUS
    <3>. QED
      BY <2>4, <3>1, FS_AddElement
  <2>6. Cardinality({"HHO", "HMO", "HMC"}) = 3
    <3>1. {"HHO", "HMO", "HMC"} = {"HHO", "HMO"} \cup {"HMC"}
      OBVIOUS
    <3>. QED
      BY <2>5, <3>1, FS_AddElement
  <2>. QED
    BY <1>1, <2>3, <2>4, <2>5, <2>6
<1>. QED
  BY <1>2, <1>3 DEF SoFar

LEMMA JudgedSoFarNext == (Basics /\ pc # "done" => SoFar)'
BY JudgedSoFar, PTL

\* A probe that is done with judges its variant, on its own allowance; where
\* the cache keys the buster the plain entry is left alone.
LEMMA JudgesOne ==
    ASSUME IInv, IInv', UNCHANGED target, pc # "done", probe <= Len(Probes),
           2 * probe <= MaxAggressiveRequests,
           Isolated(site, mode) => PlainEntry' = PlainEntry,
           \/ pc' = "pick" /\ probe' = probe + 1 /\ findings' = findings
           \/ pc' = "done" /\ probe' = probe /\ findings' = {Carried}
    PROVE  Promise!Check
<1>. DEFINE verdicts == [variant \in Variants |-> VerdictOn(variant)]
<1>1. /\ probe \in 1 .. 3 /\ findings = {} /\ Carried = Probes[probe] /\ SoFar
      /\ pc' = "pick" => SoFar'
  BY ProbeNames, JudgedSoFar, JudgedSoFarNext DEF IInv, Basics, TypeOK, Progress, Carried
<1>2. PICK own \in Variants : own = Carried
  BY <1>1, ProbeNames
<1>3. verdicts[own] = "untested"
  BY <1>1, <1>2 DEF SoFar
<1>4. Cardinality(Promise!Judged) < MaxAggressiveRequests \div 2
  <2>1. Cardinality(Promise!Judged) = probe - 1
    BY <1>1 DEF SoFar
  <2>2. probe <= MaxAggressiveRequests \div 2 /\ MaxAggressiveRequests \div 2 \in Int
    BY <1>1, CPDoSAssumption
  <2>. QED
    BY <1>1, <2>1, <2>2
<1>5. ASSUME NEW n \in 1 .. 3, n # probe
      PROVE  VerdictOn(Probes[n])' = VerdictOn(Probes[n])
  <2>1. CASE pc' = "pick" /\ probe' = probe + 1
    BY <1>1, <1>5, <2>1 DEF SoFar
  <2>2. CASE pc' = "done" /\ probe' = probe /\ findings' = {Carried}
    <3>1. Probes[n] \notin findings'
      BY <1>1, <1>5, <2>2, ProbeNames
    <3>. QED
      BY <1>1, <2>2, <3>1 DEF VerdictOn
  <2>. QED
    BY <2>1, <2>2
<1>6. ASSUME NEW variant \in Variants, variant # own
      PROVE  VerdictOn(variant)' = VerdictOn(variant)
  <2>1. PICK n \in 1 .. 3 : variant = Probes[n]
    BY ProbeNames DEF Variants
  <2>. QED
    BY <1>1, <1>2, <1>5, <1>6, <2>1
<1>7. VerdictOn(own)' \in Promise!Verdicts(own)
  <2>1. CASE pc' = "pick" /\ probe' = probe + 1 /\ findings' = findings
    <3>1. own \notin findings' /\ own \in {Probes[n] : n \in 1 .. probe' - 1}
      BY <1>1, <1>2, <2>1
    <3>. QED
      BY <3>1 DEF VerdictOn, Promise!Verdicts
  <2>2. CASE pc' = "done" /\ probe' = probe /\ findings' = {Carried}
    <3>1. VerdictOn(own)' = "vulnerable"
      <4>1. own \in findings'
        BY <1>2, <2>2
      <4>2. own \notin {Probes[n] : n \in 1 .. probe' - 1}
        BY <1>1, <1>2, <2>2, ProbeNames
      <4>. QED
        BY <4>1, <4>2 DEF VerdictOn
    <3>2. own \in {"HHO", "HMO"} /\ Isolated(site, mode) /\ ~broken => Vulnerable(own)
      BY <1>2, <2>2 DEF IInv, Genuine, Vulnerable, target
    <3>. QED
      BY <1>2, <3>1, <3>2 DEF Promise!Verdicts
  <2>. QED
    BY <2>1, <2>2
<1>8. verdicts' = [verdicts EXCEPT ![own] = VerdictOn(own)']
  BY <1>2, <1>6
<1>9. PlainEntry' \in IF Isolated(site, mode) THEN {PlainEntry} ELSE Promise!Plains
  <2>1. (Promise!Plains)' = Promise!Plains
    BY MappedTarget DEF Promise!Plains
  <2>. QED
    BY <2>1, PlainAllowedNext DEF IInv
<1>10. Promise!Judge(own)
  <2>1. Promise!Cardinality(Promise!Judged) < MaxAggressiveRequests \div 2
    BY <1>4 DEF Promise!Cardinality, Cardinality
  <2>. QED
    BY <1>3, <1>7, <1>8, <1>9, <2>1, MappedTarget DEF Promise!Judge
<1>. QED
  BY <1>2, <1>10 DEF Promise!Check

\* Where the cache keys the buster, the requests of a probe leave the plain
\* entry as it is.
LEMMA ProbeKeepsPlain ==
    ASSUME Basics, UnderWay, Isolated(site, mode), NEW request \in {Poison, Confirm},
           Reaches(request), UNCHANGED target
    PROVE  PlainEntry' = PlainEntry
<1>1. /\ probe <= Len(Probes) /\ token \in Tokens /\ token # Canonical
  BY DEF Basics, Progress, TypeOK, Tokens, Canonical
<1>2. PICK i \in Variants \cup {Clean} : request = [token |-> token, input |-> i]
  BY <1>1, ProbeCarries DEF Basics
<1>3. KeyOf(site, mode, request)[1] = token
  BY <1>2, ProbeKey DEF Own
<1>4. \A key \in Keys : key[1] = Canonical => store'[key] = store[key]
  BY <1>1, <1>2, <1>3, RequestStores DEF Reaches, Basics
<1>5. \A input \in Variants \cup {Clean} : store'[<<Canonical, input>>] = store[<<Canonical, input>>]
  <2>1. \A input \in Variants \cup {Clean} : <<Canonical, input>> \in Keys
    BY ProbeNames DEF Keys, Tokens, Canonical
  <2>. QED
    BY <1>4, <2>1
<1>. QED
  BY <1>5 DEF PlainEntry

LEMMA InitPromise == Init => Promise!Init
<1>. SUFFICES ASSUME Init PROVE Promise!Init
  OBVIOUS
<1>1. /\ probe = 1 /\ findings = {} /\ pc = "pick" /\ store = [key \in Keys |-> NoEntry]
      /\ broken \in BOOLEAN
  BY Zenon DEF Init
<1>2. [variant \in Variants |-> VerdictOn(variant)] = [variant \in Variants |-> "untested"]
  BY <1>1 DEF VerdictOn
<1>3. PlainEntry = "absent"
  <2>1. \A input \in Variants \cup {Clean} : store[<<Canonical, input>>] = NoEntry
    BY <1>1, ProbeNames DEF Keys, Tokens, Canonical
  <2>. QED
    BY <2>1, CPDoSAssumption DEF PlainEntry
<1>4. Isolated(site, mode) \in BOOLEAN
  BY DEF Isolated
<1>. QED
  BY <1>1, <1>2, <1>3, <1>4 DEF Promise!Init, Variants

LEMMA StepPromise == IInv /\ IInv' /\ [Next]_vars => [Promise!Next]_(Promise!vars)
<1>. SUFFICES ASSUME IInv, IInv', [Next]_vars PROVE [Promise!Next]_(Promise!vars)
  OBVIOUS
<1>a. Basics /\ Apart'
  BY DEF IInv
<1>1. CASE Stop
  <2>1. /\ pc = "pick" /\ pc' = "done" /\ UNCHANGED <<target, store, probe, findings>>
    BY <1>1 DEF Stop
  <2>2. [variant \in Variants |-> VerdictOn(variant)]' = [variant \in Variants |-> VerdictOn(variant)]
    BY <2>1 DEF VerdictOn
  <2>3. Promise!Stop
    BY <2>1, <2>2, MappedTarget DEF Promise!Stop, PlainEntry
  <2>. QED
    BY <2>3 DEF Promise!Next, Promise!Check
<1>2. CASE StartProbe
  <2>1. /\ pc = "pick" /\ probe <= Len(Probes) /\ budget >= 2
        /\ UNCHANGED <<target, store, findings>>
        /\ \/ pc' = "poison" /\ probe' = probe
           \/ pc' = "pick" /\ probe' = probe + 1
    BY <1>2 DEF StartProbe, NextProbe
  <2>2. CASE pc' = "poison" /\ probe' = probe
    BY <1>a, <2>1, <2>2, JudgesNothing DEF Promise!Next
  <2>3. CASE pc' = "pick" /\ probe' = probe + 1
    <3>1. 2 * probe <= MaxAggressiveRequests
      BY <1>a, <2>1, CPDoSAssumption, ProbeNames DEF Basics, TypeOK, Progress, UnderWay
    <3>. QED
      BY <2>1, <2>3, <3>1, JudgesOne DEF Promise!Next, PlainEntry
  <2>. QED
    BY <2>1, <2>2, <2>3
<1>3. ASSUME UnderWay PROVE probe <= Len(Probes) /\ 2 * probe <= MaxAggressiveRequests
  BY <1>a, <1>3, CPDoSAssumption, ProbeNames DEF Basics, TypeOK, Progress
<1>4. CASE RequestFails
  <2>1. /\ UnderWay /\ pc # "done" /\ UNCHANGED <<target, findings>>
        /\ \/ pc' = pc /\ probe' = probe
           \/ pc' = "pick" /\ probe' = probe + 1
    BY <1>4 DEF RequestFails, Retry, NextProbe, UnderWay
  <2>2. Isolated(site, mode) => PlainEntry' = PlainEntry
    <3>1. CASE UNCHANGED store
      BY <3>1 DEF PlainEntry
    <3>2. CASE Reaches(Request)
      BY <1>a, <2>1, <3>2, ProbeKeepsPlain DEF Request
    <3>. QED
      BY <1>4, <3>1, <3>2 DEF RequestFails
  <2>3. CASE pc' = pc /\ probe' = probe
    BY <1>a, <2>1, <2>3, JudgesNothing DEF Promise!Next
  <2>4. CASE pc' = "pick" /\ probe' = probe + 1
    BY <1>3, <2>1, <2>2, <2>4, JudgesOne DEF Promise!Next
  <2>. QED
    BY <2>1, <2>3, <2>4
<1>5. CASE PoisonRequest
  <2>1. /\ UnderWay /\ pc = "poison" /\ UNCHANGED <<target, findings>> /\ Reaches(Poison)
        /\ \/ pc' = "confirm" /\ probe' = probe
           \/ pc' = "pick" /\ probe' = probe + 1
    BY <1>5 DEF PoisonRequest, NextProbe, UnderWay
  <2>2. Isolated(site, mode) => PlainEntry' = PlainEntry
    BY <1>a, <2>1, ProbeKeepsPlain
  <2>3. CASE pc' = "confirm" /\ probe' = probe
    BY <1>a, <2>1, <2>3, JudgesNothing DEF Promise!Next
  <2>4. CASE pc' = "pick" /\ probe' = probe + 1
    BY <1>3, <2>1, <2>2, <2>4, JudgesOne DEF Promise!Next
  <2>. QED
    BY <2>1, <2>3, <2>4
<1>6. CASE ConfirmRequest
  <2>1. /\ UnderWay /\ pc = "confirm" /\ UNCHANGED target /\ Reaches(Confirm)
        /\ \/ pc' = "done" /\ probe' = probe /\ findings' = findings \cup {Carried}
           \/ pc' = "pick" /\ probe' = probe + 1 /\ findings' = findings
    BY <1>6 DEF ConfirmRequest, AfterFinding, NextProbe, UnderWay, Carried
  <2>2. Isolated(site, mode) => PlainEntry' = PlainEntry
    BY <1>a, <2>1, ProbeKeepsPlain
  <2>3. findings = {}
    BY <1>a, <2>1 DEF Basics, Progress
  <2>4. findings \cup {Carried} = {Carried}
    BY <2>3
  <2>. QED
    BY <1>3, <2>1, <2>2, <2>4, JudgesOne DEF Promise!Next
<1>7. CASE Visit
  BY <1>7, <1>a, JudgesNothing DEF Visit, Promise!Next
<1>8. CASE Expire
  BY <1>8, <1>a, JudgesNothing DEF Expire, Promise!Next
<1>9. CASE UNCHANGED vars
  BY <1>9, <1>a, JudgesNothing DEF vars, target, Promise!Next
<1>. QED
  BY <1>1, <1>2, <1>4, <1>5, <1>6, <1>7, <1>8, <1>9 DEF Next, Check

\* Step by step the check is a poison/confirm check: it starts as one, and
\* everything it does is a step of one or changes nothing a reader of the
\* promise can see.
THEOREM KeepsPromiseStepwise == Spec => Promise!Init /\ [][Promise!Next]_(Promise!vars)
BY InitPromise, StepPromise, Invariance, PTL DEF Spec
=============================================================================
