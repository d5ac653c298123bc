------------------------- MODULE ScanEngineProofs -------------------------
(***************************************************************************)
(* What holds of a scan for every resource list, every selection of checks *)
(* and every concurrency limit.                                            *)
(*                                                                         *)
(* The argument: a check that has started has all it depends on behind it  *)
(* (StartedInOrder), for good, since an ended check never runs again.      *)
(* Followed along the chain this keeps every other check out while a chain *)
(* check runs. It also fixes what a reader can find: the results under the *)
(* slot it reads are complete when it starts (ResultsMatch, SourcesMatch). *)
(***************************************************************************)
EXTENDS ScanEngine, TLAPS

StartedInOrder ==
    \A check \in Selected, r \in Resources :
        run[<<check, r>>] # "waiting" => Ready(check, r)

\* A slot holds the resources of its identifier on which its check is done.
ResultsMatch ==
    \A check \in Selected, r \in Resources :
        results[<<check, Id[r]>>] =
            {owner \in Resources : Id[owner] = Id[r] /\ run[<<check, owner>>] = "done"}

\* A reader that is through has looked up one of the results it could find.
SourceMatches(check, r) ==
    \/ Found(check, r) = {} /\ source[<<check, r>>] = {}
    \/ \E owner \in Found(check, r) : source[<<check, r>>] = {owner}

SourcesMatch ==
    \A check \in Readers \cap Selected, r \in Resources :
        IF run[<<check, r>>] \in {"done", "skipped"}
        THEN SourceMatches(check, r)
        ELSE source[<<check, r>>] = {}

SkipsMatch ==
    \A check \in Selected, r \in Resources :
        run[<<check, r>>] = "skipped" =>
            check \in SkipWithoutResult /\ Found(check, r) = {}

IInv == TypeOK /\ StartedInOrder /\ ResultsMatch /\ SourcesMatch /\ SkipsMatch

-----------------------------------------------------------------------------
(* What the checks depend on *)

LEMMA Dependencies ==
    /\ \A check \in Checks : DependsOn(check) \subseteq Checks
    /\ \A check \in Readers : ReadsFrom(check) \in DependsOn(check)
    /\ \A check \in Readers : ReadsFrom(check) \notin SkipWithoutResult
  BY DEF Checks, Chain, AfterChain, AfterCacheability, DependsOn, ChainTail,
         AfterChainWaitFor, AfterCacheabilityWaitFor, Readers, ReadsFrom, SkipWithoutResult

\* DependsOn, entry by entry.
LEMMA Links ==
    /\ DependsOn("cache-deception") = {"unkeyed-header-injection"}
    /\ DependsOn("error-caching") = {"cache-deception"}
    /\ DependsOn("response-splitting") = {"error-caching"}
    /\ DependsOn("cpdos") = {"response-splitting"}
    /\ \A check \in AfterChain : DependsOn(check) = {"cpdos"}
    /\ \A check \in AfterCacheability : DependsOn(check) = {"cacheability"}
    /\ DependsOn("fingerprint") = {"live-state"}
<1>1. DependsOn("cache-deception") = {"unkeyed-header-injection"}
  BY DEF DependsOn, AfterChain, AfterCacheability
<1>2. DependsOn("error-caching") = {"cache-deception"}
  BY DEF DependsOn, AfterChain, AfterCacheability
<1>3. DependsOn("response-splitting") = {"error-caching"}
  BY DEF DependsOn, AfterChain, AfterCacheability
<1>4. DependsOn("cpdos") = {"response-splitting"}
  BY DEF DependsOn, AfterChain, AfterCacheability
<1>5. ASSUME NEW check \in AfterChain PROVE DependsOn(check) = {"cpdos"}
  <2>1. check \notin Chain /\ check \notin AfterCacheability /\ check # "fingerprint"
    BY <1>5 DEF AfterChain, AfterCacheability, Chain
  <2>. QED
    BY <1>5, <2>1 DEF DependsOn, Chain, ChainTail, AfterChainWaitFor
<1>6. ASSUME NEW check \in AfterCacheability PROVE DependsOn(check) = {"cacheability"}
  <2>1. check \notin Chain /\ check \notin AfterChain /\ check # "fingerprint"
    BY <1>6 DEF AfterChain, AfterCacheability, Chain
  <2>. QED
    BY <1>6, <2>1 DEF DependsOn, Chain, AfterCacheabilityWaitFor
<1>7. DependsOn("fingerprint") = {"live-state"}
  <2>1. "fingerprint" \notin AfterChain /\ "fingerprint" \notin AfterCacheability
    BY DEF AfterChain, AfterCacheability
  <2>. QED
    BY <2>1 DEF DependsOn
<1>. QED
  BY <1>1, <1>2, <1>3, <1>4, <1>5, <1>6, <1>7

LEMMA SelectedReads ==
    ASSUME NEW check \in Readers \cap Selected
    PROVE  check \in Selected /\ ReadsFrom(check) \in Selected
  BY ScanAssumption, Dependencies

-----------------------------------------------------------------------------
(* Types *)

LEMMA TypeInit == Init => TypeOK
  BY DEF Init, TypeOK, Runs

LEMMA TypeStep == TypeOK /\ [Next]_vars => TypeOK'
<1>. SUFFICES ASSUME TypeOK, [Next]_vars PROVE TypeOK'
  OBVIOUS
<1>1. ASSUME NEW check \in Selected, NEW r \in Resources, Start(check, r)
      PROVE  TypeOK'
  BY <1>1 DEF TypeOK, Start, Runs
<1>2. ASSUME NEW check \in Selected, NEW r \in Resources, Fail(check, r)
      PROVE  TypeOK'
  BY <1>2 DEF TypeOK, Fail, Runs, Ended
<1>3. ASSUME NEW check \in Selected, NEW r \in Resources, Complete(check, r)
      PROVE  /\ run' \in [Runs -> {"waiting", "running"} \cup Ended]
             /\ results' \in [Selected \X {Id[o] : o \in Resources} -> SUBSET Resources]
  BY <1>3 DEF TypeOK, Complete, Runs, Ended
<1>4. ASSUME NEW check \in Selected, NEW r \in Resources, Finish(check, r)
      PROVE  TypeOK'
  <2>1. CASE check \notin Readers /\ Complete(check, r) /\ UNCHANGED source
    BY <2>1, <1>3 DEF TypeOK
  <2>2. ASSUME check \in Readers, Complete(check, r), NEW owner \in Found(check, r),
               source' = [source EXCEPT ![<<check, r>>] = {owner}]
        PROVE  TypeOK'
    <3>1. owner \in Resources
      BY <2>2, SelectedReads DEF Found, TypeOK
    <3>. QED
      BY <2>2, <3>1, <1>3 DEF TypeOK, Runs
  <2>3. CASE /\ check \in Readers /\ Found(check, r) = {}
             /\ UNCHANGED source
             /\ IF check \in SkipWithoutResult
                THEN run' = [run EXCEPT ![<<check, r>>] = "skipped"] /\ UNCHANGED results
                ELSE Complete(check, r)
    BY <2>3, <1>3 DEF TypeOK, Runs, Ended
  <2>. QED
    BY <1>4, <2>1, <2>2, <2>3 DEF Finish
<1>5. CASE UNCHANGED vars
  BY <1>5 DEF vars, TypeOK
<1>. QED
  BY <1>1, <1>2, <1>4, <1>5 DEF Next

\* A scan never leaves its types.
THEOREM TypeCorrect == Spec => []TypeOK
  BY TypeInit, TypeStep, PTL DEF Spec

-----------------------------------------------------------------------------
(* What one step does to the run of one check on one resource *)

LEMMA EndedStays ==
    ASSUME TypeOK, [Next]_vars, NEW check \in Selected, NEW r \in Resources,
           run[<<check, r>>] \in Ended
    PROVE  run'[<<check, r>>] = run[<<check, r>>] /\ source'[<<check, r>>] = source[<<check, r>>]
<1>1. ASSUME NEW c \in Selected, NEW o \in Resources, Start(c, o) \/ Fail(c, o) \/ Finish(c, o)
      PROVE  run'[<<check, r>>] = run[<<check, r>>] /\ source'[<<check, r>>] = source[<<check, r>>]
  <2>1. run[<<c, o>>] \in {"waiting", "running"}
    BY <1>1 DEF Start, Fail, Finish
  <2>2. <<c, o>> # <<check, r>>
    BY <2>1 DEF Ended
  <2>3. \E state : run' = [run EXCEPT ![<<c, o>>] = state]
    BY <1>1 DEF Start, Fail, Finish, Complete
  <2>4. source' = source \/ \E found : source' = [source EXCEPT ![<<c, o>>] = found]
    BY <1>1 DEF Start, Fail, Finish
  <2>. QED
    BY <2>2, <2>3, <2>4 DEF TypeOK, Runs
<1>2. CASE UNCHANGED vars
  BY <1>2 DEF vars
<1>. QED
  BY <1>1, <1>2 DEF Next

LEMMA OverStays ==
    ASSUME TypeOK, [Next]_vars, NEW check \in Selected, Over(check)
    PROVE  Over(check)'
  BY EndedStays DEF Over

\* The run that a step moves on, and the one way it moves on each time.
LEMMA Moves ==
    ASSUME TypeOK, [Next]_vars, NEW check \in Selected, NEW r \in Resources,
           run'[<<check, r>>] # run[<<check, r>>] \/ source'[<<check, r>>] # source[<<check, r>>]
    PROVE  Start(check, r) \/ Fail(check, r) \/ Finish(check, r)
<1>1. ASSUME NEW c \in Selected, NEW o \in Resources, Start(c, o) \/ Fail(c, o) \/ Finish(c, o),
             <<c, o>> # <<check, r>>
      PROVE  FALSE
  <2>1. \E state : run' = [run EXCEPT ![<<c, o>>] = state]
    BY <1>1 DEF Start, Fail, Finish, Complete
  <2>2. source' = source \/ \E found : source' = [source EXCEPT ![<<c, o>>] = found]
    BY <1>1 DEF Start, Fail, Finish
  <2>. QED
    BY <1>1, <2>1, <2>2 DEF TypeOK, Runs
<1>2. CASE UNCHANGED vars
  BY <1>2 DEF vars
<1>. QED
  BY <1>1, <1>2 DEF Next

-----------------------------------------------------------------------------
(* The conjuncts of the invariant *)

LEMMA OrderStep == TypeOK /\ StartedInOrder /\ [Next]_vars => StartedInOrder'
<1>. SUFFICES ASSUME TypeOK, StartedInOrder, [Next]_vars,
                     NEW check \in Selected, NEW r \in Resources, run'[<<check, r>>] # "waiting",
                     NEW needed \in DependsOn(check)
              PROVE  Over(needed)'
  BY DEF StartedInOrder, Ready
<1>1. needed \in Selected
  BY ScanAssumption
<1>2. Over(needed)
  <2>1. CASE run[<<check, r>>] # "waiting"
    BY <2>1 DEF StartedInOrder, Ready
  <2>2. CASE run[<<check, r>>] = "waiting"
    BY <2>2, Moves DEF Start, Fail, Finish, Ready
  <2>. QED
    BY <2>1, <2>2
<1>. QED
  BY <1>1, <1>2, OverStays

LEMMA ResultsStep == TypeOK /\ ResultsMatch /\ [Next]_vars => ResultsMatch'
<1>. SUFFICES ASSUME TypeOK, ResultsMatch, [Next]_vars PROVE ResultsMatch'
  OBVIOUS
<1>1. ASSUME NEW c \in Selected, NEW o \in Resources, run[<<c, o>>] # "done",
             NEW state \in {"running", "failed", "skipped"},
             run' = [run EXCEPT ![<<c, o>>] = state], UNCHANGED results
      PROVE  ResultsMatch'
  <2>1. \A check \in Selected, owner \in Resources :
            run'[<<check, owner>>] = "done" <=> run[<<check, owner>>] = "done"
    BY <1>1 DEF TypeOK, Runs
  <2>. QED
    BY <1>1, <2>1 DEF ResultsMatch
<1>2. ASSUME NEW c \in Selected, NEW o \in Resources, Complete(c, o)
      PROVE  ResultsMatch'
  <2>. SUFFICES ASSUME NEW check \in Selected, NEW r \in Resources
                PROVE  results'[<<check, Id[r]>>] =
                           {owner \in Resources : Id[owner] = Id[r] /\ run'[<<check, owner>>] = "done"}
    BY DEF ResultsMatch
  <2>1. \A owner \in Resources :
            run'[<<check, owner>>] = "done"
                <=> run[<<check, owner>>] = "done" \/ (check = c /\ owner = o)
    BY <1>2 DEF Complete, TypeOK, Runs
  <2>2. results'[<<check, Id[r]>>] =
            IF check = c /\ Id[r] = Id[o] THEN results[<<check, Id[r]>>] \cup {o}
            ELSE results[<<check, Id[r]>>]
    BY <1>2 DEF Complete, TypeOK
  <2>. QED
    BY <2>1, <2>2 DEF ResultsMatch
<1>3. ASSUME NEW c \in Selected, NEW o \in Resources, Start(c, o) \/ Fail(c, o)
      PROVE  ResultsMatch'
  BY <1>1, <1>3 DEF Start, Fail
<1>4. ASSUME NEW c \in Selected, NEW o \in Resources, Finish(c, o)
      PROVE  ResultsMatch'
  BY <1>1, <1>2, <1>4 DEF Finish
<1>5. CASE UNCHANGED vars
  BY <1>5 DEF vars, ResultsMatch
<1>. QED
  BY <1>3, <1>4, <1>5 DEF Next

\* What a reader could find stays as it is once what it reads is over.
LEMMA FoundStays ==
    ASSUME TypeOK, ResultsMatch, [Next]_vars, NEW check \in Readers \cap Selected,
           NEW r \in Resources, Over(ReadsFrom(check))
    PROVE  Found(check, r)' = Found(check, r)
<1>1. ReadsFrom(check) \in Selected
  BY SelectedReads
<1>2. \A owner \in Resources :
          run'[<<ReadsFrom(check), owner>>] = run[<<ReadsFrom(check), owner>>]
  BY <1>1, EndedStays DEF Over
<1>3. results'[<<ReadsFrom(check), Id[r]>>] = results[<<ReadsFrom(check), Id[r]>>]
  <2>1. ResultsMatch'
    BY ResultsStep
  <2>2. results'[<<ReadsFrom(check), Id[r]>>] =
            {owner \in Resources : Id[owner] = Id[r] /\ run'[<<ReadsFrom(check), owner>>] = "done"}
    BY <1>1, <2>1 DEF ResultsMatch
  <2>. QED
    BY <1>1, <1>2, <2>2 DEF ResultsMatch
<1>. QED
  BY <1>3 DEF Found

LEMMA SourcesStep ==
    TypeOK /\ StartedInOrder /\ ResultsMatch /\ SourcesMatch /\ [Next]_vars => SourcesMatch'
<1>. SUFFICES ASSUME TypeOK, StartedInOrder, ResultsMatch, SourcesMatch, [Next]_vars,
                     NEW check \in Readers \cap Selected, NEW r \in Resources
              PROVE  IF run'[<<check, r>>] \in {"done", "skipped"}
                     THEN SourceMatches(check, r)'
                     ELSE source'[<<check, r>>] = {}
  BY DEF SourcesMatch
<1>0. check \in Selected
  OBVIOUS
<1>1. run[<<check, r>>] # "waiting" => Found(check, r)' = Found(check, r)
  BY FoundStays, Dependencies DEF StartedInOrder, Ready, Readers, AfterCacheability
<1>2. CASE run'[<<check, r>>] = run[<<check, r>>] /\ source'[<<check, r>>] = source[<<check, r>>]
  BY <1>1, <1>2 DEF SourcesMatch, SourceMatches
<1>3. CASE Start(check, r) \/ Fail(check, r)
  BY <1>3 DEF Start, Fail, SourcesMatch, TypeOK, Runs
<1>4. CASE Finish(check, r)
  <2>1. /\ run[<<check, r>>] = "running" /\ source[<<check, r>>] = {}
        /\ Found(check, r)' = Found(check, r)
    BY <1>1, <1>4 DEF Finish, SourcesMatch
  <2>2. run'[<<check, r>>] \in {"done", "skipped"}
    BY <1>4 DEF Finish, Complete, TypeOK, Runs
  <2>3. \/ Found(check, r) = {} /\ source'[<<check, r>>] = {}
        \/ \E owner \in Found(check, r) : source'[<<check, r>>] = {owner}
    BY <1>4, <2>1 DEF Finish, TypeOK, Runs
  <2>. QED
    BY <2>1, <2>2, <2>3 DEF SourceMatches
<1>. QED
  BY <1>0, <1>2, <1>3, <1>4, Moves

LEMMA SkipsStep ==
    TypeOK /\ StartedInOrder /\ ResultsMatch /\ SkipsMatch /\ [Next]_vars => SkipsMatch'
<1>. SUFFICES ASSUME TypeOK, StartedInOrder, ResultsMatch, SkipsMatch, [Next]_vars,
                     NEW check \in Selected, NEW r \in Resources, run'[<<check, r>>] = "skipped"
              PROVE  check \in SkipWithoutResult /\ Found(check, r)' = {}
  BY DEF SkipsMatch
<1>1. /\ check \in SkipWithoutResult /\ Found(check, r) = {} /\ run[<<check, r>>] # "waiting"
  <2>1. CASE run[<<check, r>>] = "skipped"
    BY <2>1 DEF SkipsMatch
  <2>2. CASE run[<<check, r>>] # "skipped"
    <3>1. Start(check, r) \/ Fail(check, r) \/ Finish(check, r)
      BY <2>2, Moves
    <3>. QED
      BY <3>1 DEF Start, Fail, Finish, Complete, TypeOK, Runs
  <2>. QED
    BY <2>1, <2>2
<1>2. check \in Readers \cap Selected
  BY <1>1 DEF SkipWithoutResult, Readers, AfterCacheability
<1>. QED
  BY <1>1, <1>2, FoundStays, Dependencies DEF StartedInOrder, Ready

LEMMA InvInit == Init => IInv
<1>. SUFFICES ASSUME Init PROVE IInv
  OBVIOUS
<1>1. \A check \in Selected, r \in Resources :
          run[<<check, r>>] = "waiting" /\ source[<<check, r>>] = {} /\ results[<<check, Id[r]>>] = {}
  BY DEF Init, Runs
<1>. QED
  BY <1>1, TypeInit DEF IInv, StartedInOrder, ResultsMatch, SourcesMatch, SkipsMatch

LEMMA Invariance == Spec => []IInv
<1>1. IInv /\ [Next]_vars => IInv'
  BY TypeStep, OrderStep, ResultsStep, SourcesStep, SkipsStep DEF IInv
<1>. QED
  BY <1>1, InvInit, PTL DEF Spec

-----------------------------------------------------------------------------
(* Along the chain *)

\* A check that has started on a resource has all it depends on behind it, on
\* that resource too.
LEMMA Behind ==
    ASSUME StartedInOrder, NEW check \in Selected, NEW r \in Resources,
           run[<<check, r>>] # "waiting", NEW needed \in DependsOn(check)
    PROVE  needed \in Selected /\ Over(needed) /\ run[<<needed, r>>] # "waiting"
  BY ScanAssumption DEF StartedInOrder, Ready, Over, Ended

\* So a check outside the chain that has started has the whole chain behind it,
\* and a chain check what comes before it there.
LEMMA ChainBehind ==
    ASSUME StartedInOrder, NEW other \in Selected, NEW r \in Resources,
           run[<<other, r>>] # "waiting"
    PROVE  /\ other \notin Chain => \A check \in Chain : Over(check)
           /\ other = "cpdos" => \A check \in Chain \ {"cpdos"} : Over(check)
           /\ other = "response-splitting" =>
                  \A check \in Chain \ {"cpdos", "response-splitting"} : Over(check)
           /\ other = "error-caching" =>
                  \A check \in {"unkeyed-header-injection", "cache-deception"} : Over(check)
           /\ other = "cache-deception" => Over("unkeyed-header-injection")
<1>. DEFINE Began(check) == check \in Selected /\ run[<<check, r>>] # "waiting"
<1>1. ASSUME NEW check, Began(check), NEW needed \in DependsOn(check)
      PROVE  Began(needed) /\ Over(needed)
  BY <1>1, Behind
<1>. HIDE DEF Began
<1>2. Began("cache-deception") => Over("unkeyed-header-injection")
  BY <1>1, Links
<1>3. Began("error-caching") => Over("unkeyed-header-injection") /\ Over("cache-deception")
  BY <1>1, <1>2, Links
<1>4. Began("response-splitting") => /\ Over("unkeyed-header-injection") /\ Over("cache-deception")
                                     /\ Over("error-caching")
  BY <1>1, <1>3, Links
<1>5. Began("cpdos") => /\ Over("unkeyed-header-injection") /\ Over("cache-deception")
                        /\ Over("error-caching") /\ Over("response-splitting")
  BY <1>1, <1>4, Links
<1>6. ASSUME NEW check \in AfterChain, Began(check)
      PROVE  \A c \in Chain : Over(c)
  BY <1>1, <1>5, <1>6, Links DEF Chain
<1>7. ASSUME NEW check \in AfterCacheability, Began(check)
      PROVE  \A c \in Chain : Over(c)
  <2>1. Began("cacheability") /\ "cacheability" \in AfterChain
    BY <1>1, <1>7, Links DEF AfterChain
  <2>. QED
    BY <1>6, <2>1
<1>8. Began("fingerprint") => \A c \in Chain : Over(c)
  <2>1. Began("fingerprint") => Began("live-state") /\ "live-state" \in AfterCacheability
    BY <1>1, Links DEF AfterCacheability
  <2>. QED
    BY <1>7, <2>1
<1>9. Began(other)
  BY DEF Began
<1>10. other \in Chain \cup AfterChain \cup AfterCacheability \cup {"fingerprint"}
  BY ScanAssumption DEF Checks
<1>11. other \notin Chain => \A check \in Chain : Over(check)
  BY <1>6, <1>7, <1>8, <1>9, <1>10
<1>12. other \in Chain =>
           /\ other = "cpdos" => \A check \in Chain \ {"cpdos"} : Over(check)
           /\ other = "response-splitting" =>
                  \A check \in Chain \ {"cpdos", "response-splitting"} : Over(check)
  BY <1>4, <1>5, <1>9 DEF Chain
<1>. QED
  BY <1>2, <1>3, <1>9, <1>11, <1>12 DEF Chain

-----------------------------------------------------------------------------
(* Theorems *)

\* While a chain check runs on any resource nothing else runs at all, whatever
\* the concurrency limits: the DependsOn chain does what it was built for.
THEOREM ChainIsAlone == Spec => []ChainRunsAlone
<1>1. IInv => ChainRunsAlone
  <2>. SUFFICES ASSUME StartedInOrder, NEW check \in Chain \cap Selected, NEW r \in Active(check),
                       NEW other \in Selected \ {check}, NEW o \in Active(other)
                PROVE  FALSE
    BY DEF IInv, ChainRunsAlone
  <2>1. /\ r \in Resources /\ run[<<check, r>>] = "running"
        /\ o \in Resources /\ run[<<other, o>>] = "running"
    BY DEF Active
  <2>2. ~Over(check) /\ ~Over(other)
    BY <2>1 DEF Over, Ended
  <2>3. check \in Selected /\ other \in Selected
    OBVIOUS
  <2>4. other \in Chain
    BY <2>1, <2>2, <2>3, ChainBehind
  <2>. QED
    BY <2>1, <2>2, <2>3, <2>4, ChainBehind DEF Chain
<1>. QED
  BY <1>1, Invariance, PTL

\* No other check has touched a resource before the chain is through with all
\* of them.
THEOREM ChainIsFirst == Spec => []ChainProbesFirst
<1>1. IInv => ChainProbesFirst
  BY ChainBehind DEF IInv, ChainProbesFirst
<1>. QED
  BY <1>1, Invariance, PTL

\* A check that reads another's result gets the one of its own resource, where
\* identifiers tell the resources apart, and gets it whenever there is one.
THEOREM ReadersReadTheirOwn == Spec => []ReadsOwnResult
<1>1. IInv => ReadsOwnResult
  <2>. SUFFICES ASSUME IInv, NEW check \in Readers \cap Selected, NEW r \in Resources,
                       \A other \in Resources \ {r} : Id[other] # Id[r],
                       run[<<check, r>>] \in {"done", "skipped"}
                PROVE  source[<<check, r>>] = IF run[<<ReadsFrom(check), r>>] = "done" THEN {r} ELSE {}
    BY DEF ReadsOwnResult, Ended
  <2>1. Found(check, r) = IF run[<<ReadsFrom(check), r>>] = "done" THEN {r} ELSE {}
    <3>1. Found(check, r) = {owner \in Resources : /\ Id[owner] = Id[r]
                                                   /\ run[<<ReadsFrom(check), owner>>] = "done"}
      BY SelectedReads DEF IInv, ResultsMatch, Found
    <3>. QED
      BY <3>1
  <2>2. SourceMatches(check, r)
    BY DEF IInv, SourcesMatch
  <2>. QED
    BY <2>1, <2>2 DEF SourceMatches
<1>. QED
  BY <1>1, Invariance, PTL

\* A verdict on an authenticated or session response is skipped only where the
\* analysis it needs failed, even where resources share an identifier.
THEOREM SkipsAreDue == Spec => []SkippedOnlyWithoutAnalysis
<1>1. IInv => SkippedOnlyWithoutAnalysis
  <2>. SUFFICES ASSUME IInv, NEW check \in SkipWithoutResult \cap Selected, NEW r \in Resources,
                       run[<<check, r>>] = "skipped"
                PROVE  run[<<"cacheability", r>>] = "failed"
    BY DEF SkippedOnlyWithoutAnalysis
  <2>1. check \in Readers \cap Selected /\ ReadsFrom(check) = "cacheability"
    BY DEF SkipWithoutResult, Readers, AfterCacheability, ReadsFrom
  <2>2. "cacheability" \in Selected /\ "cacheability" \in DependsOn(check)
    BY <2>1, SelectedReads, Dependencies
  <2>3. run[<<"cacheability", r>>] \in Ended
    BY <2>2 DEF IInv, StartedInOrder, Ready, Over
  <2>4. run[<<"cacheability", r>>] # "done"
    <3>1. results[<<"cacheability", Id[r]>>] = {}
      BY <2>1 DEF IInv, SkipsMatch, Found
    <3>2. results[<<"cacheability", Id[r]>>] =
              {owner \in Resources : Id[owner] = Id[r] /\ run[<<"cacheability", owner>>] = "done"}
      BY <2>2 DEF IInv, ResultsMatch
    <3>. QED
      BY <3>1, <3>2
  <2>5. run[<<"cacheability", r>>] # "skipped"
    BY <2>2 DEF IInv, SkipsMatch, SkipWithoutResult
  <2>. QED
    BY <2>3, <2>4, <2>5 DEF Ended
<1>. QED
  BY <1>1, Invariance, PTL
=============================================================================
