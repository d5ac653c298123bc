------------------------------ MODULE LiveState ------------------------------
(***************************************************************************)
(* The live-state check: a number of samples at an interval, counted by    *)
(* cache status and compared with what the analysis says of cacheability.  *)
(***************************************************************************)
EXTENDS Analysis

VARIABLE live

Idle == [pc |-> "sample", taken |-> 0, hits |-> 0, misses |-> 0, told |-> FALSE, due |-> 0, findings |-> {}]
Init == live \in {Idle, [Idle EXCEPT !.pc = "off"]}

Running == live.pc = "sample" /\ live.taken > 0
Due == Running /\ live.due <= clock

VerdictsDespiteStale(counts) ==  \* mutant
    LET cacheable == Cacheable(analysis.response)
    IN  IF ~Known THEN {}
        ELSE IF cacheable /\ counts.told /\ counts.misses > 0 THEN {"not-cached"}
        ELSE IF ~cacheable /\ counts.hits > 0
        THEN {IF HeuristicallyCached(analysis.response) THEN "status-cached" ELSE "uncacheable-cached"}
        ELSE {}
Verdicts(counts) ==
    LET cacheable == Cacheable(analysis.response)
    IN  IF ~Known THEN {}
        ELSE IF cacheable /\ counts.told /\ counts.hits = 0 /\ counts.misses > 0 THEN {"not-cached"}
        ELSE IF ~cacheable /\ counts.hits > 0
        THEN {IF HeuristicallyCached(analysis.response) THEN "status-cached" ELSE "uncacheable-cached"}
        ELSE {}

Counted(state) ==
    [live EXCEPT !.taken = @ + 1, !.due = clock + setup.interval, !.told = @ \/ state # "unknown",
                 !.hits = IF state = "HIT" THEN @ + 1 ELSE @,
                 !.misses = IF state = "MISS" THEN @ + 1 ELSE @]

\* A sample that gets no answer is the end of the check.
Sample ==
    /\ Analysed /\ live.pc = "sample" /\ live.due <= clock
    /\ \/ \E outcome \in Possible :
             LET counts == Counted(outcome.answer.state)
             IN  /\ Comes(outcome)
                 /\ live' = IF counts.taken < setup.samples THEN counts
                            ELSE [counts EXCEPT !.pc = "done", !.findings = Verdicts(counts)]
       \/ Lost /\ live' = [live EXCEPT !.pc = "done"]
    /\ UNCHANGED analysis
=============================================================================
