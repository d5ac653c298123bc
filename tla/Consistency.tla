----------------------------- MODULE Consistency -----------------------------
(***************************************************************************)
(* The consistency check: the response once more, then on the condition    *)
(* that it is not the one just seen, then for its ETag.                    *)
(***************************************************************************)
EXTENDS Analysis

VARIABLE consistency

Idle == [pc |-> "base", base |-> NoAnswer, findings |-> {}]
Init == consistency \in {Idle, [Idle EXCEPT !.pc = "off"]}

Due == consistency.pc \in {"conditional", "again"}
At(pc) == consistency.pc = pc

Redirects == {301, 302, 303, 307, 308}

\* A redirect without a lifetime, as the analysis saw it.
HeuristicRedirect ==
    /\ setup.response.status \in Redirects
    /\ Known /\ Cacheable(analysis.response) /\ ~Explicit(analysis.response)

BaseRequest ==
    /\ Analysed /\ At("base")
    /\ \/ \E outcome \in Possible :
             LET base == outcome.answer
             IN  /\ Comes(outcome)
                 /\ consistency' =
                        [pc |-> IF base.good /\ setup.response.validators # {} THEN "conditional" ELSE "done",
                         base |-> base,
                         findings |-> IF base.good /\ HeuristicRedirect THEN {"redirect"} ELSE {}]
       \/ Lost /\ consistency' = [consistency EXCEPT !.pc = "done"]
    /\ UNCHANGED analysis

Found(finding, condition) ==
    IF condition THEN [consistency EXCEPT !.findings = @ \cup {finding}] ELSE consistency

HasETag == "etag" \in setup.response.validators
Matches(answer) ==
    /\ answer.good /\ answer.version = consistency.base.version
    /\ HasETag => answer.tag = consistency.base.tag
NotModified(answer) == Does("answers-304") /\ Matches(answer)

ConditionalRequest ==
    LET then(state) == [state EXCEPT !.pc = IF HasETag THEN "again" ELSE "done"]
    IN  /\ At("conditional")
        /\ \/ \E outcome \in Possible :
                 /\ Comes(outcome)
                 /\ consistency' = then(Found("not-honored", ~NotModified(outcome.answer)))
           \/ Lost /\ consistency' = then(consistency)
        /\ UNCHANGED analysis

UnstableWhateverBody(answer) ==  \* mutant
    <<answer.version, answer.tag>> # <<consistency.base.version, consistency.base.tag>>
Unstable(answer) == SameBody(answer, consistency.base) /\ answer.tag # consistency.base.tag

AgainRequest ==
    LET then(state) == [state EXCEPT !.pc = "done"]
    IN  /\ At("again")
        /\ \/ \E outcome \in Possible :
                 /\ Comes(outcome)
                 /\ consistency' = then(Found("unstable", Unstable(outcome.answer)))
           \/ Lost /\ consistency' = then(consistency)
        /\ UNCHANGED analysis

Next == BaseRequest \/ ConditionalRequest \/ AgainRequest
=============================================================================
