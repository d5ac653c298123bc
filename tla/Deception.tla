------------------------------ MODULE Deception ------------------------------
(***************************************************************************)
(* The middle of the poison chain: cache deception, error caching and      *)
(* response splitting, one after the other, each judging single responses. *)
(* The engine runs nothing else meanwhile.                                 *)
(***************************************************************************)
EXTENDS Target

VARIABLE deception  \* the progress of the three checks

Fresh(budget) == [pc |-> "base", next |-> 1, budget |-> budget, base |-> Missing,
                  suffixes |-> {}, cachesErrors |-> FALSE, splits |-> FALSE]

Init(budget) == deception \in {Fresh(budget), [Fresh(0) EXCEPT !.pc = "off"]}

Over == deception.pc \in {"off", "done"}
At(pc) == deception.pc = pc

\* The resource itself, without a cache-buster.
BaseRequest ==
    /\ At("base")
    /\ \/ Ask(Request) /\ deception' = [deception EXCEPT !.pc = "suffix", !.base = Body(Request)]
       \/ Lose(Request) /\ deception' \in {deception, [deception EXCEPT !.pc = "error"]}

Suffixed(n) == [Request EXCEPT !.way = <<"suffix", n>>]

\* The same response under a suffix, cacheable by its headers, is a finding;
\* every suffix costs one request, and a failed one is passed over.
Deceives(body) == body = deception.base /\ site.declares

SuffixRequest ==
    LET n == deception.next
        tried == [deception EXCEPT !.next = n + 1, !.budget = @ - 1]
    IN  /\ At("suffix") /\ n <= Len(Suffixes) /\ deception.budget > 0
        /\ \/ /\ Ask(Suffixed(n))
              /\ deception' = IF Deceives(Body(Suffixed(n)))
                              THEN [tried EXCEPT !.suffixes = @ \cup {n}] ELSE tried
           \/ Lose(Suffixed(n)) /\ deception' \in {deception, tried}

SuffixesTried ==
    /\ At("suffix") /\ (deception.next > Len(Suffixes) \/ deception.budget = 0)
    /\ deception' = [deception EXCEPT !.pc = "error"]
    /\ UNCHANGED environment

\* An unsatisfiable range, under a buster: an error whose headers allow caching.
RangeProbe == [Busted("error", 1) EXCEPT !.extra = "range"]

ErrorRequest ==
    /\ At("error")
    /\ \/ /\ Ask(RangeProbe)
          /\ deception' = [deception EXCEPT !.pc = "split",
                                            !.cachesErrors = ~Ok(Body(RangeProbe)) /\ site.declares]
       \/ Lose(RangeProbe) /\ deception' \in {deception, [deception EXCEPT !.pc = "split"]}

\* An encoded line break, under a buster and in a query parameter of its own.
SplitProbe == [Busted("split", 1) EXCEPT !.extra = "split"]

SplitRequest ==
    /\ At("split")
    /\ \/ /\ Ask(SplitProbe)
          /\ deception' = [deception EXCEPT !.pc = "done", !.splits = Body(SplitProbe).shows = "split"]
       \/ Lose(SplitProbe) /\ deception' \in {deception, [deception EXCEPT !.pc = "done"]}

Next == BaseRequest \/ SuffixRequest \/ SuffixesTried \/ ErrorRequest \/ SplitRequest
=============================================================================
