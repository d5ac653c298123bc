---------------------------- MODULE Normalization ----------------------------
(***************************************************************************)
(* The normalization-deception check: does a detour through a static       *)
(* directory serve the resource, and does the cache store it there? The    *)
(* detours are compared with a baseline and told apart from loose routing  *)
(* by a control; none of its requests carries a cache-buster.              *)
(***************************************************************************)
EXTENDS Target

VARIABLE normalize  \* the progress of the check

Fresh(budget) == [pc |-> "base", prefix |-> 1, form |-> 1, budget |-> budget,
                  base |-> Missing, found |-> {}, high |-> {}]

Init(budget) == normalize \in {Fresh(budget), [Fresh(0) EXCEPT !.pc = "off"]}

At(pc) == normalize.pc = pc
Paid == [normalize EXCEPT !.budget = @ - 1]
Ended == [normalize EXCEPT !.pc = "done"]
Form == Forms[normalize.form]

TooFew ==
    /\ At("base") /\ normalize.budget < 3
    /\ normalize' = Ended
    /\ UNCHANGED environment

\* Nothing to deceive a cache into storing: no 2xx, or cached already.
WorthDeceiving(reply) == Ok(reply.body) /\ reply.state # "HIT"

BaseRequest ==
    /\ At("base") /\ normalize.budget >= 3
    /\ \/ /\ Ask(Request)
          /\ normalize' = IF WorthDeceiving(Reply(Request))
                          THEN [Paid EXCEPT !.pc = "control", !.base = Body(Request)] ELSE Ended
       \/ Lose(Request) /\ normalize' \in {normalize, Ended}

Control == [Request EXCEPT !.way = Beside]

\* Under the static directory without a traversal: loose routing ends it.
IgnoreControl(body) == FALSE  \* mutant
RoutedLoosely(body) == body = normalize.base

ControlRequest ==
    /\ At("control")
    /\ \/ /\ Ask(Control)
          /\ normalize' = IF RoutedLoosely(Body(Control)) THEN Ended ELSE [Paid EXCEPT !.pc = "sweep"]
       \/ Lose(Control) /\ normalize' \in {normalize, Ended}

NextDetour(state) ==
    IF state.form < Len(Forms) THEN [state EXCEPT !.pc = "sweep", !.form = @ + 1]
    ELSE IF state.prefix < Prefixes THEN [state EXCEPT !.pc = "sweep", !.prefix = @ + 1, !.form = 1]
    ELSE [state EXCEPT !.pc = "done"]

OutOfBudget ==
    /\ At("sweep") /\ normalize.budget = 0
    /\ normalize' = Ended
    /\ UNCHANGED environment

SkipFound ==
    /\ At("sweep") /\ normalize.budget > 0 /\ Form \in normalize.found
    /\ normalize' = NextDetour(normalize)
    /\ UNCHANGED environment

Detour == [Request EXCEPT !.way = <<Form, normalize.prefix>>]

\* The resource itself, cacheable by its headers: a finding, and a repeat
\* request if the budget has one left.
DetourRequest ==
    LET found == [Paid EXCEPT !.found = @ \cup {Form}]
    IN  /\ At("sweep") /\ normalize.budget > 0 /\ Form \notin normalize.found
        /\ \/ /\ Ask(Detour)
              /\ normalize' = IF ~(Body(Detour) = normalize.base /\ site.declares) THEN NextDetour(Paid)
                              ELSE IF found.budget > 0 THEN [found EXCEPT !.pc = "repeat"]
                              ELSE NextDetour(found)
           \/ Lose(Detour) /\ normalize' \in {normalize, NextDetour(Paid)}

\* A HIT on the repeat shows that the cache stored the detour.
RepeatRequest ==
    /\ At("repeat")
    /\ \/ /\ Ask(Detour)
          /\ normalize' = NextDetour([Paid EXCEPT !.high = IF State(Detour) = "HIT" THEN @ \cup {Form} ELSE @])
       \/ Lose(Detour) /\ normalize' \in {normalize, NextDetour(Paid)}

Next == TooFew \/ BaseRequest \/ ControlRequest \/ OutOfBudget \/ SkipFound \/ DetourRequest \/ RepeatRequest
=============================================================================
