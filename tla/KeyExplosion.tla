---------------------------- MODULE KeyExplosion ----------------------------
(***************************************************************************)
(* The key-explosion check: as many distinct values of one parameter as a  *)
(* capped cache would hardly keep, each of which must be a MISS, and then  *)
(* the first one again, which must be a HIT.                               *)
(***************************************************************************)
EXTENDS Target

CONSTANT Probes  \* keyExplosionProbes

VARIABLE explode  \* the progress of the check

Fresh(budget) == [pc |-> "value", next |-> 1, budget |-> budget, found |-> FALSE]

Init(budget) == explode \in {Fresh(budget), [Fresh(0) EXCEPT !.pc = "off"]}

At(pc) == explode.pc = pc
Ended == [explode EXCEPT !.pc = "done"]

Affordable == explode.budget >= Probes + 1

Unaffordable ==
    /\ At("value") /\ ~Affordable
    /\ explode' = Ended
    /\ UNCHANGED environment

Varied(n) == [Request EXCEPT !.value = n]

CountsAny(state) == TRUE  \* mutant
Counts(state) == state = "MISS"

\* Anything but a MISS, and any failure, ends the check.
ValueRequest ==
    LET value == Varied(explode.next)
        counted == IF explode.next < Probes THEN [explode EXCEPT !.next = @ + 1]
                   ELSE [explode EXCEPT !.pc = "repeat"]
    IN  /\ At("value") /\ Affordable
        /\ \/ Ask(value) /\ explode' = IF Counts(State(value)) THEN counted ELSE Ended
           \/ Lose(value) /\ explode' \in {explode, Ended}

Repeated == Varied(1)

RepeatRequest ==
    /\ At("repeat")
    /\ \/ Ask(Repeated) /\ explode' = [Ended EXCEPT !.found = State(Repeated) = "HIT"]
       \/ Lose(Repeated) /\ explode' \in {explode, Ended}

Next == Unaffordable \/ ValueRequest \/ RepeatRequest
=============================================================================
