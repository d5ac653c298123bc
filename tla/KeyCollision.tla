---------------------------- MODULE KeyCollision ----------------------------
(***************************************************************************)
(* The key-collision check: a random path is requested through a detour    *)
(* and then plainly. If the cache resolves the detour before it keys and   *)
(* the origin does not, the plain request is served the detour's answer.   *)
(***************************************************************************)
EXTENDS Target

CONSTANT Collisions  \* collisionVariants, the spellings tried

VARIABLE collide  \* the progress of the check

Fresh(budget) == [pc |-> "missing", prefix |-> 1, form |-> 1, budget |-> budget, victim |-> 1,
                  missing |-> Missing, poisoned |-> Missing, found |-> FALSE]

Init(budget) == collide \in {Fresh(budget), [Fresh(0) EXCEPT !.pc = "off"]}

At(pc) == collide.pc = pc
Ended == [collide EXCEPT !.pc = "done"]

TooFew ==
    /\ At("missing") /\ collide.budget < 3
    /\ collide' = Ended
    /\ UNCHANGED environment

\* A random path nobody requests: what the origin says of one that is missing.
Stray(n) == [Request EXCEPT !.to = n]

MissingRequest ==
    /\ At("missing") /\ collide.budget >= 3
    /\ \/ /\ Ask(Stray(collide.victim))
          /\ collide' = [collide EXCEPT !.pc = "pick", !.missing = Body(Stray(collide.victim)), !.budget = @ - 1]
       \/ Lose(Stray(collide.victim)) /\ collide' \in {collide, Ended}

AffordsOne == collide.budget >= 1  \* mutant
Affords == collide.budget >= 2

\* Both requests are paid for before the first, under a new victim.
Attempt ==
    /\ At("pick")
    /\ collide' = IF Affords THEN [collide EXCEPT !.pc = "poison", !.budget = @ - 2, !.victim = @ + 1]
                  ELSE Ended
    /\ UNCHANGED environment

NextVariant(state) ==
    IF state.form < Len(Collisions) THEN [state EXCEPT !.pc = "pick", !.form = @ + 1]
    ELSE IF state.prefix < Prefixes THEN [state EXCEPT !.pc = "pick", !.prefix = @ + 1, !.form = 1]
    ELSE [state EXCEPT !.pc = "done"]

Poison == [Stray(collide.victim) EXCEPT !.way = <<Collisions[collide.form], collide.prefix>>]

Poisons(body) == Ok(body) /\ body # collide.missing

PoisonRequest ==
    /\ At("poison")
    /\ \/ /\ Ask(Poison)
          /\ collide' = IF Poisons(Body(Poison)) THEN [collide EXCEPT !.pc = "confirm", !.poisoned = Body(Poison)]
                        ELSE NextVariant(collide)
       \/ Lose(Poison) /\ collide' \in {collide, NextVariant(collide)}

Confirm == Stray(collide.victim)

ConfirmRequest ==
    /\ At("confirm")
    /\ \/ /\ Ask(Confirm)
          /\ collide' = IF Body(Confirm) = collide.poisoned THEN [Ended EXCEPT !.found = TRUE]
                        ELSE NextVariant(collide)
       \/ Lose(Confirm) /\ collide' \in {collide, NextVariant(collide)}

Next == TooFew \/ MissingRequest \/ Attempt \/ PoisonRequest \/ ConfirmRequest
=============================================================================
