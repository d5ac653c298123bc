---------------------------- MODULE Entanglement ----------------------------
(***************************************************************************)
(* The entanglement check: GET requests with a body, then parameters       *)
(* cloaked behind a ";". Each attempt is a poison request and, if the      *)
(* marker came back, a confirm request under the same cache-buster; the    *)
(* two are paid for one by one, and a technique ends at its first finding. *)
(***************************************************************************)
EXTENDS Target

CONSTANT IsGet  \* ProbeCtx.Method is GET

VARIABLE entangle  \* the progress of the check

Techniques == <<FatBodies, Cloaked>>

Fresh(budget) == [pc |-> "pick", technique |-> IF IsGet THEN 1 ELSE 2, next |-> 1,
                  budget |-> budget, token |-> 0, findings |-> {}]

Init(budget) == entangle \in {Fresh(budget), [Fresh(0) EXCEPT !.pc = "off"]}

At(pc) == entangle.pc = pc
Listed == Techniques[entangle.technique]
Current == Listed[entangle.next]

NextAttempt(state) == [state EXCEPT !.pc = "pick", !.next = @ + 1]

DoneAfterTechnique(state) == [state EXCEPT !.pc = "done"]  \* mutant
NextTechnique(state) ==
    IF state.technique < Len(Techniques)
    THEN [state EXCEPT !.pc = "pick", !.technique = @ + 1, !.next = 1]
    ELSE [state EXCEPT !.pc = "done"]

TechniqueOver ==
    /\ At("pick") /\ (entangle.budget < 1 \/ entangle.next > Len(Listed))
    /\ entangle' = NextTechnique(entangle)
    /\ UNCHANGED environment

\* A buster of its own per attempt; making one may fail, at no price.
Attempt ==
    /\ At("pick") /\ entangle.budget >= 1 /\ entangle.next <= Len(Listed)
    /\ \/ entangle' = [entangle EXCEPT !.pc = "poison", !.token = @ + 1] /\ UNCHANGED environment
       \/ Fault /\ entangle' = NextAttempt(entangle) /\ UNCHANGED <<site, store, content>>

PoisonUnbusted == [Request EXCEPT !.extra = Current]  \* mutant
Poison == [Busted("entangle", entangle.token) EXCEPT !.extra = Current]

ConfirmCarries == Poison  \* mutant
Confirm == Busted("entangle", entangle.token)

Paid == [entangle EXCEPT !.budget = @ - 1]
Reflected(request) == Body(request).shows \in Hidden

PoisonRequest ==
    /\ At("poison")
    /\ \/ /\ Ask(Poison)
          /\ entangle' = IF ~Reflected(Poison) THEN NextAttempt(Paid)
                         ELSE IF Paid.budget < 1 THEN NextTechnique(Paid)
                         ELSE [Paid EXCEPT !.pc = "confirm"]
       \/ Lose(Poison) /\ entangle' \in {entangle, NextAttempt(Paid)}

ConfirmRequest ==
    /\ At("confirm")
    /\ \/ /\ Ask(Confirm)
          /\ entangle' = IF ~Reflected(Confirm) THEN NextAttempt(Paid)
                         ELSE NextTechnique([Paid EXCEPT !.findings = @ \cup {Current}])
       \/ Lose(Confirm) /\ entangle' \in {entangle, NextAttempt(Paid)}

Next == TechniqueOver \/ Attempt \/ PoisonRequest \/ ConfirmRequest
=============================================================================
