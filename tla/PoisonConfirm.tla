--------------------------- MODULE PoisonConfirm ---------------------------
(***************************************************************************)
(* What a poison/confirm check promises, whatever it injects and in which  *)
(* order: it judges each input at most once and no more of them than its   *)
(* allowance, it comes to an end, it calls an input vulnerable only when   *)
(* it is (for the inputs it can be trusted on), and while its requests     *)
(* are isolated the entry real users are served stays clean.               *)
(***************************************************************************)
EXTENDS Naturals, FiniteSets

CONSTANTS
    Inputs,     \* what can be injected
    Allowance   \* how many inputs may be judged

VARIABLES
    vulnerable, \* the inputs that do poison the cache, fixed
    trusted,    \* the inputs the check's verdict can be trusted on, fixed
    isolated,   \* whether probing requests have cache entries of their own, fixed
    verdict,    \* the verdict on each input
    plain,      \* the entry real users are served
    over        \* the check has ended

vars == <<vulnerable, trusted, isolated, verdict, plain, over>>

Judged == {input \in Inputs : verdict[input] # "untested"}

Verdicts(input) ==
    IF input \in trusted \ vulnerable THEN {"clean"} ELSE {"clean", "vulnerable"}

Plains == IF isolated THEN {"absent", "clean"} ELSE {"absent", "clean", "poisoned"}

Init ==
    /\ vulnerable \in SUBSET Inputs
    /\ trusted \in SUBSET Inputs
    /\ isolated \in BOOLEAN
    /\ verdict = [input \in Inputs |-> "untested"]
    /\ plain = "absent"
    /\ over = FALSE

\* One input is judged; without isolation its requests may also be served
\* from, and stored in, the entry real users share.
Judge(input) ==
    /\ ~over
    /\ verdict[input] = "untested"
    /\ Cardinality(Judged) < Allowance
    /\ \E v \in Verdicts(input) : verdict' = [verdict EXCEPT ![input] = v]
    /\ plain' \in IF isolated THEN {plain} ELSE Plains
    /\ over' \in BOOLEAN
    /\ UNCHANGED <<vulnerable, trusted, isolated>>

Stop ==
    /\ ~over
    /\ over' = TRUE
    /\ UNCHANGED <<vulnerable, trusted, isolated, verdict, plain>>

\* The entry real users are served is filled or expires.
Serve ==
    /\ plain' \in Plains
    /\ UNCHANGED <<vulnerable, trusted, isolated, verdict, over>>

Check == Stop \/ \E input \in Inputs : Judge(input)

Next == Check \/ Serve

Spec == Init /\ [][Next]_vars /\ WF_vars(Check)
=============================================================================
