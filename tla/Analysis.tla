------------------------------ MODULE Analysis ------------------------------
(***************************************************************************)
(* The cacheability check: one request, whose answer the later checks read *)
(* from the result store instead of asking again.                          *)
(***************************************************************************)
EXTENDS Edge

VARIABLE analysis  \* the check's result

\* What an origin in trouble sends: a status without any caching semantics.
ErrorResponse == [method |-> setup.response.method, status |-> 500, directives |-> {}, seconds |-> [d \in {} |-> 0],
                  validators |-> {}, cookies |-> {}, body |-> {}]

Pending == [pc |-> "due", response |-> ErrorResponse, at |-> 0]

Analyze ==
    /\ analysis.pc = "due"
    /\ \/ \E outcome \in Possible :
             /\ Comes(outcome)
             /\ analysis' = [pc |-> "known", at |-> outcome.answer.at,
                             response |-> IF outcome.answer.good THEN setup.response ELSE ErrorResponse]
       \/ Lost /\ analysis' = [analysis EXCEPT !.pc = "missing"]

Analysed == analysis.pc # "due"
Known == analysis.pc = "known"
Authenticated == IsAuthenticated(setup.caller)

\* The two checks that make no request of their own.
AuthFinding == Known /\ AuthViolation(analysis.response, Authenticated)
SessionFinding == Known /\ SessionViolation(analysis.response, Authenticated)
=============================================================================
