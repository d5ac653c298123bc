-------------------------- MODULE MCUnkeyedMining --------------------------
EXTENDS UnkeyedMining, TLC

CONSTANTS host
MCNames == {host}

\* Three inputs, one more than the budget of five requests pays for; the
\* bundled list of headers repeats a name, and the caller's repeats it again.
MCWordlist == ("header" :> <<host, host>>) @@ ("cookie" :> <<host>>) @@ ("query parameter" :> <<>>)
MCExtra == <<host>>

\* A buster that travels both ways, which the cache keys in one, both or none.
MCInit ==
    /\ mode = "both"
    /\ Init

MCSpec == MCInit /\ [][Next]_vars /\ WF_vars(Miner)
=============================================================================
