----------------------------- MODULE CacheStatus -----------------------------
(***************************************************************************)
(* How a response's headers are read for its cache status: by the header   *)
(* of the CDN its Server or Via names, by any header of the registry, and  *)
(* by generic conventions. A header's value is a sequence of words, one for *)
(* every cache tier the response went through.                             *)
(***************************************************************************)
EXTENDS Naturals, Sequences

CONSTANT Registry  \* a sequence of [header, values, marks]

CacheStates == {"HIT", "MISS", "STALE", "EXPIRED", "BYPASS", "DYNAMIC"}

\* A header whose values include plain hits includes plain misses, and all mean
\* what they say.
ASSUME RegistryAssumption ==
    /\ DOMAIN Registry \subseteq Nat
    /\ \A i \in DOMAIN Registry :
          LET values == Registry[i].values
          IN  /\ \A word \in DOMAIN values : values[word] \in CacheStates
              /\ "hit" \in DOMAIN values => values["hit"] = "HIT"
              /\ "miss" \in DOMAIN values => values["miss"] = "MISS"
              /\ "stale" \in DOMAIN values => values["stale"] = "STALE"
              /\ "hit" \in DOMAIN values <=> "miss" \in DOMAIN values

Leftmost(indices) == CHOOSE i \in indices : \A j \in indices : i <= j

\* The table is matched by prefix: the first word decides.
Normalize(signature, words) ==
    IF words[1] \in DOMAIN signature.values THEN signature.values[words[1]] ELSE "unknown"

\* The generic reading is by what the value contains, in this order.
Contained == << <<"hit", "HIT">>, <<"stale", "STALE">>, <<"expired", "EXPIRED">>,
                <<"bypass", "BYPASS">>, <<"pass", "BYPASS">>, <<"miss", "MISS">> >>

GenericState(words) ==
    LET found == {i \in DOMAIN Contained : \E j \in DOMAIN words : words[j] = Contained[i][1]}
    IN  IF found = {} THEN "unknown" ELSE Contained[Leftmost(found)][2]

\* headers: [marks |-> what Server and Via name, fields |-> words by header].
Marked(headers) == {i \in DOMAIN Registry : Registry[i].marks \cap headers.marks # {}}

Told(headers, i) ==
    IF Registry[i].header \in DOMAIN headers.fields
    THEN Normalize(Registry[i], headers.fields[Registry[i].header]) ELSE "unknown"

Detect(headers) ==
    LET marked == Marked(headers)
        telling == {i \in DOMAIN Registry : Told(headers, i) # "unknown"}
    IN  IF marked # {} /\ Leftmost(marked) \in telling THEN Told(headers, Leftmost(marked))
        ELSE IF telling # {} THEN Told(headers, Leftmost(telling))
        ELSE IF "Server-Timing" \in DOMAIN headers.fields THEN GenericState(headers.fields["Server-Timing"])
        ELSE IF "X-Cache" \in DOMAIN headers.fields THEN GenericState(headers.fields["X-Cache"])
        ELSE "unknown"
=============================================================================
