---------------------------- MODULE Cacheability ----------------------------
(***************************************************************************)
(* What the cacheability package reads out of one response, and what a     *)
(* request carries. A response is a record of                              *)
(*   method, status                                                        *)
(*   directives   the Cache-Control directives without a value             *)
(*   seconds      the lifetimes and windows given, a function of those that *)
(*                parse: max-age, s-maxage, expires (from the response's   *)
(*                date), stale-while-revalidate, stale-if-error            *)
(*   validators   of "etag" and "modified"                                 *)
(*   cookies      the kinds of cookies set: "session", "other"             *)
(*   body         the sensitive content of the body: "email", "token"      *)
(* A caller is [global, forced, profiled, profile]: credentials given for  *)
(* every origin, --authenticated, and the origin's own profile.            *)
(***************************************************************************)
EXTENDS Integers, FiniteSets

Lifetimes == {"max-age", "s-maxage", "expires"}
Explicit(r) == DOMAIN r.seconds \cap Lifetimes # {}

StatusDefaultCacheable(status) ==
    status \in {200, 203, 204, 206, 300, 301, 308, 404, 405, 410, 414, 501}

MethodCacheableByDefault(method) == method \in {"GET", "HEAD"}
MethodCanBeMadeCacheable(method) == method \in {"GET", "HEAD", "POST"}

Cacheable(r) ==
    /\ "no-store" \notin r.directives
    /\ MethodCanBeMadeCacheable(r.method)
    /\ (MethodCacheableByDefault(r.method) /\ StatusDefaultCacheable(r.status)) \/ Explicit(r)

\* Only the CDN's own guess at a lifetime can explain a HIT.
HeuristicallyCached(r) ==
    /\ r.directives \cap {"no-store", "no-cache", "private"} = {}
    /\ ~Explicit(r) /\ ~StatusDefaultCacheable(r.status)

-----------------------------------------------------------------------------
(* Credentials *)

\* The origin's profile replaces all that is given globally.
Carried(caller) == IF caller.profiled THEN caller.profile ELSE caller.global

Credentials == {"bearer", "cookie"}

IsAuthenticatedByGlobal(caller) == caller.forced \/ caller.global \cap Credentials # {}  \* mutant
IsAuthenticated(caller) ==
    \/ caller.forced \/ caller.global \cap Credentials # {}
    \/ caller.profiled /\ caller.profile \cap Credentials # {}

AuthViolation(r, authenticated) ==
    /\ authenticated /\ Cacheable(r)
    /\ r.directives \cap {"private", "no-store", "must-revalidate", "public"} = {}
    /\ "s-maxage" \notin DOMAIN r.seconds

DetectSensitiveData(body, cookies) == body \cup {"cookie" : kind \in cookies}

AuthSeverity(r) == IF DetectSensitiveData(r.body, r.cookies) = {} THEN "high" ELSE "critical"

\* Reported only where the authenticated finding does not report it.
SessionViolation(r, authenticated) ==
    /\ Cacheable(r) /\ r.cookies # {}
    /\ r.directives \cap {"private", "no-store"} = {}
    /\ ~AuthViolation(r, authenticated)

SessionSeverity(r) ==
    IF DetectSensitiveData(r.body, {}) \ {"email"} # {} THEN "critical"
    ELSE IF "session" \in r.cookies THEN "high" ELSE "medium"

-----------------------------------------------------------------------------
(* Freshness *)

\* In units of which a second has `second`, given when the response that was
\* analysed expires and when the one at hand was made; 0 when unknown.
FreshnessLifetime(r, second, expires, date) ==
    IF "s-maxage" \in DOMAIN r.seconds THEN second * r.seconds["s-maxage"]
    ELSE IF "max-age" \in DOMAIN r.seconds THEN second * r.seconds["max-age"]
    ELSE IF "expires" \in DOMAIN r.seconds /\ expires > date THEN expires - date
    ELSE 0
=============================================================================
