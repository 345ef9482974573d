----------------------------- MODULE RateLimiting -----------------------------
(***************************************************************************)
(* The limiter a worker uses: initRateLimiter chooses one of three at      *)
(* startup and the worker never changes it (internal/app/worker.go,        *)
(* internal/resilience/interfaces.go).  Redis that fails later makes the   *)
(* distributed limiter refuse; it is never replaced by the local one.      *)
(***************************************************************************)
EXTENDS RedisRateLimiter, LocalRateLimiter

VARIABLE mode    \* "memory", "failClosed" or "redis"

limitingVars == <<mode, vars, localVars>>

\* REDIS_URL is empty, does not parse, or does.
LimitingInit ==
    /\ mode \in {"memory", "failClosed", "redis"}
    /\ Init
    /\ LocalInit

\* FailClosedRateLimiter refuses every call and keeps no state.
LimitingNext ==
    /\ UNCHANGED mode
    /\ \/ mode = "redis" /\ Next /\ UNCHANGED localVars
       \/ mode = "memory" /\ LocalNext /\ UNCHANGED vars

LimitingSpec == LimitingInit /\ [][LimitingNext]_limitingVars
=============================================================================
