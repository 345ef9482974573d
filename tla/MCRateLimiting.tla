---------------------------- MODULE MCRateLimiting ----------------------------
(* Two processes that share a Redis, the first with two goroutines; two    *)
(* goroutines that share a local limiter.                                  *)
EXTENDS RateLimiting, TLC

CONSTANTS p1, p2, g1, g2, g3

MCProcOf == [g \in Callers |-> IF g = g3 THEN p2 ELSE p1]

\* The second process's clock is a tick ahead.
MCSkew == [p \in Procs |-> IF p = p1 THEN 0 ELSE 1]

\* Both processes started at the same time.
MCCounts == [p \in Procs |-> 0]

GoroutineSymmetry == Permutations({g1, g2})
=============================================================================
