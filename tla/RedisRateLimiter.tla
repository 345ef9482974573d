--------------------------- MODULE RedisRateLimiter ---------------------------
(***************************************************************************)
(* The distributed max-delivery-rate limiter of one subscription           *)
(* (internal/resilience/redis_ratelimiter.go).  A goroutine reads its      *)
(* process's clock and counter, then sends the sliding-window script to    *)
(* Redis, which runs it atomically some time later.  The sorted set is a   *)
(* function from member to score; a member is the pair of the time stamp   *)
(* and the counter, which is all that its text tells apart.                *)
(***************************************************************************)
EXTENDS Integers, FiniteSets

CONSTANTS
    Procs,      \* worker processes
    Callers,    \* goroutines that deliver to the subscription
    ProcOf,     \* the process of each goroutine
    Offset,     \* how far each process's clock is ahead
    FirstCount, \* the counter of each process, advanced by other subscriptions
    Window, Limit,
    MaxDelay,   \* ticks between reading the clock and running the script
    MaxSkew,    \* how far two processes' clocks may be apart
    MaxNow, MaxCalls \* bounds

ASSUME RedisAssumption ==
    /\ ProcOf \in [Callers -> Procs]
    /\ Offset \in [Procs -> Nat] /\ FirstCount \in [Procs -> Nat]
    /\ \A p, q \in Procs : Offset[p] - Offset[q] <= MaxSkew
    /\ {Window, Limit, MaxDelay, MaxSkew, MaxNow, MaxCalls} \subseteq Nat

VARIABLES
    now,        \* the clock of the Redis server
    zset,       \* the sorted set: member -> score
    expireAt,   \* when the key expires
    counter,    \* RedisRateLimiter.counter of each process
    request,    \* what each goroutine has sent, or NoRequest
    granted     \* <<instant, member>> of the calls allowed whose member was new

vars == <<now, zset, expireAt, counter, request, granted>>

Members == Nat \X Nat

NoRequest == [sentAt |-> -1, stamp |-> 0, member |-> <<0, 0>>]

Requests == [sentAt : 0..MaxNow, stamp : Nat, member : Members]

\* The set's members and scores are those some goroutine sent.
TypeOK ==
    /\ now \in 0..MaxNow
    /\ DOMAIN zset \subseteq Members
    /\ \A m \in DOMAIN zset : zset[m] = m[1]
    /\ expireAt \in 0..(MaxNow + Window)
    /\ counter \in [Procs -> Nat]
    /\ request \in [Callers -> Requests \cup {NoRequest}]
    /\ granted \subseteq (0..MaxNow) \X Members

EmptySet == [m \in {} |-> 0]

Init ==
    /\ now = 0
    /\ zset = EmptySet
    /\ expireAt = 0
    /\ counter = FirstCount
    /\ request = [g \in Callers |-> NoRequest]
    /\ granted = {}

-----------------------------------------------------------------------------
\* Allow, up to the script: the clock is read and the counter incremented.
Allow(g) ==
    LET p     == ProcOf[g]
        stamp == now + Offset[p]
    IN  /\ request[g] = NoRequest
        /\ counter[p] < FirstCount[p] + MaxCalls
        /\ counter' = [counter EXCEPT ![p] = @ + 1]
        /\ request' = [request EXCEPT ![g] =
                         [sentAt |-> now, stamp |-> stamp, member |-> <<stamp, counter[p] + 1>>]]
        /\ UNCHANGED <<now, zset, expireAt, granted>>

\* The set as the script finds it: nothing after the key expired.
Stored == IF now < expireAt THEN zset ELSE EmptySet

\* Faulty variant: the tick on the edge of the window is evicted as well.
LiveShortWindow(stamp) ==
    [m \in {x \in DOMAIN Stored : Stored[x] > stamp - Window + 1} |-> Stored[m]]

\* ZREMRANGEBYSCORE key 0 now-window.
Live(stamp) == [m \in {x \in DOMAIN Stored : Stored[x] > stamp - Window} |-> Stored[m]]

\* ZCARD against the limit.
BelowLimit(live) == Cardinality(DOMAIN live) < Limit

\* Faulty variant: scored with the time of arrival.
AddAtArrival(live, r) ==
    [m \in DOMAIN live \cup {r.member} |-> IF m = r.member THEN now ELSE live[m]]

\* ZADD: a member that is in the set only has its score set.
Add(live, r) ==
    [m \in DOMAIN live \cup {r.member} |-> IF m = r.member THEN r.stamp ELSE live[m]]

\* The script runs.  Its reply may be lost, and the caller then refuses.
RunScript(g, replied) ==
    LET r    == request[g]
        live == Live(r.stamp)
        ok   == BelowLimit(live)
    IN  /\ r # NoRequest
        /\ zset' = IF ok THEN Add(live, r) ELSE live
        /\ expireAt' = now + Window
        /\ granted' = IF ok /\ replied /\ r.member \notin DOMAIN live
                      THEN granted \cup {<<now, r.member>>} ELSE granted
        /\ request' = [request EXCEPT ![g] = NoRequest]
        /\ UNCHANGED <<now, counter>>

\* Redis cannot be reached: the caller is refused and nothing is stored.
FailClosed(g) ==
    /\ request[g] # NoRequest
    /\ request' = [request EXCEPT ![g] = NoRequest]
    /\ UNCHANGED <<now, zset, expireAt, counter, granted>>

\* A request under way is run or refused within MaxDelay ticks.
Tick ==
    /\ now < MaxNow
    /\ \A g \in Callers : request[g] # NoRequest => now < request[g].sentAt + MaxDelay
    /\ now' = now + 1
    /\ UNCHANGED <<zset, expireAt, counter, request, granted>>

Next ==
    \/ \E g \in Callers : Allow(g) \/ FailClosed(g)
    \/ \E g \in Callers, replied \in BOOLEAN : RunScript(g, replied)
    \/ Tick

Spec == Init /\ [][Next]_vars

-----------------------------------------------------------------------------
(* Properties. *)

\* The length of server time over which the limit really holds: delay and
\* skew shorten the configured window.
Guaranteed == Window - MaxDelay - MaxSkew

GrantedUpTo(b) == {x \in granted : b - Guaranteed < x[1] /\ x[1] <= b}

\* Over any stretch of Guaranteed ticks of the server's clock at most Limit
\* calls are allowed, whatever is delayed, lost or stamped by another clock.
\* Not counted, by Redis either, are calls whose member another process made
\* alike and that only replace it: nothing in a member names its process.
WindowRespected == \A b \in 0..MaxNow : Cardinality(GrantedUpTo(b)) <= Limit
=============================================================================
