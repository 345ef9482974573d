--------------------------- MODULE LocalRateLimiter ---------------------------
(***************************************************************************)
(* The in-memory max-delivery-rate limiter of one subscription in one      *)
(* process (RateLimiterManager, internal/resilience/ratelimiter.go).  The  *)
(* consumer and the retry batches call AllowWithPolicy concurrently; each  *)
(* lock or limiter call in it is a step, and time may pass between steps.  *)
(*                                                                         *)
(* The limiter is golang.org/x/time/rate with a burst of 1 (external).     *)
(* Tokens are counted in ticks of the clock: a token is Period ticks of    *)
(* credit.  A subscription's rate never changes once it is stored.         *)
(***************************************************************************)
EXTENDS Integers

CONSTANTS
    Goroutines,
    Period,         \* ticks between two requests at the subscription's rate
    MaxClock, MaxReservations \* bounds

ASSUME LocalAssumption ==
    /\ Period \in Nat \ {0}
    /\ MaxClock \in Nat /\ MaxReservations \in Nat

VARIABLES
    clock,
    limiter,        \* limiters[subscriptionID], or NoLimiter
    call,           \* each goroutine's call of AllowWithPolicy
    reservations,   \* calls of Reserve so far
    passed,         \* how many calls were allowed at each instant
    told            \* from when on a request would be allowed, or Unknown

localVars == <<clock, limiter, call, reservations, passed, told>>

NoLimiter == [credit |-> 0, last |-> -1, lastEvent |-> 0]

Unknown == -1

Idle == [step |-> "idle", timeToAct |-> 0, until |-> 0, sole |-> FALSE]

LocalInit ==
    /\ clock = 0
    /\ limiter = NoLimiter
    /\ call = [g \in Goroutines |-> Idle]
    /\ reservations = 0
    /\ passed = [t \in 0..MaxClock |-> 0]
    /\ told = Unknown

-----------------------------------------------------------------------------
(* rate.Limiter. *)

Least(a, b) == IF a < b THEN a ELSE b

\* advance: what has come in since the last call, up to the burst.
Advanced == Least(Period, limiter.credit + (clock - limiter.last))

\* The time at which a reservation made now may act.
TimeToAct == IF Advanced < Period THEN clock + (Period - Advanced) ELSE clock

\* reserveN takes a token, on credit if need be.
TakeToken == limiter' = [credit |-> Advanced - Period, last |-> clock, lastEvent |-> TimeToAct]

\* Reservation.CancelAt: nothing is given back once the time to act is past,
\* nor what later reservations already count on.
GiveBack(timeToAct) ==
    LET restored == Period - (limiter.lastEvent - timeToAct)
        earlier  == timeToAct - Period
    IN  limiter' =
          IF timeToAct < clock \/ restored <= 0 THEN limiter
          ELSE [credit    |-> Least(Period, Advanced + restored),
                last      |-> clock,
                lastEvent |-> IF timeToAct = limiter.lastEvent /\ earlier >= clock
                              THEN earlier ELSE limiter.lastEvent]

-----------------------------------------------------------------------------
(* AllowWithPolicy. *)

\* Faulty variant: a new limiter on every call.
SetRateAlways(g) ==
    /\ call[g].step = "idle"
    /\ limiter' = [credit |-> Period, last |-> clock, lastEvent |-> 0]
    /\ call' = [call EXCEPT ![g].step = "allow"]
    /\ UNCHANGED <<clock, reservations, passed, told>>

SetRateIfChanged(g) ==
    /\ call[g].step = "idle"
    /\ limiter' = IF limiter = NoLimiter
                  THEN [credit |-> Period, last |-> clock, lastEvent |-> 0]
                  ELSE limiter
    /\ call' = [call EXCEPT ![g].step = "allow"]
    /\ UNCHANGED <<clock, reservations, passed, told>>

\* GetLimiter finds the limiter SetRateIfChanged left.
AllowNow(g) ==
    /\ call[g].step = "allow"
    /\ IF Advanced >= Period
       THEN /\ TakeToken
            /\ passed' = [passed EXCEPT ![clock] = @ + 1]
            /\ call' = [call EXCEPT ![g] = Idle]
            /\ told' = Unknown
       ELSE /\ call' = [call EXCEPT ![g].step = "reserve"]
            /\ UNCHANGED <<limiter, passed, told>>
    /\ UNCHANGED <<clock, reservations>>

Outstanding == {g \in Goroutines : call[g].step \in {"delay", "cancel"}}

\* Wait reserves a token only to learn how long the reservation would take.
Reserve(g) ==
    /\ call[g].step = "reserve"
    /\ reservations < MaxReservations
    /\ reservations' = reservations + 1
    /\ TakeToken
    /\ call' = [h \in Goroutines |->
                  IF h = g THEN [step |-> "delay", timeToAct |-> TimeToAct, until |-> 0,
                                 sole |-> Outstanding = {}]
                  ELSE [call[h] EXCEPT !.sole = FALSE]]
    /\ told' = Unknown
    /\ UNCHANGED <<clock, passed>>

\* The delay the caller is told, as the instant it ends.
Delay(g) ==
    /\ call[g].step = "delay"
    /\ call' = [call EXCEPT ![g].step = "cancel",
                            ![g].until = IF clock < call[g].timeToAct THEN call[g].timeToAct ELSE clock]
    /\ UNCHANGED <<clock, limiter, reservations, passed, told>>

\* Faulty variant: the reservation is kept.
ReturnWithoutCancel(g) ==
    /\ call[g].step = "cancel"
    /\ call' = [call EXCEPT ![g] = Idle]
    /\ told' = IF call[g].sole /\ clock <= call[g].timeToAct THEN call[g].until ELSE told
    /\ UNCHANGED <<clock, limiter, reservations, passed>>

\* Cancel, and the return of Wait and of AllowWithPolicy.
Cancel(g) ==
    /\ call[g].step = "cancel"
    /\ GiveBack(call[g].timeToAct)
    /\ call' = [call EXCEPT ![g] = Idle]
    /\ told' = IF call[g].sole /\ clock <= call[g].timeToAct THEN call[g].until ELSE told
    /\ UNCHANGED <<clock, reservations, passed>>

ClockTicks ==
    /\ clock < MaxClock
    /\ clock' = clock + 1
    /\ UNCHANGED <<limiter, call, reservations, passed, told>>

LocalNext ==
    \/ \E g \in Goroutines :
         SetRateIfChanged(g) \/ AllowNow(g) \/ Reserve(g) \/ Delay(g) \/ Cancel(g)
    \/ ClockTicks

-----------------------------------------------------------------------------
(* Properties. *)

\* However the calls interleave, requests are allowed at least Period ticks
\* apart: the reservations that Wait makes and cancels never add a token.
RateRespected ==
    \A a, b \in 0..MaxClock :
      passed[a] > 0 /\ passed[b] > 0 =>
        IF a = b THEN passed[a] = 1 ELSE a < b => b - a >= Period

\* A refused caller that waits for as long as it was told is let through, if
\* no other call has been allowed or reserved since, none was reserved while
\* its own reservation stood, and it cancelled that in time.
RetryAfterSuffices ==
    told # Unknown /\ clock >= told => limiter # NoLimiter /\ Advanced >= Period
=============================================================================
