------------------------------- MODULE Domain -------------------------------
(***************************************************************************)
(* Delivery rows and the pure operations on them: the state transitions of *)
(* internal/domain/delivery.go, the classification of an HTTP exchange in  *)
(* internal/kafka/{delivery,webhook,handler}.go, the event projection and  *)
(* the event-type filters of internal/domain/subscription.go.              *)
(* Frozen snapshot columns (URL, secret, payload, rate), error texts and   *)
(* the created/updated/delivered timestamps are left out.                  *)
(***************************************************************************)
EXTENDS Integers, Sequences

CONSTANTS
    Null,          \* SQL NULL, and "no such row"
    MaxAttempts    \* deliveries.max_attempts, the same for every event

ASSUME NullAssumption == Null \notin Nat

ASSUME MaxAttemptsAssumption == MaxAttempts \in Nat \ {0}

Statuses ==
    {"pending", "processing", "delivered", "retrying", "throttled", "failed"}

Terminal == {"delivered", "failed"}

\* Faulty variant: the generation is left at Go's zero value.
NewDeliveryGenerationZero ==
    [status |-> "pending", attempts |-> 0, generation |-> 0,
     nextAt |-> Null, owner |-> Null, deadline |-> Null]

NewDelivery ==
    [status |-> "pending", attempts |-> 0, generation |-> 1,
     nextAt |-> Null, owner |-> Null, deadline |-> Null]

-----------------------------------------------------------------------------
(* State transitions of a row. *)

MarkAsProcessing(d, owner, deadline) ==
    [d EXCEPT !.status = "processing", !.owner = owner, !.deadline = deadline]

MarkAsDelivered(d) ==
    [d EXCEPT !.status = "delivered", !.nextAt = Null]

MarkAsRetrying(d, nextAt) ==
    [d EXCEPT !.status = "retrying", !.attempts = @ + 1, !.nextAt = nextAt]

MarkAsThrottled(d, nextAt) ==
    [d EXCEPT !.status = "throttled", !.nextAt = nextAt]

MarkAsFailed(d) ==
    [d EXCEPT !.status = "failed", !.nextAt = Null]

\* Faulty variant: a replay keeps the old generation number.
ScheduleReplaySameGeneration(d, scheduledAt) ==
    [d EXCEPT !.status = "retrying", !.attempts = 0, !.nextAt = scheduledAt]

ScheduleReplay(d, scheduledAt) ==
    [d EXCEPT !.status = "retrying", !.generation = @ + 1, !.attempts = 0,
              !.nextAt = scheduledAt, !.owner = Null, !.deadline = Null]

-----------------------------------------------------------------------------
(* One HTTP exchange.  A reply is the receiver's status code, NoResponse   *)
(* when no status was obtained (timeout, refused or reset connection), or  *)
(* Limited when the rate limiter denied the call before it was made.       *)

Limited == -1

NoResponse == 0

IsSuccess(code) == 200 <= code /\ code < 300

isPermanentFailure(code) ==
    code \in {400, 401, 403, 404, 405, 406, 410, 411, 413, 414, 415, 422, 426, 431}

isRetryableFailure(code) == code \in {408, 429, 500, 502, 503, 504}

\* Faulty variant: the attempt just made is not counted.
CanRetryOneMore(done, reply) ==
    /\ done + 1 <= MaxAttempts
    /\ reply # NoResponse => isRetryableFailure(reply)

CanRetry(done, reply) ==
    /\ done + 1 < MaxAttempts
    /\ reply # NoResponse => isRetryableFailure(reply)

\* The outcome of a delivery that has made `done' attempts so far, and the
\* number of the attempt to record (0: the limiter denied it, no attempt).
deliverToSubscription(done, reply) ==
    [outcome |->
        CASE reply = Limited                                -> "throttled"
          [] reply # Limited /\ IsSuccess(reply)            -> "success"
          [] reply # Limited /\ isPermanentFailure(reply)   -> "failure"
          [] OTHER -> IF CanRetry(done, reply) THEN "retry" ELSE "failure",
     number |-> IF reply = Limited THEN 0 ELSE done + 1]

\* Faulty variant: a throttled delivery is taken for a success.
applyDeliveryResultThrottledIsSuccess(d, result, nextAt) ==
    LET counted == [d EXCEPT !.attempts = IF result.number # 0 THEN @ + 1 ELSE @]
    IN  CASE result.outcome \in {"success", "throttled"} -> MarkAsDelivered(counted)
          [] result.outcome = "retry"     -> MarkAsRetrying(d, nextAt)
          [] result.outcome = "failure"   -> MarkAsFailed(counted)

applyDeliveryResult(d, result, nextAt) ==
    LET counted == [d EXCEPT !.attempts = IF result.number # 0 THEN @ + 1 ELSE @]
    IN  CASE result.outcome = "success"   -> MarkAsDelivered(counted)
          [] result.outcome = "retry"     -> MarkAsRetrying(d, nextAt)
          [] result.outcome = "throttled" -> MarkAsThrottled(d, nextAt)
          [] result.outcome = "failure"   -> MarkAsFailed(counted)

-----------------------------------------------------------------------------
(* The status of an event as a function of the statuses of its deliveries. *)

ProjectStatus(statuses) ==
    IF      "processing" \in statuses THEN "processing"
    ELSE IF "retrying"   \in statuses THEN "retrying"
    ELSE IF "throttled"  \in statuses THEN "throttled"
    ELSE IF "pending"    \in statuses THEN "pending"
    ELSE IF "failed"     \in statuses THEN "failed"
    ELSE "delivered"

-----------------------------------------------------------------------------
(* Event-type filters.  A type is a sequence of symbols; a filter is such  *)
(* a sequence and whether a trailing "*" follows it ("*" alone: the empty  *)
(* sequence).  A "*" elsewhere is a symbol like any other.                 *)

matchWildcard(pattern, type) ==
    IF pattern.star
      THEN /\ Len(type) >= Len(pattern.text)
           /\ SubSeq(type, 1, Len(pattern.text)) = pattern.text
      ELSE type = pattern.text

MatchesEventType(filters, type) == \E t \in filters : matchWildcard(t, type)
=============================================================================
