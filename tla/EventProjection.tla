--------------------------- MODULE EventProjection ---------------------------
(***************************************************************************)
(* ProjectEventFromDeliveries of internal/domain/delivery.go as the loop   *)
(* it is, checked against what it is meant to compute: DeliveryRuntime     *)
(* uses the set-based ProjectStatus, which knows no order of the rows.     *)
(* A step is one iteration.  The loop never looks ahead, so the state      *)
(* after some rows is that of a call with just these rows.                 *)
(* LastError, which is the last one in the slice, is left out.             *)
(***************************************************************************)
EXTENDS Domain

CONSTANTS
    Times,      \* timestamps in rows
    Now,        \* time.Now()
    MaxRows     \* bound on the slice

ASSUME ProjectionAssumption == Times \subseteq Nat /\ Now \in Nat /\ MaxRows \in Nat

VARIABLES
    slice,      \* the deliveries the loop has seen, in order
    acc         \* projection and the locals allDelivered and deliveredAt

Row(status, attempts, nextAt, deliveredAt) ==
    [status |-> status, attempts |-> attempts, nextAt |-> nextAt, deliveredAt |-> deliveredAt]

\* The columns a stored row can have: a claim leaves next_attempt_at alone, a
\* replay and a throttled first delivery have made no attempt.
StoredRows ==
    LET some == 1..MaxAttempts
        part == 0..(MaxAttempts - 1)
    IN  {Row("pending", 0, Null, Null)}
          \cup {Row("processing", n, t, Null) : n \in part, t \in Times \cup {Null}}
          \cup {Row(s, n, t, Null) : s \in {"retrying", "throttled"}, n \in part, t \in Times}
          \cup {Row("delivered", n, Null, t) : n \in some, t \in Times}
          \cup {Row("failed", n, Null, Null) : n \in some}

-----------------------------------------------------------------------------

\* Faulty variant: a missing candidate replaces the current time.
soonerAcceptsNull(current, candidate) ==
    \/ candidate = Null
    \/ current = Null
    \/ candidate < current

sooner(current, candidate) ==
    /\ candidate # Null
    /\ current = Null \/ candidate < current

\* Faulty variant: retrying wins over processing if it comes later.
NextStatusLastWins(current, status) ==
    CASE status \in {"processing", "retrying"}                                   -> status
      [] status = "throttled" /\ current \notin {"processing", "retrying"}       -> status
      [] status = "pending" /\ current \notin {"processing", "retrying", "throttled"} -> status
      [] status = "failed" /\ current = "delivered"                              -> status
      [] OTHER                                                                   -> current

\* The switch of the loop.
NextStatus(current, status) ==
    CASE status = "processing"                                                   -> status
      [] status = "retrying" /\ current # "processing"                           -> status
      [] status = "throttled" /\ current \notin {"processing", "retrying"}       -> status
      [] status = "pending" /\ current \notin {"processing", "retrying", "throttled"} -> status
      [] status = "failed" /\ current = "delivered"                              -> status
      [] OTHER                                                                   -> current

\* The body of the loop.
Accumulate(d) ==
    acc' = [status       |-> NextStatus(acc.status, d.status),
            attempts     |-> IF d.attempts > acc.attempts THEN d.attempts ELSE acc.attempts,
            nextAt       |-> IF sooner(acc.nextAt, d.nextAt) THEN d.nextAt ELSE acc.nextAt,
            deliveredAt  |-> IF d.deliveredAt # Null
                                /\ (acc.deliveredAt = Null \/ d.deliveredAt > acc.deliveredAt)
                             THEN d.deliveredAt ELSE acc.deliveredAt,
            allDelivered |-> acc.allDelivered /\ d.status = "delivered"]

ProjectionInit ==
    /\ slice = <<>>
    /\ acc = [status |-> "delivered", attempts |-> 0, nextAt |-> Null, deliveredAt |-> Null,
              allDelivered |-> TRUE]

VisitRow(d) ==
    /\ Len(slice) < MaxRows
    /\ slice' = Append(slice, d)
    /\ Accumulate(d)

ProjectionNext == \E d \in StoredRows : VisitRow(d)

ProjectionSpec == ProjectionInit /\ [][ProjectionNext]_<<slice, acc>>

\* Faulty variant: the time of a delivered row is kept although others failed.
ProjectKeepsDeliveredAt ==
    IF slice = <<>>
      THEN [status |-> "delivered", attempts |-> 0, nextAt |-> Null, deliveredAt |-> Now]
      ELSE [status |-> acc.status, attempts |-> acc.attempts, nextAt |-> acc.nextAt,
            deliveredAt |-> acc.deliveredAt]

\* What the function returns: the early return for no rows, else the end.
ProjectEventFromDeliveries ==
    IF slice = <<>>
      THEN [status |-> "delivered", attempts |-> 0, nextAt |-> Null, deliveredAt |-> Now]
      ELSE [status      |-> IF acc.allDelivered THEN "delivered" ELSE acc.status,
            attempts    |-> acc.attempts,
            nextAt      |-> acc.nextAt,
            deliveredAt |-> IF acc.allDelivered THEN acc.deliveredAt ELSE Null]

-----------------------------------------------------------------------------
(* Properties. *)

StatusesSeen == {slice[i].status : i \in DOMAIN slice}

AttemptsSeen == {slice[i].attempts : i \in DOMAIN slice}

NextAtsSeen == {slice[i].nextAt : i \in DOMAIN slice} \ {Null}

DeliveredAtsSeen == {slice[i].deliveredAt : i \in DOMAIN slice} \ {Null}

IsGreatest(x, S) == x \in S /\ \A y \in S : y <= x

IsLeast(x, S) == x \in S /\ \A y \in S : x <= y

\* The loop computes the precedence processing, retrying, throttled, pending,
\* failed, delivered, whatever the order of the rows.
StatusIsPrecedence == ProjectEventFromDeliveries.status = ProjectStatus(StatusesSeen)

\* The next attempt of an event is the soonest of its deliveries' next
\* attempts, its attempts are the most that one delivery has made.
NextIsSoonest ==
    LET p == ProjectEventFromDeliveries
    IN  /\ IF NextAtsSeen = {} THEN p.nextAt = Null ELSE IsLeast(p.nextAt, NextAtsSeen)
        /\ slice # <<>> => IsGreatest(p.attempts, AttemptsSeen)

\* An event has a delivery time exactly when it is delivered, and then it is
\* the time of the last delivery.
DeliveredAtIsLast ==
    LET p == ProjectEventFromDeliveries
    IN  /\ p.status = "delivered" <=> p.deliveredAt # Null
        /\ slice # <<>> /\ p.deliveredAt # Null => IsGreatest(p.deliveredAt, DeliveredAtsSeen)
=============================================================================
