--------------------------- MODULE DeliveryRuntime ---------------------------
(***************************************************************************)
(* The worker-side delivery runtime and the PostgreSQL tables it shares.   *)
(*                                                                         *)
(* Processes: Kafka consumers (DeliveryHandler.ProcessBatch), batch        *)
(* goroutines of retry pollers (DeliveryHandler.ProcessDeliveries), and    *)
(* API requests (subscription changes, replay).  They meet only in the     *)
(* database: rows are leased by (owner, deadline), an outcome is written   *)
(* only while that pair still stands in the row, and transactions run at   *)
(* READ COMMITTED.                                                         *)
(*                                                                         *)
(* A single SQL statement is one step.  A transaction that updates a       *)
(* delivery and then projects its event is two: the first locks and        *)
(* updates the delivery row and reads the siblings, the second writes the  *)
(* event row and commits.  Between the two the new row is not visible to   *)
(* others and its lock is held.                                            *)
(***************************************************************************)
EXTENDS Domain, FiniteSets

CONSTANTS
    Events, Subs,      \* event and subscription identifiers
    TypeOf,            \* the type of each event
    EventTypes,        \* the filters of each subscription
    Consumers,         \* Kafka consumer loops
    Pollers,           \* retry poller batch slots
    Instances,         \* values of INSTANCE_ID, the lease owners
    InstanceOf,        \* the instance each consumer or poller slot runs in
    Requests,          \* concurrent API replay requests
    LeaseDuration,     \* lease length, in clock ticks
    BatchSize,         \* the poller's claim limit
    RetryDelays,       \* backoff and retry-after delays; 0: app clock behind the database
    StatusCodes,       \* status codes receivers answer with
    MaxNow,            \* bound on the clock
    MaxGeneration      \* bound on replays of one delivery

Workers == Consumers \cup Pollers

Ids == Events \X Subs

ASSUME WorkersAssumption ==
    /\ InstanceOf \in [Workers -> Instances]
    /\ Null \notin Instances

ASSUME LeaseAssumption == LeaseDuration \in Nat \ {0}

\* The subscriptions are finitely many: those found for an event can be counted.
ASSUME SubsAssumption == \A F \in SUBSET Subs : Cardinality(F) \in Nat

ASSUME BoundsAssumption ==
    /\ RetryDelays \subseteq Nat
    /\ StatusCodes \subseteq Nat \ {0}
    /\ MaxNow \in Nat
    /\ MaxGeneration \in Nat

VARIABLES
    now,            \* PostgreSQL's NOW()
    subscriptions,  \* table subscriptions: "active", "inactive" or Null (no row)
    events,         \* table events: the projected status, or Null
    deliveries,     \* table deliveries: a row, or Null
    attempts,       \* table delivery_attempts, per delivery in insertion order
    pc,             \* where each worker is
    job,            \* a consumer's batch: messages to initialise, all messages, the
                    \* active subscriptions it loaded, totalDeliveries so far
    claims,         \* the claimed rows a worker still has to process
    cur,            \* the outcome a worker is persisting, or Null
    proj,           \* event status read by a worker's open transaction, or Null
    replay,         \* open replay transactions of API requests, or Null
    accepted        \* history: <<id, generation>> a receiver answered 2xx to

dbVars == <<subscriptions, events, deliveries, attempts>>

workerVars == <<pc, job, claims, cur, proj>>

vars == <<now, dbVars, workerVars, replay, accepted>>

Rows ==
    [status : Statuses, attempts : Nat, generation : Nat \ {0},
     nextAt : Nat \cup {Null}, owner : Instances \cup {Null},
     deadline : Nat \cup {Null}]

\* "No such row" is neither a row nor a status.
ASSUME NullRowAssumption == Null \notin Rows /\ Null \notin Statuses

AttemptRows == [generation : Nat \ {0}, number : Nat \ {0}]

Claims == [id : Ids, row : Rows]

Outcomes == [id : Ids, row : Rows, number : Nat]

Jobs ==
    [todo : SUBSET Events, batch : SUBSET Events, subs : SUBSET Subs, total : Nat]

NoJob == [todo |-> {}, batch |-> {}, subs |-> {}, total |-> 0]

\* The types of the tables and of every process's local state.
TypeOK ==
    /\ now \in Nat
    /\ subscriptions \in [Subs -> {"active", "inactive", Null}]
    /\ events \in [Events -> Statuses \cup {Null}]
    /\ deliveries \in [Ids -> Rows \cup {Null}]
    /\ attempts \in [Ids -> Seq(AttemptRows)]
    /\ pc \in [Workers -> {"idle", "init", "claim", "deliver", "persist", "commit"}]
    /\ job \in [Workers -> Jobs]
    /\ claims \in [Workers -> SUBSET Claims]
    /\ cur \in [Workers -> Outcomes \cup {Null}]
    /\ proj \in [Workers -> Statuses \cup {Null}]
    /\ replay \in [Requests -> [id : Ids, row : Rows, proj : Statuses] \cup {Null}]
    /\ accepted \subseteq (Ids \X (Nat \ {0}))

\* The worker starts with an empty store; the API may have created
\* subscriptions before.
Init ==
    /\ now = 0
    /\ subscriptions \in [Subs -> {"active", Null}]
    /\ events = [e \in Events |-> Null]
    /\ deliveries = [d \in Ids |-> Null]
    /\ attempts = [d \in Ids |-> <<>>]
    /\ pc = [w \in Workers |-> "idle"]
    /\ job = [w \in Workers |-> NoJob]
    /\ claims = [w \in Workers |-> {}]
    /\ cur = [w \in Workers |-> Null]
    /\ proj = [w \in Workers |-> Null]
    /\ replay = [q \in Requests |-> Null]
    /\ accepted = {}

-----------------------------------------------------------------------------
(* Shared by the operations below. *)

\* Row locks held by open transactions.
Locked(d) ==
    \/ \E w \in Workers : pc[w] = "commit" /\ cur[w].id = d
    \/ \E q \in Requests : replay[q] # Null /\ replay[q].id = d

\* The status updateEventProjection computes for d's event inside a
\* transaction that has set d's row to r: it sees its own row and the
\* committed rows of the siblings.
ReadProjection(d, r) ==
    LET siblings == {x \in Ids : x[1] = d[1] /\ x # d /\ deliveries[x] # Null}
    IN  ProjectStatus({r.status} \cup {deliveries[x].status : x \in siblings})

\* A batch ends, or an error returns from it: the goroutine keeps nothing.
Drop(W) ==
    /\ pc' = [w \in Workers |-> IF w \in W THEN "idle" ELSE pc[w]]
    /\ job' = [w \in Workers |-> IF w \in W THEN NoJob ELSE job[w]]
    /\ claims' = [w \in Workers |-> IF w \in W THEN {} ELSE claims[w]]
    /\ cur' = [w \in Workers |-> IF w \in W THEN Null ELSE cur[w]]
    /\ proj' = [w \in Workers |-> IF w \in W THEN Null ELSE proj[w]]

-----------------------------------------------------------------------------
(* Subscriptions, changed through the API. *)

CreateSubscription(s) ==
    /\ subscriptions[s] = Null
    /\ subscriptions' = [subscriptions EXCEPT ![s] = "active"]
    /\ UNCHANGED <<now, events, deliveries, attempts, workerVars, replay, accepted>>

DeleteSubscription(s) ==
    /\ subscriptions[s] = "active"
    /\ subscriptions' = [subscriptions EXCEPT ![s] = "inactive"]
    /\ UNCHANGED <<now, events, deliveries, attempts, workerVars, replay, accepted>>

-----------------------------------------------------------------------------
(* ProcessBatch: a consumer takes a batch of messages, possibly ones that  *)
(* were processed before, initialises their deliveries and claims them.    *)

\* The active subscriptions: one query for the whole batch.
GetByEventTypes == {s \in Subs : subscriptions[s] = "active"}

\* Those of the loaded subscriptions that ask for e.
Matching(e, loaded) == {s \in loaded : MatchesEventType(EventTypes[s], TypeOf[e])}

LoadSubscriptions(w, B) ==
    /\ pc[w] = "idle"
    /\ B # {}
    /\ job' = [job EXCEPT ![w] =
                 [todo |-> B, batch |-> B, total |-> 0, subs |-> GetByEventTypes]]
    /\ pc' = [pc EXCEPT ![w] = "init"]
    /\ UNCHANGED <<now, dbVars, claims, cur, proj, replay, accepted>>

\* INSERT ... ON CONFLICT DO NOTHING of the event and of one delivery per
\* matching subscription; the status of an existing event row stays.
InitializeEventDeliveries(w, e) ==
    LET matched == Matching(e, job[w].subs)
        left    == job[w].todo \ {e}
        found   == {s \in Subs : s \in matched \/ deliveries[<<e, s>>] # Null}
    IN  /\ pc[w] = "init"
        /\ e \in job[w].todo
        /\ events' = IF events[e] = Null
                       THEN [events EXCEPT ![e] =
                               IF matched = {} THEN "delivered" ELSE "pending"]
                       ELSE events
        /\ deliveries' = [d \in Ids |->
                            IF d[1] = e /\ d[2] \in matched /\ deliveries[d] = Null
                              THEN NewDelivery
                              ELSE deliveries[d]]
        /\ job' = [job EXCEPT ![w].todo = left, ![w].total = @ + Cardinality(found)]
        /\ pc' = [pc EXCEPT ![w] = IF left = {} THEN "claim" ELSE "init"]
        /\ UNCHANGED <<now, subscriptions, attempts, claims, cur, proj, replay, accepted>>

-----------------------------------------------------------------------------
(* Claims. *)

\* Faulty variant: a lease that is still running can be taken over.
ClaimableBeforeDeadline(r) ==
    \/ r.status = "pending"
    \/ r.status \in {"retrying", "throttled"} /\ r.nextAt # Null /\ r.nextAt <= now
    \/ r.status = "processing"

\* Faulty variant: an expired lease is never taken over.
ClaimableNoReclaim(r) ==
    \/ r.status = "pending"
    \/ r.status \in {"retrying", "throttled"} /\ r.nextAt # Null /\ r.nextAt <= now

Claimable(r) ==
    \/ r.status = "pending"
    \/ r.status \in {"retrying", "throttled"} /\ r.nextAt # Null /\ r.nextAt <= now
    \/ r.status = "processing" /\ r.deadline # Null /\ r.deadline <= now

Candidates == {d \in Ids : deliveries[d] # Null /\ Claimable(deliveries[d]) /\ ~Locked(d)}

\* Worker w leases the rows S: UPDATE ... SET status, owner, deadline.
Lease(w, S) ==
    LET leased(d) == MarkAsProcessing(deliveries[d], InstanceOf[w], now + LeaseDuration)
    IN  /\ deliveries' = [d \in Ids |-> IF d \in S THEN leased(d) ELSE deliveries[d]]
        /\ claims' = [claims EXCEPT ![w] = {[id |-> d, row |-> leased(d)] : d \in S}]

\* Which candidates a claim gets is left open: rows locked by a transaction
\* in progress are skipped, and LIMIT cuts the rest.
ClaimDeliveries(w, S) ==
    /\ pc[w] = "idle"
    /\ S # {}
    /\ S \subseteq Candidates
    /\ Cardinality(S) <= BatchSize
    /\ Lease(w, S)
    /\ pc' = [pc EXCEPT ![w] = "deliver"]
    /\ UNCHANGED <<now, subscriptions, events, attempts, job, cur, proj, replay, accepted>>

ClaimEventDeliveries(w, S) ==
    /\ pc[w] = "claim"
    /\ S \subseteq {d \in Candidates : d[1] \in job[w].batch}
    /\ Cardinality(S) <= job[w].total
    /\ Lease(w, S)
    /\ job' = [job EXCEPT ![w] = NoJob]
    /\ pc' = [pc EXCEPT ![w] = IF S = {} THEN "idle" ELSE "deliver"]
    /\ UNCHANGED <<now, subscriptions, events, attempts, cur, proj, replay, accepted>>

-----------------------------------------------------------------------------
(* processDeliveries: one claimed row after the other is delivered and its *)
(* outcome persisted.  The lease is not looked at before the HTTP call.    *)

Deliver(w, c, reply, delay) ==
    LET result == deliverToSubscription(c.row.attempts, reply)
    IN  /\ pc[w] = "deliver"
        /\ c \in claims[w]
        /\ cur' = [cur EXCEPT ![w] =
                     [id |-> c.id,
                      row |-> applyDeliveryResult(c.row, result, now + delay),
                      number |-> result.number]]
        /\ accepted' = IF IsSuccess(reply)
                         THEN accepted \cup {<<c.id, c.row.generation>>}
                         ELSE accepted
        /\ pc' = [pc EXCEPT ![w] = "persist"]
        /\ UNCHANGED <<now, dbVars, job, claims, proj, replay>>

\* Faulty variant: fencing by owner alone.
ClaimStandsByOwner(d, r) ==
    /\ deliveries[d] # Null
    /\ deliveries[d].status = "processing"
    /\ deliveries[d].owner = r.owner

\* Faulty variant: no fencing, any leased row is updated.
ClaimStandsByStatus(d, r) ==
    /\ deliveries[d] # Null
    /\ deliveries[d].status = "processing"

\* The WHERE clause of PersistClaimedDeliveryOutcome.
ClaimStands(d, r) ==
    /\ deliveries[d] # Null
    /\ deliveries[d].status = "processing"
    /\ deliveries[d].owner = r.owner
    /\ deliveries[d].deadline = r.deadline

PersistUpdate(w) ==
    /\ pc[w] = "persist"
    /\ ~Locked(cur[w].id)
    /\ ClaimStands(cur[w].id, cur[w].row)
    /\ proj' = [proj EXCEPT ![w] = ReadProjection(cur[w].id, cur[w].row)]
    /\ pc' = [pc EXCEPT ![w] = "commit"]
    /\ UNCHANGED <<now, dbVars, job, claims, cur, replay, accepted>>

\* ErrClaimLost: the rest of the batch is abandoned.
PersistClaimLost(w) ==
    /\ pc[w] = "persist"
    /\ ~Locked(cur[w].id)
    /\ ~ClaimStands(cur[w].id, cur[w].row)
    /\ Drop({w})
    /\ UNCHANGED <<now, dbVars, replay, accepted>>

AttemptRow(o) == [generation |-> o.row.generation, number |-> o.number]

\* Faulty variant: the projection is computed but not written.
PersistCommitWithoutProjection(w) ==
    LET o    == cur[w]
        left == {c \in claims[w] : c.id # o.id}
    IN  /\ pc[w] = "commit"
        /\ deliveries' = [deliveries EXCEPT ![o.id] =
                            [o.row EXCEPT !.owner = Null, !.deadline = Null]]
        /\ attempts' = [attempts EXCEPT ![o.id] =
                          IF o.number # 0 THEN Append(@, AttemptRow(o)) ELSE @]
        /\ claims' = [claims EXCEPT ![w] = left]
        /\ cur' = [cur EXCEPT ![w] = Null]
        /\ proj' = [proj EXCEPT ![w] = Null]
        /\ pc' = [pc EXCEPT ![w] = IF left = {} THEN "idle" ELSE "deliver"]
        /\ UNCHANGED <<now, subscriptions, events, job, replay, accepted>>

PersistCommit(w) ==
    LET o    == cur[w]
        left == {c \in claims[w] : c.id # o.id}
    IN  /\ pc[w] = "commit"
        /\ deliveries' = [deliveries EXCEPT ![o.id] =
                            [o.row EXCEPT !.owner = Null, !.deadline = Null]]
        /\ attempts' = [attempts EXCEPT ![o.id] =
                          IF o.number # 0 THEN Append(@, AttemptRow(o)) ELSE @]
        /\ events' = [events EXCEPT ![o.id[1]] = proj[w]]
        /\ claims' = [claims EXCEPT ![w] = left]
        /\ cur' = [cur EXCEPT ![w] = Null]
        /\ proj' = [proj EXCEPT ![w] = Null]
        /\ pc' = [pc EXCEPT ![w] = IF left = {} THEN "idle" ELSE "deliver"]
        /\ UNCHANGED <<now, subscriptions, job, replay, accepted>>

-----------------------------------------------------------------------------
(* ReplayFailedDelivery: the row is locked, checked and updated, then the  *)
(* event is projected and the transaction commits or is rolled back.       *)

\* Faulty variant: a delivery is replayed whatever its status.
ReplayUpdateAnyStatus(q, d) ==
    LET r == ScheduleReplay(deliveries[d], now)
    IN  /\ replay[q] = Null
        /\ deliveries[d] # Null
        /\ ~Locked(d)
        /\ deliveries[d].generation < MaxGeneration
        /\ replay' = [replay EXCEPT ![q] =
                        [id |-> d, row |-> r, proj |-> ReadProjection(d, r)]]
        /\ UNCHANGED <<now, dbVars, workerVars, accepted>>

ReplayUpdate(q, d) ==
    LET r == ScheduleReplay(deliveries[d], now)
    IN  /\ replay[q] = Null
        /\ deliveries[d] # Null
        /\ ~Locked(d)
        /\ deliveries[d].status = "failed"
        /\ deliveries[d].generation < MaxGeneration
        /\ replay' = [replay EXCEPT ![q] =
                        [id |-> d, row |-> r, proj |-> ReadProjection(d, r)]]
        /\ UNCHANGED <<now, dbVars, workerVars, accepted>>

ReplayCommit(q) ==
    /\ replay[q] # Null
    /\ deliveries' = [deliveries EXCEPT ![replay[q].id] = replay[q].row]
    /\ events' = [events EXCEPT ![replay[q].id[1]] = replay[q].proj]
    /\ replay' = [replay EXCEPT ![q] = Null]
    /\ UNCHANGED <<now, subscriptions, attempts, workerVars, accepted>>

ReplayRollback(q) ==
    /\ replay[q] # Null
    /\ replay' = [replay EXCEPT ![q] = Null]
    /\ UNCHANGED <<now, dbVars, workerVars, accepted>>

-----------------------------------------------------------------------------
(* Faults and time. *)

\* A database call returns an error, or the answer of one that took effect
\* is lost: the batch ends, an open transaction is rolled back, and leases
\* of rows not yet processed run on in the database.
Abandon(w) ==
    /\ pc[w] # "idle"
    /\ Drop({w})
    /\ UNCHANGED <<now, dbVars, replay, accepted>>

\* A worker process dies and is restarted under the same INSTANCE_ID.
Crash(i) ==
    /\ Drop({w \in Workers : InstanceOf[w] = i})
    /\ UNCHANGED <<now, dbVars, replay, accepted>>

\* Times something waits for.  The clock need not advance past the last one:
\* times are only compared with NOW() and a new one is never before it.
Awaited ==
    {deliveries[d].nextAt : d \in {x \in Ids : deliveries[x] # Null}}
      \cup {deliveries[d].deadline : d \in {x \in Ids : deliveries[x] # Null}}
      \cup {cur[w].row.nextAt : w \in {x \in Workers : cur[x] # Null}}

Tick ==
    /\ now < MaxNow
    /\ \E t \in Awaited \ {Null} : t > now
    /\ now' = now + 1
    /\ UNCHANGED <<dbVars, workerVars, replay, accepted>>

-----------------------------------------------------------------------------

Replies == StatusCodes \cup {NoResponse, Limited}

DeliverAny(w) ==
    \E c \in claims[w], reply \in Replies, delay \in RetryDelays : Deliver(w, c, reply, delay)

Persist(w) == PersistUpdate(w) \/ PersistClaimLost(w) \/ PersistCommit(w)

Next ==
    \/ \E s \in Subs : CreateSubscription(s) \/ DeleteSubscription(s)
    \/ \E w \in Consumers :
         \/ \E B \in SUBSET Events : LoadSubscriptions(w, B)
         \/ \E e \in Events : InitializeEventDeliveries(w, e)
         \/ \E S \in SUBSET Ids : ClaimEventDeliveries(w, S)
    \/ \E w \in Pollers, S \in SUBSET Ids : ClaimDeliveries(w, S)
    \/ \E w \in Workers : DeliverAny(w) \/ Persist(w) \/ Abandon(w)
    \/ \E q \in Requests :
         \/ \E d \in Ids : ReplayUpdate(q, d)
         \/ ReplayCommit(q)
         \/ ReplayRollback(q)
    \/ \E i \in Instances : Crash(i)
    \/ Tick

Spec == Init /\ [][Next]_vars

\* Goroutines and statements run on, the clock advances, and a poller with a
\* free slot keeps claiming while rows are claimable.  Nothing is assumed of
\* receivers, limiters, Kafka, or of the absence of faults.
Fairness ==
    /\ WF_vars(Tick)
    /\ \A w \in Workers : WF_vars(DeliverAny(w)) /\ WF_vars(Persist(w))
    /\ \A w \in Pollers : WF_vars(\E S \in SUBSET Ids : ClaimDeliveries(w, S))
    /\ \A w \in Consumers :
         /\ WF_vars(\E e \in Events : InitializeEventDeliveries(w, e))
         /\ WF_vars(\E S \in SUBSET Ids : ClaimEventDeliveries(w, S))
    /\ \A q \in Requests : WF_vars(ReplayCommit(q))

FairSpec == Spec /\ Fairness

-----------------------------------------------------------------------------
(* Properties. *)

\* Two workers never hold running leases on one delivery, not even two
\* goroutines of one instance or two instances that share an INSTANCE_ID.
\* (ClaimDeliveries and ClaimEventDeliveries.)
LeaseExclusion ==
    \A w1, w2 \in Workers : \A c1 \in claims[w1], c2 \in claims[w2] :
        c1.id = c2.id /\ c1.row.deadline > now /\ c2.row.deadline > now
            => w1 = w2 /\ c1 = c2

\* As long as a lease runs, the row is exactly the one that was claimed:
\* no other outcome, claim, replay or redelivery has touched it.
LeaseProtects ==
    \A w \in Workers : \A c \in claims[w] :
        c.row.deadline > now => deliveries[c.id] = c.row

\* A transaction that is going to commit an outcome was computed from the
\* very row it replaces, even when its lease has run out meanwhile.
\* (The fencing of PersistClaimedDeliveryOutcome.)
FencedOutcome ==
    \A w \in Workers : pc[w] = "commit" =>
        \E c \in claims[w] : c.id = cur[w].id /\ deliveries[c.id] = c.row

\* The attempt history of a delivery is exact: in the current generation the
\* recorded attempts are 1, 2, ..., attempts, and the whole history is
\* strictly increasing by (generation, number): no gap, no duplicate, no
\* attempt recorded by a worker that had lost its lease.
AttemptHistory ==
    \A d \in Ids : deliveries[d] # Null =>
        LET h == attempts[d]
            r == deliveries[d]
        IN  /\ \A i, j \in 1..Len(h) : i < j =>
                 \/ h[i].generation < h[j].generation
                 \/ h[i].generation = h[j].generation /\ h[i].number < h[j].number
            /\ \A i \in 1..Len(h) :
                 /\ h[i].generation <= r.generation
                 /\ h[i].generation = r.generation => h[i].number <= r.attempts
            /\ \A n \in 1..r.attempts :
                 \E i \in 1..Len(h) : h[i].generation = r.generation /\ h[i].number = n

\* A delivery that is not terminal has an attempt left, and no generation
\* records more than MaxAttempts attempts.  (canRetry in deliverToSubscription.)
AttemptBudget ==
    \A d \in Ids :
        /\ \A i \in 1..Len(attempts[d]) : attempts[d][i].number <= MaxAttempts
        /\ deliveries[d] # Null =>
             /\ deliveries[d].attempts <= MaxAttempts
             /\ deliveries[d].status \notin Terminal => deliveries[d].attempts < MaxAttempts

\* A delivery is marked delivered only if its receiver answered 2xx in the
\* current generation.
DeliveredWasAccepted ==
    \A d \in Ids :
        deliveries[d] # Null /\ deliveries[d].status = "delivered"
            => <<d, deliveries[d].generation>> \in accepted

\* Terminal rows are final: a delivered one never changes, a failed one only
\* by a replay, which opens the next generation and keeps the history.
TerminalIsFinal ==
    [][\A d \in Ids :
         deliveries[d] # Null /\ deliveries[d].status \in Terminal
             /\ deliveries'[d] # deliveries[d]
           => /\ deliveries[d].status = "failed"
              /\ deliveries'[d].status = "retrying"
              /\ deliveries'[d].generation = deliveries[d].generation + 1
              /\ deliveries'[d].attempts = 0
              /\ attempts'[d] = attempts[d]]_vars

\* A claim stands in its row, or it has run out and then the row shows no
\* lease or a later one.
StandsOrExpired ==
    \A w \in Workers : \A c \in claims[w] :
        /\ c.row.status = "processing"
        /\ c.row.deadline \in Nat
        /\ \/ deliveries[c.id] = c.row
           \/ /\ c.row.deadline <= now
              /\ \/ deliveries[c.id].deadline = Null
                 \/ deliveries[c.id].deadline > c.row.deadline

\* No two claims share delivery and deadline.
DistinctClaims ==
    \A w1, w2 \in Workers : \A c1 \in claims[w1], c2 \in claims[w2] :
        c1.id = c2.id /\ c1.row.deadline = c2.row.deadline => w1 = w2 /\ c1 = c2

\* An outcome carries the deadline of a claim of its worker.
OutcomeOfClaim ==
    \A w \in Workers : pc[w] \in {"persist", "commit"} =>
        /\ cur[w] \in Outcomes
        /\ \E c \in claims[w] : c.id = cur[w].id /\ c.row.deadline = cur[w].row.deadline

\* A replay transaction holds a failed row that no other replay holds.
ReplayHoldsFailed ==
    \A q \in Requests : replay[q] # Null =>
        /\ deliveries[replay[q].id] # Null
        /\ deliveries[replay[q].id].status = "failed"
        /\ replay[q].row = ScheduleReplay(deliveries[replay[q].id], replay[q].row.nextAt)
        /\ \A p \in Requests : replay[p] # Null /\ replay[p].id = replay[q].id => p = q

\* Why the lease properties hold: inductive together with TypeOK.
LeaseInv ==
    /\ StandsOrExpired
    /\ DistinctClaims
    /\ OutcomeOfClaim
    /\ FencedOutcome
    /\ ReplayHoldsFailed

OpenTransaction(e) == \E d \in Ids : d[1] = e /\ Locked(d)

\* Once all deliveries of an event are terminal and no transaction on them is
\* open, the stored event status is their projection ("EventStatus is the
\* aggregate projection of the event's delivery rows").
SettledProjection ==
    \A e \in Events :
        LET rows == {d \in Ids : d[1] = e /\ deliveries[d] # Null}
        IN  (/\ rows # {}
             /\ \A d \in rows : deliveries[d].status \in Terminal
             /\ ~OpenTransaction(e))
            => events[e] = ProjectStatus({deliveries[d].status : d \in rows})

\* The transactions that persist outcomes of one event do not overlap.  The
\* code takes no lock on the event row that would guarantee this.
OutcomesApart ==
    \A w1, w2 \in Workers :
        pc[w1] = "commit" /\ pc[w2] = "commit" /\ cur[w1].id[1] = cur[w2].id[1] => w1 = w2

\* All deliveries of event e are terminal, and it has some.
SettledEvent(e) ==
    /\ \E d \in Ids : d[1] = e /\ deliveries[d] # Null
    /\ \A d \in Ids : d[1] = e /\ deliveries[d] # Null => deliveries[d].status \in Terminal

\* The other deliveries of d's event are terminal.
SettledSiblings(d) ==
    \A x \in Ids : x[1] = d[1] /\ x # d /\ deliveries[x] # Null => deliveries[x].status \in Terminal

\* Why the projection is right when outcomes do not overlap: a settled event
\* shows it, and an outcome that is about to settle its event has read the
\* siblings as they still are.
ProjectionInv ==
    /\ \A e \in Events : SettledEvent(e) =>
         events[e] = ProjectStatus({deliveries[d].status :
                                      d \in {x \in Ids : x[1] = e /\ deliveries[x] # Null}})
    /\ \A w \in Workers : pc[w] = "commit" /\ SettledSiblings(cur[w].id) =>
         proj[w] = ReadProjection(cur[w].id, cur[w].row)

\* The time from which the row of an unfinished delivery can be claimed.
DueAt(r) ==
    IF      r.status = "pending"    THEN 0
    ELSE IF r.status = "processing" THEN r.deadline
    ELSE r.nextAt

\* No unfinished delivery is stranded: it has a time, and once the clock has
\* reached it the claim query finds the row.
NeverStranded ==
    \A d \in Ids :
        deliveries[d] # Null /\ deliveries[d].status \notin Terminal
            => /\ DueAt(deliveries[d]) \in Nat
               /\ DueAt(deliveries[d]) <= now => Claimable(deliveries[d])

\* Why: the rows that outcomes and replays are about to write have a time, too,
\* and do not depend on a lease for it.
DueInv ==
    /\ \A d \in Ids :
         deliveries[d] # Null /\ deliveries[d].status \notin Terminal => DueAt(deliveries[d]) \in Nat
    /\ \A w \in Workers : pc[w] \in {"persist", "commit"} /\ cur[w].row.status \notin Terminal =>
         cur[w].row.status # "processing" /\ DueAt(cur[w].row) \in Nat
    /\ \A q \in Requests : replay[q] # Null => DueAt(replay[q].row) \in Nat

\* The set of deliveries of an event is fixed when the event is first
\* processed ("duplicate Kafka processing reuses the frozen delivery set").
FrozenDeliverySet ==
    [][\A d \in Ids :
         events[d[1]] # Null /\ deliveries[d] = Null => deliveries'[d] = Null]_vars

\* Every delivery that has a row is eventually delivered or failed, whatever
\* crashes, errors, lost leases and throttling happen, up to the time horizon
\* MaxNow: no order of faults strands a row.
EventuallyTerminal ==
    \A d \in Ids :
        deliveries[d] # Null
            ~> (now = MaxNow \/ (deliveries[d] # Null /\ deliveries[d].status \in Terminal))
=============================================================================
