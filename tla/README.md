# A formal model of Dispatch

Dispatch accepts events over HTTP, queues them in Kafka, and delivers each one
to every matching subscription by an HTTP call, with retries, rate limits,
replay and bounded retention. These modules model the parts of it that run
concurrently, TLC checks them on small instances, and TLAPS proves the central
safety properties for all instances. Paths below are relative to the
repository's root.

## 1. Inventory

| Component | State | Operations | What makes it hard |
|---|---|---|---|
| Delivery rows (`internal/domain/delivery.go`) | status, attempts, generation, next attempt, lease owner and deadline | `NewDelivery`, `MarkAs...`, `ScheduleReplay`, `ProjectEventFromDeliveries` | retry boundary; a projection accumulated row by row |
| Store (`internal/repository/postgres/event.go`) | tables `events`, `deliveries`, `delivery_attempts` | initialise, claim (two ways), persist an outcome, replay | READ COMMITTED, row locks, SKIP LOCKED, lease expiry, fencing by owner and deadline |
| Delivery handler (`internal/kafka/handler.go`, `delivery.go`, `webhook.go`) | a batch, its claims, the current outcome | `ProcessBatch`, `ProcessDeliveries` | an HTTP call between claim and persist; an error after some outcomes of a batch |
| Kafka consumer (`internal/kafka/consumer.go`) | position, batch, committed offset | collect, process, commit | cumulative commits, batch errors, malformed messages, rebalance, restart |
| Retry poller (`internal/retry/poller.go`) | `draining`, `activeBatches`, channels, wait group | `Start`, batch goroutines, `Stop` | slot accounting, blocked sends, `Stop` racing `Start` |
| Retention (`internal/retention/cleaner.go`, `internal/repository/postgres/retention.go`) | cycle position, row locks | `Start`, `RunOnce`, two statements, `Stop` | snapshot against later commits, cascade deadlocks, failed cycles |
| Redis limiter (`internal/resilience/redis_ratelimiter.go`) | a sorted set per subscription, a counter per process | `Allow` | time stamps taken early, by several clocks; colliding members; lost replies |
| Local limiter (`internal/resilience/ratelimiter.go`) | a token bucket per subscription | `AllowWithPolicy` | a refusal reserves a token and cancels it, while others do the same |
| Subscriptions (`internal/domain/subscription.go`, `postgres/subscription.go`) | table `subscriptions` | create, soft delete, lookup, rotate secret | the set changes between two deliveries of one message |
| Retry policy (`internal/retry/policy.go`) | none | `CalculateDelay` | the cap and the jitter |
| API, producer (`internal/api`, `internal/kafka/producer.go`) | none | publish, replay, subscription changes | a publish whose answer is lost |
| Worker process (`internal/app/worker.go`, `cmd/worker/main.go`) | pool, Redis client, metrics server, goroutines | start, signal, `Shutdown` twice | a start that fails half-way, a pool closed under a user, a request that hangs |

Section 5 says what is not modelled. `PROJECT.json`
lists every component with its status, and the hazards with the line where each
one bites and the properties that would catch it.

## 2. Modules

- **Domain**: the transitions of a delivery row, the classification of a reply,
  the projected status and the event-type filters, as operators.
- **DeliveryRuntime** (extends Domain): consumers, poller batches and replay
  requests over the shared tables.
- **EventProjection** (extends Domain): the loop of
  `ProjectEventFromDeliveries`, against reference definitions.
- **KafkaConsumer**: the members of a consumer group and the log.
- **DeliveryLifecycle**: what the runtime promises about one delivery, without
  workers, leases, transactions or clocks; its consequences are proved in it.
- **DeliveryRefinement** (extends DeliveryRuntime): the mapping under which the
  runtime implements the lifecycle.
- **RetryPoller**: the poller loop, its goroutines and `Stop`.
- **WorkerService** (extends RetryPoller): the worker process, which composes the
  poller with the consumer loop, the cleaner, the metrics server and the pool.
- **Retention** (extends Domain): the cleaners and the transactions they race.
- **RedisRateLimiter**, **LocalRateLimiter**: the sliding-window limiter and the
  in-memory limiter of one subscription. **RateLimiting** extends both: the
  worker is given one of them, or one that refuses everything, for its life.
- **DeliveryRuntimeLemmas**, **DeliveryRuntimeProofs**: theorems about
  DeliveryRuntime, the second extending the first. **DeliveryRefinementProofs**
  extends both with the proof of the refinement.
- **KafkaConsumerProofs**, **RetentionProofs**, **RateLimitingProofs**,
  **WorkerServiceProofs**: theorems about the modules they are named after, the
  last one also about RetryPoller and EventProjection.
- **MCDeliveryRuntime**, **MCRateLimiting**: constants for TLC.

Each module states its code's faulty variants just before the definition they
vary (comments "Faulty variant"). No specification uses them; they are the
mutants of `PROJECT.json`, which replace that definition and must break the
property they are listed with.

### DeliveryRuntime

A worker is a Kafka consumer loop or one batch slot of a poller. A consumer
loads the active subscriptions (`LoadSubscriptions`), initialises its messages
one transaction each (`InitializeEventDeliveries`) and claims their rows
(`ClaimEventDeliveries`); a poller slot claims due rows (`ClaimDeliveries`).
Both then deliver and persist row by row: `Deliver` is the rate-limit verdict,
the HTTP exchange and `applyDeliveryResult`; `PersistUpdate` is the fenced
UPDATE together with the read of the sibling rows; `PersistCommit` inserts the
attempt, writes the projection and commits; `PersistClaimLost` is the fence
refusing. Replay is split in the same two steps. Merging UPDATE and sibling
read is sound because the updated row is locked in between.

`Abandon` covers every error return and a commit whose answer was lost (the
commit may have happened, and then the worker drops its other claims). `Crash`
drops everything a process holds. `Tick` advances the database clock while
something waits for a later time.

The lease owner is the configured INSTANCE_ID, which defaults to one constant
(`internal/config/config.go:80`), so workers may share it. The instances check
both cases.

### DeliveryLifecycle and DeliveryRefinement

A delivery is absent, open, taken, delivered or failed, and has a generation, a
number of tries and a log. The mapping reads these off the committed row and the
attempt rows only: pending, retrying and throttled rows are open, a processing
row is taken. A claim is `Take`, also when it takes over an expired lease; the
commit of an outcome is `Record` or, for a refusal by the limiter, `Postpone`.
An HTTP call is at most `Accept`. Everything else (loading, fenced outcomes,
errors, crashes, time, the event projection) is a stuttering step.

### KafkaConsumer

Offsets are per partition. `CommitMessages` commits one more than the highest
offset of the batch in each partition. A member that still holds a batch after
a rebalance commits it late, which may even lower the offset. `Resume` is where
a reader starts: at the committed offset, or at the end of the log for a group
without one (`LastOffset`). A message becomes *durable* when its rows have been
initialised: from there the lease recovers it. `skipped` is a history variable:
the messages of failed batches, those collected before a malformed message that
was committed, and those in the log when a partition without a committed offset
is read anew. `StopOrCrash` covers `Stop` too: the context is cancelled first, so
a batch in hand is given up uncommitted, as in a crash. The broker, kafka-go and
the group coordinator are external.

### RetryPoller

`loop` is the position in `Start`. Batches are counted by where they are:
processing, about to send, or after the send and before `wg.Done`. `batchDone`
is the number of values in the channel. `stopper` follows `Stop`, which may
overtake `Start` and may be called again.

### WorkerService

`main` is the position of the main goroutine in `StartWorkerService`, `run` and
`Shutdown`; `calls` counts the calls of `Shutdown`, since `run` calls it with a
deadline of 30 seconds and a deferred call without a deadline follows. The
poller's own steps are RetryPoller's actions; its start, cancellation and `Stop`
are taken by `main`, and `UsesPollerAsSpecified` shows that the composition is
still a behaviour of RetryPoller. A consumer batch, a retry batch and a cleanup
cycle are intervals in which a connection is used (`UsesPool`). The metrics
server has at most one request in progress, `GET /ready`, whose ping of the
database has no deadline. `http.Server.Shutdown`, `pgxpool.Close` and the
behaviour of `Acquire` on a cancelled context are external. `RedisURL` fixes
whether there is a Redis client.

### EventProjection

A step is one iteration of the loop: a row is appended to the slice seen so far
and `acc` takes it in. The loop has no look-ahead, so each reachable state is the
end of a call with some list of rows, and `ProjectEventFromDeliveries` reads the
result off. Stating it as a state machine rather than a fold is what lets a
theorem cover lists of any length.

### Retention

`DeleteTerminalEvents` is one statement and several steps: `DeleteSnapshot`,
`LockCandidate` per event, `DeleteRows`. A candidate whose row changed after
the snapshot is evaluated again, but only its event row is; the subquery keeps
reading the snapshot. An outcome or replay transaction locks its delivery
first and the event later, the opposite order of the cascade, so deadlocks are
possible and `BreakDeadlock` resolves them as PostgreSQL does, with either one
as victim. A cancelled statement either aborts or has finished.

### Rate limiters

Redis: a tick stands for a millisecond. A member is the pair of the stamp and
the counter, exactly what its text distinguishes. A process's counter is shared
by all its subscriptions, so it starts at any value (`FirstCount`). `RunScript`
is the whole script; its reply may be lost. Clocks of processes differ by a
constant `Offset`, and a script runs at most `MaxDelay` ticks after its stamp
was taken, and those of any two processes by at most `MaxSkew`. `granted` is a
history variable: the calls allowed whose member was not in the set before.

In memory: every call of the manager's or the limiter's methods is a step, and
the clock may move between any two. The token bucket (golang.org/x/time/rate,
burst 1) is external: its tokens are counted in ticks, `Period` ticks to a
token, and `GiveBack` is the rule by which a cancelled reservation returns only
what later ones do not count on. A subscription's rate is never changed by the
API, so a limiter is made once.

## 3. Runs

| Run | Result | Question |
|---|---|---|
| `runtime` | holds | One delivery, a consumer and a poller slot sharing an owner, a replay request: leases, fencing, attempts, does any order of faults strand the delivery, and does the runtime implement the lifecycle? |
| `projection` | violated | Is a settled event's status the projection of its rows? |
| `frozen` | violated | Is the delivery set fixed by the first processing? |
| `event_projection` | holds | Does the loop agree with order-free definitions? |
| `consumer` | holds | Which events can be passed over, and is every other one eventually durable? |
| `consumer_failed_batch` | violated | Is a failed batch left uncommitted? |
| `consumer_malformed` | violated | Do events before a malformed message survive a crash? |
| `worker` | holds | Does the process start, stop and exit cleanly, and do the poller's slots, sends, `Stop` and backlog work within it? |
| `retention` | holds | One cleaner, two sessions, two deliveries of one event |
| `retention_live` | holds | Is everything expired eventually cleaned? |
| `retention_redelivered` | violated | Does active work survive when a message is processed twice? |
| `rate_limit` | holds | How far can clocks, delays, lost replies and equal counters stretch the Redis limit; does the in-memory limit hold for any interleaving, and does a refusal tell a sufficient delay? |

Bounds. The lease properties need two claimers, a lease that expires while an
outcome is under way, and a third claim or a replay after it: `MaxNow` 3 with a
lease of one tick gives three leases in a row, and two generations with two
attempts give a retry, a last attempt and a replay. For any number of workers
all safety properties of this run are proved, `SettledProjection` for the cases
in which it holds (section 4). Claims of several rows are in
`projection` and, for any number, in the theorems. The consumer has three
messages, so that a commit can jump over a failed one, and two restarts, so that
a late commit can meet a second reassignment. In `worker` there are two slots,
batches of one and two due rows with a third arriving, so that the slots can all
be taken, released and wanted again while the process stops; a claim may fail
once. `RedisURL` is TRUE there: without a client the steps for it do nothing.
`event_projection` has lists of three rows; the theorems cover longer ones.
Retention needs one expired event with a changing delivery; `retention_live` has
two events and batches of one. The Redis limiter's clock runs to the end of its window and past the shorter
one it guarantees; the local one allows three requests and four refusals. All
runs set `CHECK_DEADLOCK FALSE`: the bounded models come to rest when their inputs are used up, and a stopped worker does nothing.

Fairness. Goroutines that can run do, SQL statements finish, tickers fire and
the clock moves: weak fairness of those steps. Nothing is assumed of receivers,
of the limiter's verdict, of Kafka, or about faults not happening.
In `WorkerService` requests to the metrics server get no fairness, since the server
has no write timeout and the ping of `/ready` no deadline, and receiving from
`batchDone` gets strong fairness, because Go's `select` chooses at random among
the ready cases.
In `Retention` a session waiting for a row lock gets strong fairness, because
PostgreSQL wakes it when the lock is released and the next cycle is an interval
away. `EventuallyTerminal` speaks of the time horizon: a delivery may be
throttled or retried until `MaxNow`, but no behaviour stops before that with a
row that is neither delivered nor failed.

### Where the code and its documentation differ

1. `projection`: overlapping outcome transactions of one event project from
   each other's old rows; the stored status then stays wrong. An event stuck at
   a non-terminal status is also never removed by retention.
2. `frozen`: a redelivered message adds deliveries for subscriptions created
   since. The test that expects otherwise (`internal/kafka/handler_test.go:468`)
   runs against a mock repository that returns the stored set.
3. `consumer_failed_batch`: the next commit passes over a failed batch.
4. `consumer_malformed`: committing a malformed message commits the events
   collected before it.

5. `retention_redelivered`: the delete statement looks for active deliveries in
   its snapshot and locks only the event row, so a delivery that a redelivered
   message inserts in between is deleted while pending. It needs an old message
   and behaviour 2 or an event that first had no subscription.

Some behaviours are worth knowing and have no run of their own.

- A group without a committed offset starts at the end of the log
  (`internal/kafka/consumer.go:87`), so a restart before the first commit skips
  what had been fetched. `EventuallyDurable` fails for a new group without any
  batch error or malformed message. In `consumer` these messages count as
  skipped.
- Two processes whose counters agree within one millisecond build the same set
  member, and the second grant is not counted. `WindowRespected` leaves such
  calls out, and `rate_limit` reaches them.
- Two refusals of the local limiter that overlap, or one that cancels after its
  time to act, leave a token taken; the told delay is then too short. This is
  why `RetryAfterSuffices` speaks of a caller that is refused alone. The delay
  is advice: the delivery is retried, and throttled again.
- A worker may outlive its deadline of 30 seconds: the deferred `Shutdown` and
  the closing of the pool wait for a hanging `GET /ready` without one.
  `docs/adr/008-graceful-shutdown.md` also wants deliveries in flight to
  complete; `Shutdown` cancels their context first and leaves them to lease
  recovery.
- A secret rotated between the lookup of a batch and its initialisation is not
  yet used by that batch, contrary to the wording of `docs/spec.md:110`.

## 4. Theorems

TLAPS checks these for all values of the constants that satisfy the named
ASSUMEs, which TLC evaluates in the runs: Null is no number, instance, row or status;
MaxAttempts, LeaseDuration and Period are positive; `InstanceOf` and `ProcOf`
assign every worker an instance and every goroutine a process; the set of
subscriptions is finite; two clocks are at most `MaxSkew` apart; bounds are
naturals. All safety properties of the passing runs are proved;
`SettledProjection`, which the code does not guarantee, under the condition that
makes it true.

**Leases.** The invariant is `TypeOK /\ LeaseInv`.
`LeaseExclusion` alone is not inductive: nothing in it says why a second claim
cannot succeed. `LeaseInv` says that a claim either stands unchanged in its row
or has expired with the row showing no lease or a later deadline
(`StandsOrExpired`); that delivery and deadline identify a claim, since a lease
can only be taken over after its deadline and the new deadline is later
(`DistinctClaims`), which is why a shared owner does no harm; that an outcome
belongs to a claim of its worker; that a committing outcome still matches its
row; and that a replay holds a failed row. DeliveryRuntimeLemmas proves the
types and begins with the lemmas for `LeaseInv`, one per action, and
DeliveryRuntimeProofs has the others and combines them.
Theorems: `TypeCorrect`, `LeasesConsistent`, `LeaseProtected`, `LeaseExclusive`, `Fencing`,
`TerminalFinal` (an action property).

**Settled events.** `ProjectionExact` finds the cause of what `projection` shows:
in every behaviour in which no two outcome transactions of one event overlap
(`OutcomesApart`) a settled event shows the projection of its rows, for any
number of subscriptions and workers. Claims, redelivered messages, crashes and
replays between the read and the commit are harmless. The invariant
`ProjectionInv` adds to the property that an outcome whose siblings are all
terminal has read them as they still are: only another outcome makes a sibling
terminal, and a replay that reopens one leaves the event unsettled.
`ProjectionSettled` is the unconditional case: with one subscription the two
transactions would update the same row, and by `FencedOutcome` and
`DistinctClaims` only one can. So a lock on the event row before the projection
is read would be enough.

**No stranded delivery.** `Unstranded` is the safety part of `EventuallyTerminal`,
for all constants: an unfinished row always has a time (its deadline, its
next attempt, or at once), and from that time on the claim query finds it
(`NeverStranded`). It needs that outcomes not yet persisted and replays not yet
committed carry a time as well (`DueInv`), in particular that no outcome writes
`processing` back without a lease. That somebody then claims the row is the part
left to fairness.

**Refinement.** `DeliveryRefinementProofs!Refinement` is
`Spec => ImplementsLifecycle`. It needs the lease invariant and `RefineInv`:
a claim's row exists and its generation is not ahead of the stored one; an
outcome follows from the row its worker claimed (`Follows`), with the attempt
number, the budget decision and the acceptance that justify it. Fencing then
says that the committed outcome replaces that very row, so the commit is a
`Record` of the next attempt. `LifecycleHistory` and `LifecycleAccepted` prove
of the lifecycle alone, with a much smaller invariant, that the log is exact
and that delivered means accepted; `HistoryExact` and `DeliveredAccepted` carry
both over to the runtime, whose `AttemptHistory` and `DeliveredWasAccepted` the
`runtime` run checks. The attempt budget comes the same way: that a delivery is
open only while its budget lasts and no recorded number exceeds it
(`WithinBudget`) is inductive for the lifecycle (`LifecycleBudget`), and
`BudgetKept` is `AttemptBudget` of the runtime, without any invariant about
claims or pending outcomes of its own.

**Kafka consumer.** What may be lost depends on batches still in hand, which a
rebalance takes away and a late commit brings back. Besides `TypeOK` and the
bounds of the log (`WithinLog`) the invariant says that a batch holds events
only; that before an event of a batch there are only events of the batch and
events that are durable or skipped (`BatchHasNoHoles`), which is why a cumulative
commit loses nothing else; and that what `ProcessBatch` has passed is durable
(`ProgressIsDurable`). Theorems: `LostOnlyKnownWays`, `HandedOutHeld`, and
`NothingLost`: where no batch fails, nothing is malformed and the offsets exist,
everything below a committed offset is durable. The runs `consumer_failed_batch`
and `consumer_malformed` show that its hypotheses are needed.

**Worker process.** `TypeOK /\ PollerInv` is inductive for the poller alone:
`SlotsExact`, `NoBlockedSend`, `QuietAfterStop`. `PollerRefined` shows that every
step of the process is a step of the poller or leaves it alone, so these hold of
the poller in the worker. `OrderInv` relates the position of the main goroutine to
what is open and running, on the paths of a failed start as well; from it follow
`PoolOutlives` and `ExitsClean`.

**Event projection.** `AccInv` says what `acc` holds of the rows seen; its step
rests on `NextStatusPrecedence`, by which the switch of the loop adds one status
to the precedence order, and on one lemma for each comparison. Theorems:
`PrecedenceKept`, `SoonestKept`, `DeliveredAtKept`, for lists of any length.

**Retention.** For `NoOrphans` the invariant has to say who may insert rows for an
event: a session that creates the event is alone in doing so (`FreshInv`), and
one that found it holds a key-share lock, so no cleaner has locked it
(`KeyShareInv`). `ExpiredInv` says that what a cleaner has locked is expired even
if it changed after the snapshot; from it follows `YoungKept`. `StopIsFinal` needs
that `Stop` cancels before it waits. `ActiveKept` assumes `MaxHandouts <= 1`: then
deliveries are inserted together with their event (`FirstHandout`), and an event
that is still expired when locked has only finished ones (`TerminalInv`).
`retention_redelivered` refutes the same property for two handouts.

**Rate limiters.** The local limiter's credit and last time are one quantity,
`Used`, the time at which its last token is used up. Reservations that may still
be given back lie whole periods apart up to the last event (`ReservedInv`), so
only the last one returns a token, and a whole one (`GiveBackEffect`); every
allowed request lies a period before all of them (`PassedInv`). Theorems:
`RateKept`, `DelaySuffices`. For Redis, a granted member's stamp is at most
`MaxDelay + MaxSkew` behind any process's clock at the grant (`StampInv`), so no
script removes it within the guaranteed stretch (`StoredInv`), and the cardinality
that the script compares with the limit counts all recent grants. Theorem:
`WindowKept`, for any number of processes and any offsets and counters.

Model-checked only: liveness, which needs ENABLED and is outside the prover's
reach. `EventuallyTerminal`, `EventuallyDurableOrSkipped`, `EventuallyRemoved`,
`EventuallyRedacted`, `StopTerminates`, `BacklogDrains` and
`ExitsUnlessRequestHangs` are checked on their instances. That
`ProjectionExact` needs its hypothesis is shown by the counterexample of
`projection`.

## 5. Not modelled

- **Kafka consumer with the runtime.** The two meet in one place: a message is
  durable when `InitializeEventDeliveries` has committed. Their product has too
  many states for an instance with both a skipped commit and a lease takeover,
  and no property spans the two beyond `EventuallyDurable...` followed by
  `EventuallyTerminal`.
- **HTTP API and producer.** A request validates its input and makes one store
  or Kafka call, which the models contain as an action. A publish repeated
  because its answer was lost is a second message with the id the client chose,
  and the runtime's consumers may process any event again at any time. Messages
  with one id and different contents are not modelled.
- **API process.** One HTTP server, started and stopped in order.
- **Retry delay.** `CalculateDelay` is floating-point with a random factor; it
  adds jitter after the cap, so a delay may exceed `MaxInterval`. The models
  allow any delay of a set.
- **Secrets, payloads, headers, signatures.** Opaque values.
- **Configuration, metrics, logs, tools.** No state that the modelled code reads.
- **Failover of PostgreSQL, Kafka and Redis.** External.
