------------------------------ MODULE Retention ------------------------------
(***************************************************************************)
(* The retention cleaner of each worker (internal/retention/cleaner.go),   *)
(* its two SQL statements (repository/postgres/retention.go), and the      *)
(* transactions of the delivery runtime that touch the same rows.          *)
(*                                                                         *)
(* DeleteTerminalEvents is one statement, but not one step.  Under READ    *)
(* COMMITTED it reads a snapshot, then locks the candidate event rows one  *)
(* by one (SKIP LOCKED; a row changed since the snapshot is re-evaluated,  *)
(* with the subquery on deliveries still reading the snapshot), then       *)
(* deletes them and cascades to their deliveries, waiting for row locks.   *)
(***************************************************************************)
EXTENDS Domain, Integers, FiniteSetsExt

CONSTANTS
    Cleaners,              \* one per worker process
    Txs,                   \* sessions that initialise, persist or replay
    Events, Subs,
    AttemptBodyRetention, EventRetention, \* in ticks, rounded down
    BatchSize,             \* rows one statement may redact or delete
    MaxNow, MaxFailures, MaxReplays, MaxHandouts \* bounds

ASSUME RetentionAssumption ==
    /\ AttemptBodyRetention \in Nat
    /\ EventRetention \in Nat
    /\ BatchSize \in Nat \ {0}
    /\ {MaxNow, MaxFailures, MaxReplays, MaxHandouts} \subseteq Nat

\* NULL is none of the values a row can have.
ASSUME NullRowAssumption ==
    Null \notin Statuses /\ Null \notin [status : Statuses, updatedAt : Nat]

Ids == Events \X Subs

VARIABLES
    now,
    events,      \* committed rows: Null or [status, updatedAt]
    deliveries,  \* committed rows: Null or a status
    bodies,      \* creation time of a delivery's attempt body, or Null
    tx,          \* the open transaction of each session
    handouts,    \* how often each event's message was processed
    replays, failures,
    pc,          \* where each cleaner's goroutine is
    startedAt,   \* the time RunOnce was given
    snap,        \* candidates of the snapshot still to be locked
    changed,     \* events updated since the snapshot
    held,        \* event rows locked FOR UPDATE by the statement
    ctxDone, stopper

rowVars == <<events, deliveries, bodies>>
envVars == <<now, tx, handouts, replays, failures>>
stmtVars == <<snap, changed, held>>
vars == <<rowVars, envVars, stmtVars, pc, startedAt, ctxDone, stopper>>

NoTx == [kind |-> "none"]

\* An open transaction: a delivery row updated and its event's projection
\* computed; or an event's rows being inserted.
OpenTxs ==
    [kind : {"touch"}, d : Ids, to : Statuses, proj : Statuses]
        \cup [kind : {"insert", "inserted"}, e : Events, new : SUBSET Subs, fresh : BOOLEAN]

\* The rows, transactions and cleaner positions have the shapes of the code.
TypeOK ==
    /\ now \in 0..MaxNow
    /\ events \in [Events -> {Null} \cup [status : Statuses, updatedAt : 0..MaxNow]]
    /\ deliveries \in [Ids -> {Null} \cup Statuses]
    /\ bodies \in [Ids -> {Null} \cup 0..MaxNow]
    /\ tx \in [Txs -> {NoTx} \cup OpenTxs]
    /\ handouts \in [Events -> 0..MaxHandouts]
    /\ replays \in 0..MaxReplays
    /\ failures \in 0..MaxFailures
    /\ pc \in [Cleaners -> {"new", "redact", "delete", "lock", "select", "done"}]
    /\ startedAt \in [Cleaners -> 0..MaxNow]
    /\ snap \in [Cleaners -> SUBSET Events]
    /\ changed \in [Cleaners -> SUBSET Events]
    /\ held \in [Cleaners -> SUBSET Events]
    /\ ctxDone \in [Cleaners -> BOOLEAN]
    /\ stopper \in [Cleaners -> {"none", "closed", "returned"}]

Init ==
    /\ now = 0
    /\ events = [e \in Events |-> Null]
    /\ deliveries = [d \in Ids |-> Null]
    /\ bodies = [d \in Ids |-> Null]
    /\ tx = [t \in Txs |-> NoTx]
    /\ handouts = [e \in Events |-> 0]
    /\ replays = 0
    /\ failures = 0
    /\ pc = [c \in Cleaners |-> "new"]
    /\ startedAt = [c \in Cleaners |-> 0]
    /\ snap = [c \in Cleaners |-> {}]
    /\ changed = [c \in Cleaners |-> {}]
    /\ held = [c \in Cleaners |-> {}]
    /\ ctxDone = [c \in Cleaners |-> FALSE]
    /\ stopper = [c \in Cleaners |-> "none"]

-----------------------------------------------------------------------------
(* Row locks. *)

DeliveryLocked(d) == \E t \in Txs : tx[t].kind = "touch" /\ tx[t].d = d

\* The foreign key check of an inserted delivery holds FOR KEY SHARE.
KeyShared(e) == \E t \in Txs : tx[t].kind = "inserted" /\ tx[t].e = e /\ tx[t].new # {}

HeldByCleaner(e) == \E c \in Cleaners : e \in held[c]

End(t) == tx' = [tx EXCEPT ![t] = NoTx]

-----------------------------------------------------------------------------
(* The delivery runtime, as far as it touches these rows. *)

\* InitializeEventDeliveries: the event is inserted unless its row exists;
\* a session that is inserting the same event makes this one wait.
InsertEvent(t, e, S) ==
    /\ tx[t] = NoTx
    /\ handouts[e] < MaxHandouts
    /\ ~\E u \in Txs : tx[u].kind \in {"insert", "inserted"} /\ tx[u].e = e /\ tx[u].fresh
    /\ tx' = [tx EXCEPT ![t] =
                [kind |-> "insert", e |-> e, new |-> S, fresh |-> events[e] = Null]]
    /\ handouts' = [handouts EXCEPT ![e] = @ + 1]
    /\ UNCHANGED <<rowVars, now, replays, failures, stmtVars, pc, startedAt, ctxDone, stopper>>

\* ON CONFLICT DO NOTHING leaves the rows that are new.  Their foreign key
\* check waits for a cleaner that holds the event, and fails without it.
InsertDeliveries(t) ==
    LET e   == tx[t].e
        new == {s \in tx[t].new : deliveries[<<e, s>>] = Null}
    IN  /\ tx[t].kind = "insert"
        /\ \/ /\ tx[t].fresh \/ new = {} \/ (events[e] # Null /\ ~HeldByCleaner(e))
              /\ tx' = [tx EXCEPT ![t] =
                          [kind |-> "inserted", e |-> e, new |-> new, fresh |-> tx[t].fresh]]
           \/ /\ ~tx[t].fresh /\ new # {} /\ events[e] = Null
              /\ End(t)
        /\ UNCHANGED <<rowVars, now, handouts, replays, failures, stmtVars, pc, startedAt,
                       ctxDone, stopper>>

InsertCommit(t) ==
    LET e == tx[t].e
    IN  /\ tx[t].kind = "inserted"
        /\ events' = IF tx[t].fresh
                       THEN [events EXCEPT ![e] =
                               [status |-> IF tx[t].new = {} THEN "delivered" ELSE "pending",
                                updatedAt |-> now]]
                       ELSE events
        /\ deliveries' = [d \in Ids |-> IF d[1] = e /\ d[2] \in tx[t].new /\ deliveries[d] = Null
                                          THEN "pending"
                                          ELSE deliveries[d]]
        /\ End(t)
        /\ UNCHANGED <<bodies, now, handouts, replays, failures, stmtVars, pc, startedAt,
                       ctxDone, stopper>>

\* ClaimDeliveries: one statement; the event row is not touched.
Claim(d) ==
    /\ deliveries[d] \in {"pending", "retrying"}
    /\ ~DeliveryLocked(d)
    /\ deliveries' = [deliveries EXCEPT ![d] = "processing"]
    /\ UNCHANGED <<events, bodies, envVars, stmtVars, pc, startedAt, ctxDone, stopper>>

\* The delivery row is updated and the projection is computed from the rows
\* the session then sees: the committed ones and its own.
Touch(t, d, to) ==
    LET siblings == {x \in Ids : x[1] = d[1] /\ deliveries[x] # Null /\ x # d}
    IN  /\ tx[t] = NoTx
        /\ ~DeliveryLocked(d)
        /\ tx' = [tx EXCEPT ![t] =
                    [kind |-> "touch", d |-> d, to |-> to,
                     proj |-> ProjectStatus({deliveries[x] : x \in siblings} \cup {to})]]
        /\ UNCHANGED <<rowVars, now, handouts, failures, stmtVars, pc, startedAt, ctxDone, stopper>>

\* PersistClaimedDeliveryOutcome, first half.
Outcome(t, d, to) ==
    /\ deliveries[d] = "processing"
    /\ Touch(t, d, to)
    /\ UNCHANGED replays

\* ReplayFailedDelivery, first half.
Replay(t, d) ==
    /\ deliveries[d] = "failed"
    /\ replays < MaxReplays
    /\ replays' = replays + 1
    /\ Touch(t, d, "retrying")

\* Second half of both: the event row is updated, waiting for a cleaner that
\* holds it, and the transaction commits.
TouchCommit(t) ==
    LET d == tx[t].d
        e == d[1]
    IN  /\ tx[t].kind = "touch"
        /\ ~HeldByCleaner(e)
        /\ events' = [events EXCEPT ![e] = [status |-> tx[t].proj, updatedAt |-> now]]
        /\ deliveries' = [deliveries EXCEPT ![d] = tx[t].to]
        /\ bodies' = IF deliveries[d] = "processing" THEN [bodies EXCEPT ![d] = now] ELSE bodies
        /\ changed' = [c \in Cleaners |-> changed[c] \cup (snap[c] \cap {e})]
        /\ End(t)
        /\ UNCHANGED <<now, handouts, replays, failures, snap, held, pc, startedAt,
                       ctxDone, stopper>>

\* An error on the way: the transaction is rolled back.
Rollback(t) ==
    /\ tx[t] # NoTx
    /\ End(t)
    /\ UNCHANGED <<rowVars, now, handouts, replays, failures, stmtVars, pc, startedAt,
                   ctxDone, stopper>>

-----------------------------------------------------------------------------
(* The cleaner's goroutine. *)

\* Faulty variant: RunOnce is given the events' cutoff instead of the time.
RunOnceWithCutoff(c) ==
    /\ pc' = [pc EXCEPT ![c] = "redact"]
    /\ startedAt' = [startedAt EXCEPT ![c] = now - EventRetention]
    /\ UNCHANGED <<rowVars, envVars, stmtVars, ctxDone, stopper>>

\* runAndObserve: both cutoffs come from the time the cycle starts.
RunOnce(c) ==
    /\ pc' = [pc EXCEPT ![c] = "redact"]
    /\ startedAt' = [startedAt EXCEPT ![c] = now]
    /\ UNCHANGED <<rowVars, envVars, stmtVars, ctxDone, stopper>>

\* The first cycle runs at once, whatever happened to the context.
Start(c) == pc[c] = "new" /\ RunOnce(c)

SelectTick(c) == pc[c] = "select" /\ RunOnce(c)

SelectStop(c) ==
    /\ pc[c] = "select"
    /\ ctxDone[c] \/ stopper[c] # "none"
    /\ pc' = [pc EXCEPT ![c] = "done"]
    /\ UNCHANGED <<rowVars, envVars, stmtVars, startedAt, ctxDone, stopper>>

\* The oldest expired bodies, at most BatchSize of them, become NULL.
RedactAttemptBodies(c) ==
    LET expired == {d \in Ids : bodies[d] # Null /\ bodies[d] < startedAt[c] - AttemptBodyRetention}
        size    == IF Cardinality(expired) < BatchSize THEN Cardinality(expired) ELSE BatchSize
    IN  /\ pc[c] = "redact"
        /\ ~ctxDone[c]
        /\ \E S \in kSubset(size, expired) :
             /\ \A d \in S, x \in expired \ S : bodies[d] <= bodies[x]
             /\ bodies' = [d \in Ids |-> IF d \in S THEN Null ELSE bodies[d]]
        /\ pc' = [pc EXCEPT ![c] = "delete"]
        /\ UNCHANGED <<events, deliveries, envVars, stmtVars, startedAt, ctxDone, stopper>>

\* Faulty variant: the events' cutoff is computed with the bodies' retention.
EventCutoffOfBodies(c) == startedAt[c] - AttemptBodyRetention

EventCutoff(c) == startedAt[c] - EventRetention

\* The part of the predicate that reads the event row.
EventExpired(c, e) ==
    /\ events[e] # Null
    /\ events[e].updatedAt < EventCutoff(c)
    /\ events[e].status \in Terminal

\* DeleteTerminalEvents: the snapshot.
DeleteSnapshot(c) ==
    /\ pc[c] = "delete"
    /\ ~ctxDone[c]
    /\ snap' = [snap EXCEPT ![c] =
                  {e \in Events : /\ EventExpired(c, e)
                                  /\ \A s \in Subs : deliveries[<<e, s>>] \in Terminal \cup {Null}}]
    /\ changed' = [changed EXCEPT ![c] = {}]
    /\ pc' = [pc EXCEPT ![c] = "lock"]
    /\ UNCHANGED <<rowVars, envVars, held, startedAt, ctxDone, stopper>>

\* Faulty variant: a row that changed since the snapshot is locked unseen.
LockCandidateUnseen(c, e) ==
    /\ pc[c] = "lock"
    /\ e \in snap[c]
    /\ Cardinality(held[c]) < BatchSize
    /\ snap' = [snap EXCEPT ![c] = @ \ {e}]
    /\ held' = IF ~KeyShared(e) /\ ~HeldByCleaner(e) THEN [held EXCEPT ![c] = @ \cup {e}] ELSE held
    /\ UNCHANGED <<rowVars, envVars, changed, pc, startedAt, ctxDone, stopper>>

\* FOR UPDATE OF event SKIP LOCKED on the next candidate.
LockCandidate(c, e) ==
    /\ pc[c] = "lock"
    /\ e \in snap[c]
    /\ Cardinality(held[c]) < BatchSize
    /\ snap' = [snap EXCEPT ![c] = @ \ {e}]
    /\ held' = IF ~KeyShared(e) /\ ~HeldByCleaner(e) /\ (e \in changed[c] => EventExpired(c, e))
                 THEN [held EXCEPT ![c] = @ \cup {e}]
                 ELSE held
    /\ UNCHANGED <<rowVars, envVars, changed, pc, startedAt, ctxDone, stopper>>

\* The rows of E go, with their deliveries and attempts.
Erase(E) ==
    /\ events' = [e \in Events |-> IF e \in E THEN Null ELSE events[e]]
    /\ deliveries' = [d \in Ids |-> IF d[1] \in E THEN Null ELSE deliveries[d]]
    /\ bodies' = [d \in Ids |-> IF d[1] \in E THEN Null ELSE bodies[d]]

\* Faulty variant: the cascade does not wait for locked delivery rows.
DeleteRowsUnderLock(c) ==
    /\ pc[c] = "lock"
    /\ snap[c] = {} \/ Cardinality(held[c]) = BatchSize
    /\ Erase(held[c])
    /\ snap' = [x \in Cleaners |-> IF x = c THEN {} ELSE snap[x] \ held[c]]
    /\ held' = [held EXCEPT ![c] = {}]
    /\ pc' = [pc EXCEPT ![c] = "select"]
    /\ UNCHANGED <<envVars, changed, startedAt, ctxDone, stopper>>

\* DELETE with its cascade, which waits for locked delivery rows.  A deleted
\* row is gone from the other cleaners' scans as well.
DeleteRows(c) ==
    /\ pc[c] = "lock"
    /\ snap[c] = {} \/ Cardinality(held[c]) = BatchSize
    /\ \A e \in held[c], s \in Subs : ~DeliveryLocked(<<e, s>>)
    /\ Erase(held[c])
    /\ snap' = [x \in Cleaners |-> IF x = c THEN {} ELSE snap[x] \ held[c]]
    /\ held' = [held EXCEPT ![c] = {}]
    /\ pc' = [pc EXCEPT ![c] = "select"]
    /\ UNCHANGED <<envVars, changed, startedAt, ctxDone, stopper>>

\* Faulty variant: an error ends the goroutine.
EndCycleForGood(c) ==
    /\ snap' = [snap EXCEPT ![c] = {}]
    /\ held' = [held EXCEPT ![c] = {}]
    /\ pc' = [pc EXCEPT ![c] = "done"]
    /\ UNCHANGED <<rowVars, now, handouts, replays, changed, startedAt, ctxDone, stopper>>

\* An error of either statement ends the cycle and releases its locks.
EndCycle(c) ==
    /\ snap' = [snap EXCEPT ![c] = {}]
    /\ held' = [held EXCEPT ![c] = {}]
    /\ pc' = [pc EXCEPT ![c] = "select"]
    /\ UNCHANGED <<rowVars, now, handouts, replays, changed, startedAt, ctxDone, stopper>>

CycleFails(c) ==
    /\ pc[c] \in {"redact", "delete", "lock"}
    /\ \/ ctxDone[c] /\ UNCHANGED failures
       \/ failures < MaxFailures /\ failures' = failures + 1
    /\ UNCHANGED tx
    /\ EndCycle(c)

\* The cleaner holds an event row and waits for a delivery row; a session
\* holds that delivery row and waits for the event row.  PostgreSQL detects
\* the deadlock and aborts one of the two.
BreakDeadlock(c, t) ==
    /\ pc[c] = "lock"
    /\ tx[t].kind = "touch"
    /\ tx[t].d[1] \in held[c]
    /\ \/ /\ EndCycle(c)
          /\ UNCHANGED <<tx, failures>>
       \/ /\ End(t)
          /\ UNCHANGED <<rowVars, now, handouts, replays, failures, stmtVars, pc, startedAt,
                         ctxDone, stopper>>

-----------------------------------------------------------------------------
(* Shutdown: the context is cancelled first, then Stop is called. *)

Cancel(c) ==
    /\ ~ctxDone[c]
    /\ ctxDone' = [ctxDone EXCEPT ![c] = TRUE]
    /\ UNCHANGED <<rowVars, envVars, stmtVars, pc, startedAt, stopper>>

StopBegins(c) ==
    /\ ctxDone[c]
    /\ stopper[c] = "none"
    /\ stopper' = [stopper EXCEPT ![c] = "closed"]
    /\ UNCHANGED <<rowVars, envVars, stmtVars, pc, startedAt, ctxDone>>

\* Faulty variant: Stop does not wait for the running cycle.
StopReturnsAtOnce(c) ==
    /\ stopper[c] = "closed"
    /\ stopper' = [stopper EXCEPT ![c] = "returned"]
    /\ UNCHANGED <<rowVars, envVars, stmtVars, pc, startedAt, ctxDone>>

\* A goroutine that has not run yet is not waited for.
StopReturns(c) ==
    /\ stopper[c] = "closed"
    /\ pc[c] \in {"new", "done"}
    /\ stopper' = [stopper EXCEPT ![c] = "returned"]
    /\ UNCHANGED <<rowVars, envVars, stmtVars, pc, startedAt, ctxDone>>

Tick ==
    /\ now < MaxNow
    /\ now' = now + 1
    /\ UNCHANGED <<rowVars, tx, handouts, replays, failures, stmtVars, pc, startedAt,
                   ctxDone, stopper>>

-----------------------------------------------------------------------------
Runtime ==
    \/ \E t \in Txs, e \in Events, S \in SUBSET Subs : InsertEvent(t, e, S)
    \/ \E t \in Txs : InsertDeliveries(t) \/ InsertCommit(t) \/ TouchCommit(t) \/ Rollback(t)
    \/ \E d \in Ids : Claim(d)
    \/ \E t \in Txs, d \in Ids, to \in {"delivered", "failed", "retrying"} : Outcome(t, d, to)
    \/ \E t \in Txs, d \in Ids : Replay(t, d)

\* One step of a cycle that is running and not refused by the context.
Cycle(c) ==
    \/ RedactAttemptBodies(c) \/ DeleteSnapshot(c) \/ DeleteRows(c)
    \/ \E e \in Events : LockCandidate(c, e)

Clean(c) ==
    \/ Start(c) \/ SelectTick(c) \/ SelectStop(c) \/ Cycle(c) \/ CycleFails(c)
    \/ \E t \in Txs : BreakDeadlock(c, t)
    \/ Cancel(c) \/ StopBegins(c) \/ StopReturns(c)

Next == Tick \/ Runtime \/ \E c \in Cleaners : Clean(c)

Spec == Init /\ [][Next]_vars

\* Time passes, the ticker fires, statements run, sessions end and deadlocks
\* are detected.  A session waiting for a row lock is woken when the lock is
\* released, long before the next cycle: strong fairness.  A stopped worker
\* owes nothing.
Fairness ==
    /\ WF_vars(Tick)
    /\ \A t \in Txs : SF_vars(InsertDeliveries(t) \/ InsertCommit(t) \/ TouchCommit(t))
    /\ \A c \in Cleaners :
         /\ WF_vars(Start(c))
         /\ WF_vars(SelectTick(c))
         /\ WF_vars(Cycle(c))
         /\ \A t \in Txs : WF_vars(BreakDeadlock(c, t))

FairSpec == Spec /\ Fairness

-----------------------------------------------------------------------------
(* Properties. *)

\* No cleanup cycle removes a delivery that is not delivered or failed,
\* whatever commits between the statement's snapshot and its delete.
ActiveSurvives ==
    [][\A d \in Ids : deliveries[d] \notin Terminal \cup {Null} => deliveries'[d] # Null]_vars

\* An event row is removed only when nothing updated it for EventRetention,
\* counted at the removal and not at the snapshot.
YoungSurvives ==
    [][\A e \in Events : events[e] # Null /\ events'[e] = Null
                           => events[e].updatedAt + EventRetention < now]_vars

\* A delivery row has its event row, and a session that has updated a
\* delivery row will still find it, and its event, when it commits.
NoOrphan ==
    /\ \A d \in Ids : deliveries[d] # Null => events[d[1]] # Null
    /\ \A t \in Txs : tx[t].kind = "touch" => deliveries[tx[t].d] # Null

\* Once Stop has returned the cleaner is not in its delete statement and no
\* longer reaches it, even if its goroutine only starts then.
StopWaits == \A c \in Cleaners : stopper[c] = "returned" => pc[c] \notin {"delete", "lock"}

Stopped == \A c \in Cleaners : ctxDone[c]

\* A finished event that nobody touches again is removed once its retention
\* has passed, although a cycle takes at most BatchSize rows and may fail.
EventuallyRemoved ==
    \A e \in Events, u \in 0..MaxNow :
      (/\ events[e] # Null
       /\ events[e].status \in Terminal
       /\ events[e].updatedAt = u
       /\ u + EventRetention < MaxNow)
      ~> \/ Stopped
         \/ events[e] = Null
         \/ events[e].updatedAt # u
         \/ \E s \in Subs : deliveries[<<e, s>>] \notin Terminal \cup {Null}

\* A response body is redacted or removed once its retention has passed.
EventuallyRedacted ==
    \A d \in Ids, u \in 0..MaxNow :
      (bodies[d] = u /\ u + AttemptBodyRetention < MaxNow) ~> (Stopped \/ bodies[d] # u)

=============================================================================
