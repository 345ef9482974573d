----------------------- MODULE DeliveryRuntimeLemmas ------------------------
(***************************************************************************)
(* Type correctness of DeliveryRuntime, for any number of events,          *)
(* subscriptions, workers, instances and requests, any lease length, any   *)
(* set of delays and status codes, and no bound on the clock or the        *)
(* replays other than the (arbitrary) constants.  The actions before the   *)
(* commit of an outcome keep the lease invariant.                          *)
(***************************************************************************)
EXTENDS DeliveryRuntime, TLAPS

Inv == TypeOK /\ LeaseInv

-----------------------------------------------------------------------------
(* The operators of Domain. *)

\* deliverToSubscription yields one of the four outcomes, and the attempt
\* number is 0 exactly when the limiter denied the call.
LEMMA ResultType ==
    ASSUME NEW n \in Nat, NEW reply \in Replies
    PROVE  LET result == deliverToSubscription(n, reply)
           IN  /\ result.outcome \in {"success", "failure", "retry", "throttled"}
               /\ result.number \in {0, n + 1}
               /\ result.outcome = "throttled" <=> result.number = 0
               /\ result.outcome = "retry" => n + 1 < MaxAttempts
<1>1. 0 # n + 1
  OBVIOUS
<1> QED
  BY <1>1 DEF deliverToSubscription, Limited, IsSuccess, CanRetry

\* applyDeliveryResult makes a row of a row and leaves the lease columns and
\* the generation alone; persisting clears the lease columns later.
LEMMA ApplyType ==
    ASSUME NEW r \in Rows, NEW nextAt \in Nat,
           NEW result,
           result.outcome \in {"success", "failure", "retry", "throttled"}
    PROVE  LET x == applyDeliveryResult(r, result, nextAt)
           IN  /\ x \in Rows
               /\ x.deadline = r.deadline
               /\ x.owner = r.owner
               /\ x.generation = r.generation
<1> DEFINE counted == [r EXCEPT !.attempts = IF result.number # 0 THEN @ + 1 ELSE @]
<1>1. counted \in Rows /\ counted.deadline = r.deadline /\ counted.owner = r.owner
        /\ counted.generation = r.generation
  BY DEF Rows
<1>2. CASE result.outcome = "success"
  BY <1>1, <1>2, Zenon DEF applyDeliveryResult, MarkAsDelivered, Rows, Statuses
<1>3. CASE result.outcome = "failure"
  BY <1>1, <1>3, Zenon DEF applyDeliveryResult, MarkAsFailed, Rows, Statuses
<1>4. CASE result.outcome = "retry"
  <2>1. applyDeliveryResult(r, result, nextAt) =
          [r EXCEPT !.status = "retrying", !.attempts = r.attempts + 1, !.nextAt = nextAt]
    BY <1>4 DEF applyDeliveryResult, MarkAsRetrying
  <2>2. r.attempts + 1 \in Nat
    BY DEF Rows
  <2> QED
    BY <2>1, <2>2, Zenon DEF Rows, Statuses
<1>5. CASE result.outcome = "throttled"
  BY <1>5, Zenon DEF applyDeliveryResult, MarkAsThrottled, Rows, Statuses
<1> QED
  BY <1>2, <1>3, <1>4, <1>5

\* The projection of an event is an event status.
LEMMA ProjectionType ==
    ASSUME NEW d, NEW r
    PROVE  ReadProjection(d, r) \in Statuses
BY DEF ReadProjection, ProjectStatus, Statuses

\* A replay makes a row of a row.
LEMMA ReplayType ==
    ASSUME NEW r \in Rows, NEW at \in Nat
    PROVE  /\ ScheduleReplay(r, at) \in Rows
           /\ ScheduleReplay(r, at).nextAt = at
           /\ ScheduleReplay(r, at).deadline = Null
<1>1. r.generation + 1 \in Nat \ {0}
  BY DEF Rows
<1> QED
  BY <1>1, Zenon DEF ScheduleReplay, Rows, Statuses

\* So does a claim.
LEMMA LeaseType ==
    ASSUME NEW r \in Rows, NEW i \in Instances, NEW t \in Nat
    PROVE  /\ MarkAsProcessing(r, i, t) \in Rows
           /\ MarkAsProcessing(r, i, t).status = "processing"
           /\ MarkAsProcessing(r, i, t).deadline = t
           /\ MarkAsProcessing(r, i, t).attempts = r.attempts
BY Zenon DEF MarkAsProcessing, Rows, Statuses

-----------------------------------------------------------------------------
(* Types. *)

\* An empty store with idle workers satisfies the types and both invariants.
LEMMA InitInv == Init => Inv
<1> SUFFICES ASSUME Init PROVE Inv
  OBVIOUS
<1>1. TypeOK
  <2>1. NoJob \in Jobs
    BY DEF NoJob, Jobs
  <2>2. attempts \in [Ids -> Seq(AttemptRows)]
    BY DEF Init
  <2> QED
    BY <2>1, <2>2 DEF Init, TypeOK
<1>2. LeaseInv
  BY DEF Init, LeaseInv, StandsOrExpired, DistinctClaims, OutcomeOfClaim, FencedOutcome,
     ReplayHoldsFailed
<1> QED
  BY <1>1, <1>2 DEF Inv

\* Ending a batch keeps the types of the workers' local state.
LEMMA DropType ==
    ASSUME TypeOK, NEW W, Drop(W),
           UNCHANGED <<now, dbVars, replay, accepted>>
    PROVE  TypeOK'
<1>1. NoJob \in Jobs
  BY DEF NoJob, Jobs
<1> QED
  BY <1>1 DEF TypeOK, Drop, dbVars

\* Leasing rows that exist gives well-formed rows and claims.
LEMMA LeaseTypes ==
    ASSUME TypeOK, NEW w \in Workers, NEW S \in SUBSET Candidates, Lease(w, S)
    PROVE  /\ deliveries' \in [Ids -> Rows \cup {Null}]
           /\ claims' \in [Workers -> SUBSET Claims]
<1> DEFINE leased(d) == MarkAsProcessing(deliveries[d], InstanceOf[w], now + LeaseDuration)
<1>1. \A d \in S : d \in Ids /\ leased(d) \in Rows
  <2> SUFFICES ASSUME NEW d \in S PROVE d \in Ids /\ leased(d) \in Rows
    OBVIOUS
  <2>1. d \in Ids /\ deliveries[d] \in Rows
    BY DEF Candidates, TypeOK
  <2>2. InstanceOf[w] \in Instances /\ now + LeaseDuration \in Nat
    BY WorkersAssumption, LeaseAssumption DEF TypeOK
  <2> QED
    BY <2>1, <2>2, LeaseType
<1>2. {[id |-> d, row |-> leased(d)] : d \in S} \in SUBSET Claims
  BY <1>1 DEF Claims
<1>3. deliveries' = [d \in Ids |-> IF d \in S THEN leased(d) ELSE deliveries[d]]
  BY DEF Lease
<1>4. claims' = [claims EXCEPT ![w] = {[id |-> d, row |-> leased(d)] : d \in S}]
  BY DEF Lease
<1>5. deliveries' \in [Ids -> Rows \cup {Null}]
  <2> HIDE DEF leased
  <2> QED
    BY <1>1, <1>3 DEF TypeOK
<1>6. claims' \in [Workers -> SUBSET Claims]
  <2> DEFINE C == {[id |-> d, row |-> leased(d)] : d \in S}
  <2>1. C \in SUBSET Claims /\ claims' = [claims EXCEPT ![w] = C]
    BY <1>2, <1>4
  <2> HIDE DEF C
  <2> QED
    BY <2>1 DEF TypeOK
<1> QED
  BY <1>5, <1>6

\* Every step keeps the types.
LEMMA TypeStep == Inv /\ [Next]_vars => TypeOK'
<1> SUFFICES ASSUME Inv, [Next]_vars PROVE TypeOK'
  OBVIOUS
<1> TypeOK /\ LeaseInv
  BY DEF Inv
<1>1. ASSUME NEW s \in Subs, CreateSubscription(s) \/ DeleteSubscription(s) PROVE TypeOK'
  BY <1>1, Zenon DEF TypeOK, CreateSubscription, DeleteSubscription, workerVars
<1>2. ASSUME NEW w \in Workers, NEW B \in SUBSET Events, LoadSubscriptions(w, B) PROVE TypeOK'
  <2>1. [todo |-> B, batch |-> B, total |-> 0, subs |-> GetByEventTypes] \in Jobs
    BY DEF Jobs, GetByEventTypes
  <2> QED
    BY <1>2, <2>1 DEF TypeOK, LoadSubscriptions, dbVars
<1>3. ASSUME NEW w \in Workers, NEW e \in Events, InitializeEventDeliveries(w, e) PROVE TypeOK'
  <2> DEFINE matched == Matching(e, job[w].subs)
             left    == job[w].todo \ {e}
             found   == {s \in Subs : s \in matched \/ deliveries[<<e, s>>] # Null}
  <2>1. job[w] \in Jobs /\ Cardinality(found) \in Nat
    BY SubsAssumption, Zenon DEF TypeOK
  <2>2. job' \in [Workers -> Jobs]
    <3>1. job' = [job EXCEPT ![w] = [job[w] EXCEPT !.todo = left,
                                                   !.total = job[w].total + Cardinality(found)]]
      BY <1>3, <2>1, Zenon DEF InitializeEventDeliveries, TypeOK, Jobs
    <3>2. job[w].total + Cardinality(found) \in Nat
      BY <2>1 DEF Jobs
    <3>3. left \in SUBSET Events
      BY <2>1 DEF Jobs
    <3> HIDE DEF left, found
    <3>4. [job[w] EXCEPT !.todo = left, !.total = job[w].total + Cardinality(found)] \in Jobs
      BY <2>1, <3>2, <3>3, Zenon DEF Jobs
    <3> QED
      BY <3>1, <3>4 DEF TypeOK
  <2>3. deliveries' \in [Ids -> Rows \cup {Null}]
    <3>1. NewDelivery \in Rows
      BY DEF NewDelivery, Rows, Statuses
    <3> QED
      BY <1>3, <3>1 DEF InitializeEventDeliveries, TypeOK
  <2>4. events' \in [Events -> Statuses \cup {Null}]
    BY <1>3 DEF InitializeEventDeliveries, TypeOK, Statuses
  <2> QED
    BY <1>3, <2>2, <2>3, <2>4, Zenon DEF InitializeEventDeliveries, TypeOK
<1>4. ASSUME NEW w \in Workers, NEW S \in SUBSET Ids, ClaimEventDeliveries(w, S) PROVE TypeOK'
  <2>1. NoJob \in Jobs
    BY DEF NoJob, Jobs
  <2>2. S \in SUBSET Candidates /\ Lease(w, S)
    BY <1>4 DEF ClaimEventDeliveries
  <2> QED
    BY <1>4, <2>1, <2>2, LeaseTypes DEF TypeOK, ClaimEventDeliveries
<1>5. ASSUME NEW w \in Workers, NEW S \in SUBSET Ids, ClaimDeliveries(w, S) PROVE TypeOK'
  <2>1. S \in SUBSET Candidates /\ Lease(w, S)
    BY <1>5 DEF ClaimDeliveries
  <2> QED
    BY <1>5, <2>1, LeaseTypes DEF TypeOK, ClaimDeliveries
<1>6. ASSUME NEW w \in Workers, NEW c \in claims[w], NEW reply \in Replies,
             NEW delay \in RetryDelays, Deliver(w, c, reply, delay)
      PROVE  TypeOK'
  <2> DEFINE result == deliverToSubscription(c.row.attempts, reply)
             x      == applyDeliveryResult(c.row, result, now + delay)
  <2>1. c.id \in Ids /\ c.row \in Rows /\ c.row.attempts \in Nat /\ c.row.generation \in Nat \ {0}
    BY DEF TypeOK, Claims, Rows
  <2>2. result.outcome \in {"success", "failure", "retry", "throttled"} /\ result.number \in Nat
    BY <2>1, ResultType
  <2>3. now + delay \in Nat
    BY BoundsAssumption DEF TypeOK
  <2> HIDE DEF result
  <2>4. x \in Rows
    BY <2>1, <2>2, <2>3, ApplyType
  <2> HIDE DEF x
  <2>5. [id |-> c.id, row |-> x, number |-> result.number] \in Outcomes
    BY <2>1, <2>2, <2>4 DEF Outcomes
  <2>6. cur' = [cur EXCEPT ![w] = [id |-> c.id, row |-> x, number |-> result.number]]
    BY <1>6 DEF Deliver, result, x
  <2>7. accepted' \subseteq (Ids \X (Nat \ {0}))
    BY <1>6, <2>1 DEF Deliver, TypeOK
  <2> QED
    BY <1>6, <2>5, <2>6, <2>7 DEF Deliver, TypeOK, dbVars
<1>7. ASSUME NEW w \in Workers, PersistUpdate(w) PROVE TypeOK'
  BY <1>7, ProjectionType DEF TypeOK, PersistUpdate, dbVars
<1>8. ASSUME NEW w \in Workers, PersistClaimLost(w) \/ Abandon(w) PROVE TypeOK'
  BY <1>8, DropType DEF PersistClaimLost, Abandon
<1>9. ASSUME NEW w \in Workers, PersistCommit(w) PROVE TypeOK'
  <2>1. cur[w] \in Outcomes
    BY <1>9 DEF LeaseInv, OutcomeOfClaim, PersistCommit
  <2>2. deliveries' \in [Ids -> Rows \cup {Null}]
    <3>1. [cur[w].row EXCEPT !.owner = Null, !.deadline = Null] \in Rows
      BY <2>1, Zenon DEF Outcomes, Rows
    <3> QED
      BY <1>9, <3>1, Zenon DEF PersistCommit, TypeOK
  <2>3. attempts' \in [Ids -> Seq(AttemptRows)]
    <3>1. cur[w].id \in Ids
      BY <2>1 DEF Outcomes
    <3>2. CASE cur[w].number = 0
      BY <1>9, <3>1, <3>2 DEF PersistCommit, TypeOK
    <3>3. CASE cur[w].number # 0
      <4>1. AttemptRow(cur[w]) \in AttemptRows
        BY <2>1, <3>3 DEF AttemptRow, AttemptRows, Outcomes, Rows
      <4>2. Append(attempts[cur[w].id], AttemptRow(cur[w])) \in Seq(AttemptRows)
        BY <3>1, <4>1 DEF TypeOK
      <4> QED
        BY <1>9, <3>1, <3>3, <4>2 DEF PersistCommit, TypeOK
    <3> QED
      BY <3>2, <3>3
  <2> QED
    BY <1>9, <2>2, <2>3, Zenon DEF PersistCommit, TypeOK
<1>10. ASSUME NEW q \in Requests, NEW d \in Ids, ReplayUpdate(q, d) PROVE TypeOK'
  <2> DEFINE r == ScheduleReplay(deliveries[d], now)
  <2>1. r \in Rows
    BY <1>10, ReplayType DEF ReplayUpdate, TypeOK
  <2> HIDE DEF r
  <2>2. [id |-> d, row |-> r, proj |-> ReadProjection(d, r)] \in [id : Ids, row : Rows, proj : Statuses]
    BY <2>1, ProjectionType
  <2>3. replay' = [replay EXCEPT ![q] = [id |-> d, row |-> r, proj |-> ReadProjection(d, r)]]
    BY <1>10 DEF ReplayUpdate, r
  <2> QED
    BY <1>10, <2>2, <2>3 DEF ReplayUpdate, TypeOK, dbVars, workerVars
<1>11. ASSUME NEW q \in Requests, ReplayCommit(q) PROVE TypeOK'
  BY <1>11, Zenon DEF TypeOK, ReplayCommit, workerVars
<1>12. ASSUME NEW q \in Requests, ReplayRollback(q) PROVE TypeOK'
  BY <1>12 DEF TypeOK, ReplayRollback, workerVars, dbVars
<1>13. ASSUME NEW i \in Instances, Crash(i) PROVE TypeOK'
  BY <1>13, DropType DEF Crash
<1>14. CASE Tick
  BY <1>14 DEF TypeOK, Tick, dbVars, workerVars
<1>15. CASE UNCHANGED vars
  BY <1>15 DEF TypeOK, vars, dbVars, workerVars
<1> QED
  BY <1>1, <1>2, <1>3, <1>4, <1>5, <1>6, <1>7, <1>8, <1>9, <1>10, <1>11, <1>12, <1>13, <1>14,
     <1>15 DEF Next, Workers, DeliverAny, Persist

-----------------------------------------------------------------------------
(* Actions that keep the lease invariant. *)

\* Where no claim, outcome, row or replay changes and time does not go back,
\* the invariant stays.
LEMMA LeaseFrame ==
    ASSUME Inv, TypeOK', now' >= now,
           UNCHANGED <<deliveries, claims, cur, replay>>,
           \A w \in Workers : pc'[w] \in {"persist", "commit"} => pc'[w] = pc[w]
    PROVE  LeaseInv'
<1> TypeOK /\ LeaseInv
  BY DEF Inv
<1>1. StandsOrExpired'
  <2> SUFFICES ASSUME NEW w \in Workers, NEW c \in claims[w]
               PROVE  /\ c.row.status = "processing"
                      /\ c.row.deadline \in Nat
                      /\ \/ deliveries[c.id] = c.row
                         \/ /\ c.row.deadline <= now'
                            /\ \/ deliveries[c.id].deadline = Null
                               \/ deliveries[c.id].deadline > c.row.deadline
    BY DEF StandsOrExpired
  <2>1. now \in Nat /\ now' \in Nat
    BY DEF TypeOK
  <2> QED
    BY <2>1 DEF LeaseInv, StandsOrExpired
<1>2. DistinctClaims' /\ OutcomeOfClaim' /\ FencedOutcome' /\ ReplayHoldsFailed'
  BY DEF LeaseInv, DistinctClaims, OutcomeOfClaim, FencedOutcome, ReplayHoldsFailed
<1> QED
  BY <1>1, <1>2 DEF LeaseInv

\* A worker that drops its batch only loses claims.
LEMMA LeaseDrop ==
    ASSUME Inv, NEW W, Drop(W), UNCHANGED <<now, dbVars, replay, accepted>>
    PROVE  LeaseInv'
<1> TypeOK /\ LeaseInv
  BY DEF Inv
<1>1. \A w \in Workers : claims'[w] = {} \/ claims'[w] = claims[w]
  BY DEF Drop, TypeOK
<1>2. \A w \in Workers : pc'[w] \in {"persist", "commit"} =>
        pc'[w] = pc[w] /\ cur'[w] = cur[w] /\ claims'[w] = claims[w]
  BY DEF Drop, TypeOK
<1>3. StandsOrExpired' /\ DistinctClaims'
  BY <1>1 DEF LeaseInv, StandsOrExpired, DistinctClaims, dbVars
<1>4. OutcomeOfClaim' /\ FencedOutcome'
  BY <1>2 DEF LeaseInv, OutcomeOfClaim, FencedOutcome, dbVars
<1>5. ReplayHoldsFailed'
  BY DEF LeaseInv, ReplayHoldsFailed, dbVars
<1> QED
  BY <1>3, <1>4, <1>5 DEF LeaseInv

\* Claiming candidates: every other claim on such a row has run out, so the
\* new deadline differs from all of theirs.
LEMMA LeaseClaim ==
    ASSUME Inv, NEW w \in Workers, NEW S \in SUBSET Candidates, Lease(w, S),
           pc[w] \notin {"persist", "commit"},
           pc'[w] \notin {"persist", "commit"},
           \A v \in Workers \ {w} : pc'[v] = pc[v],
           UNCHANGED <<now, cur, replay>>
    PROVE  LeaseInv'
<1> DEFINE leased(d) == MarkAsProcessing(deliveries[d], InstanceOf[w], now + LeaseDuration)
<1> TypeOK /\ LeaseInv
  BY DEF Inv
<1>1. now \in Nat /\ now + LeaseDuration \in Nat /\ now < now + LeaseDuration
  BY LeaseAssumption DEF TypeOK
<1>2. \A d \in S : /\ d \in Ids
                   /\ deliveries[d] \in Rows
                   /\ Claimable(deliveries[d])
                   /\ ~Locked(d)
                   /\ leased(d).status = "processing"
                   /\ leased(d).deadline = now + LeaseDuration
  <2> SUFFICES ASSUME NEW d \in S
               PROVE  /\ d \in Ids
                      /\ deliveries[d] \in Rows
                      /\ Claimable(deliveries[d])
                      /\ ~Locked(d)
                      /\ leased(d).status = "processing"
                      /\ leased(d).deadline = now + LeaseDuration
    OBVIOUS
  <2>1. d \in Ids /\ deliveries[d] \in Rows /\ Claimable(deliveries[d]) /\ ~Locked(d)
    BY DEF Candidates, TypeOK
  <2>2. InstanceOf[w] \in Instances
    BY WorkersAssumption
  <2> QED
    BY <1>1, <2>1, <2>2, LeaseType
<1>3. \A d \in Ids : deliveries'[d] = IF d \in S THEN leased(d) ELSE deliveries[d]
  BY DEF Lease
<1>4. claims'[w] = {[id |-> d, row |-> leased(d)] : d \in S}
        /\ \A v \in Workers \ {w} : claims'[v] = claims[v]
  BY DEF Lease, TypeOK
<1> HIDE DEF leased
<1>5. \A v \in Workers : \A c \in claims[v] :
        /\ c.id \in Ids
        /\ c.id \in S => c.row.deadline <= now
  <2> SUFFICES ASSUME NEW v \in Workers, NEW c \in claims[v]
               PROVE  c.id \in Ids /\ (c.id \in S => c.row.deadline <= now)
    OBVIOUS
  <2>1. c.id \in Ids
    BY DEF TypeOK, Claims
  <2>2. ASSUME c.id \in S PROVE c.row.deadline <= now
    BY <1>2, <2>2 DEF LeaseInv, StandsOrExpired, Claimable
  <2> QED
    BY <2>1, <2>2
<1>6. \A c \in claims'[w] : c.id \in S /\ c.row = leased(c.id)
  BY <1>4
<1>7. StandsOrExpired'
  <2> SUFFICES ASSUME NEW v \in Workers, NEW c \in claims'[v]
               PROVE  /\ c.row.status = "processing"
                      /\ c.row.deadline \in Nat
                      /\ \/ deliveries'[c.id] = c.row
                         \/ /\ c.row.deadline <= now
                            /\ \/ deliveries'[c.id].deadline = Null
                               \/ deliveries'[c.id].deadline > c.row.deadline
    BY DEF StandsOrExpired
  <2>1. CASE v = w
    BY <1>1, <1>2, <1>3, <1>6, <2>1
  <2>2. CASE v # w /\ c.id \in S
    BY <1>1, <1>2, <1>3, <1>4, <1>5, <2>2, SMTT(30) DEF LeaseInv, StandsOrExpired
  <2>3. CASE v # w /\ c.id \notin S
    BY <1>3, <1>4, <1>5, <2>3 DEF LeaseInv, StandsOrExpired
  <2> QED
    BY <2>1, <2>2, <2>3
<1>8. DistinctClaims'
  <2> SUFFICES ASSUME NEW w1 \in Workers, NEW w2 \in Workers,
                      NEW c1 \in claims'[w1], NEW c2 \in claims'[w2],
                      c1.id = c2.id, c1.row.deadline = c2.row.deadline
               PROVE  w1 = w2 /\ c1 = c2
    BY DEF DistinctClaims
  <2>1. CASE w1 = w /\ w2 = w
    BY <1>4, <2>1
  <2>2. CASE w1 # w /\ w2 # w
    BY <1>4, <2>2 DEF LeaseInv, DistinctClaims
  <2>3. CASE w1 = w /\ w2 # w
    BY <1>1, <1>2, <1>4, <1>5, <1>6, <2>3 DEF LeaseInv, StandsOrExpired
  <2>4. CASE w1 # w /\ w2 = w
    BY <1>1, <1>2, <1>4, <1>5, <1>6, <2>4 DEF LeaseInv, StandsOrExpired
  <2> QED
    BY <2>1, <2>2, <2>3, <2>4
<1>9. OutcomeOfClaim'
  BY <1>4 DEF LeaseInv, OutcomeOfClaim
<1>10. FencedOutcome'
  <2> SUFFICES ASSUME NEW v \in Workers, pc'[v] = "commit"
               PROVE  \E c \in claims'[v] : c.id = cur[v].id /\ deliveries'[c.id] = c.row
    BY DEF FencedOutcome
  <2>1. v # w /\ pc[v] = "commit" /\ claims'[v] = claims[v]
    BY <1>4
  <2>2. PICK c \in claims[v] : c.id = cur[v].id /\ deliveries[c.id] = c.row
    BY <2>1 DEF LeaseInv, FencedOutcome
  <2>3. Locked(c.id)
    BY <2>1, <2>2 DEF Locked
  <2> QED
    BY <1>2, <1>3, <1>5, <2>1, <2>2, <2>3
<1>11. ReplayHoldsFailed'
  <2> SUFFICES ASSUME NEW q \in Requests, replay[q] # Null
               PROVE  deliveries'[replay[q].id] = deliveries[replay[q].id]
    BY DEF LeaseInv, ReplayHoldsFailed
  <2>1. Locked(replay[q].id) /\ replay[q].id \in Ids
    BY DEF Locked, TypeOK
  <2> QED
    BY <1>2, <1>3, <2>1
<1> QED
  BY <1>7, <1>8, <1>9, <1>10, <1>11 DEF LeaseInv

\* A redelivered message creates rows only where there are none, and claims,
\* transactions and replays are about rows that exist.
LEMMA LeaseInitialize ==
    ASSUME Inv, NEW w \in Workers, NEW e \in Events, InitializeEventDeliveries(w, e)
    PROVE  LeaseInv'
<1> TypeOK /\ LeaseInv
  BY DEF Inv
<1>1. UNCHANGED <<now, claims, cur, replay>>
  BY DEF InitializeEventDeliveries
<1>2. \A v \in Workers : pc'[v] \in {"persist", "commit"} => pc'[v] = pc[v]
  BY DEF InitializeEventDeliveries, TypeOK
<1>3. \A d \in Ids : \/ deliveries'[d] = deliveries[d]
                     \/ deliveries[d] = Null /\ deliveries'[d].deadline = Null
  BY DEF InitializeEventDeliveries, NewDelivery
<1>4. \A v \in Workers : \A c \in claims[v] : c.id \in Ids /\ c.row \in Rows
  BY DEF TypeOK, Claims
<1>5. StandsOrExpired'
  <2> SUFFICES ASSUME NEW v \in Workers, NEW c \in claims[v]
               PROVE  /\ c.row.status = "processing"
                      /\ c.row.deadline \in Nat
                      /\ \/ deliveries'[c.id] = c.row
                         \/ /\ c.row.deadline <= now
                            /\ \/ deliveries'[c.id].deadline = Null
                               \/ deliveries'[c.id].deadline > c.row.deadline
    BY <1>1 DEF StandsOrExpired
  <2> QED
    BY <1>3, <1>4, NullRowAssumption DEF LeaseInv, StandsOrExpired
<1>6. DistinctClaims' /\ OutcomeOfClaim'
  BY <1>1, <1>2 DEF LeaseInv, DistinctClaims, OutcomeOfClaim
<1>7. FencedOutcome'
  BY <1>1, <1>2, <1>3, <1>4, NullRowAssumption DEF LeaseInv, FencedOutcome
<1>8. ReplayHoldsFailed'
  <2> SUFFICES ASSUME NEW q \in Requests, replay[q] # Null
               PROVE  deliveries'[replay[q].id] = deliveries[replay[q].id]
    BY <1>1 DEF LeaseInv, ReplayHoldsFailed
  <2> QED
    BY <1>3 DEF LeaseInv, ReplayHoldsFailed, TypeOK
<1> QED
  BY <1>5, <1>6, <1>7, <1>8 DEF LeaseInv

\* The outcome of a delivery keeps the claim's deadline, the fencing token.
LEMMA LeaseDeliver ==
    ASSUME Inv, TypeOK', NEW w \in Workers, NEW c \in claims[w], NEW reply \in Replies,
           NEW delay \in RetryDelays, Deliver(w, c, reply, delay)
    PROVE  LeaseInv'
<1> DEFINE result == deliverToSubscription(c.row.attempts, reply)
           x      == applyDeliveryResult(c.row, result, now + delay)
<1> TypeOK /\ LeaseInv
  BY Zenon DEF Inv
<1>1. UNCHANGED <<now, deliveries, claims, replay>>
  BY Zenon DEF Deliver, dbVars
<1>2. c.id \in Ids /\ c.row \in Rows /\ c.row.attempts \in Nat /\ now + delay \in Nat
  BY BoundsAssumption DEF TypeOK, Claims, Rows
<1>3. result.outcome \in {"success", "failure", "retry", "throttled"} /\ result.number \in Nat
  BY <1>2, ResultType
<1>4. cur' = [cur EXCEPT ![w] = [id |-> c.id, row |-> x, number |-> result.number]]
        /\ pc' = [pc EXCEPT ![w] = "persist"]
  BY Zenon DEF Deliver
<1> HIDE DEF result
<1>5. x \in Rows /\ x.deadline = c.row.deadline
  <2>1. c.row \in Rows /\ now + delay \in Nat
    BY <1>2
  <2> QED
    BY <2>1, <1>3, ApplyType
<1> HIDE DEF x
<1>6. StandsOrExpired' /\ DistinctClaims' /\ ReplayHoldsFailed'
  <2>1. StandsOrExpired'
    BY <1>1 DEF LeaseInv, StandsOrExpired
  <2>2. DistinctClaims' /\ ReplayHoldsFailed'
    BY <1>1 DEF LeaseInv, DistinctClaims, ReplayHoldsFailed
  <2> QED
    BY <2>1, <2>2
<1>7. FencedOutcome'
  <2>1. \A v \in Workers : pc'[v] = "commit" => pc[v] = "commit" /\ cur'[v] = cur[v]
    BY <1>4, Zenon DEF TypeOK
  <2> QED
    BY <1>1, <2>1, ZenonT(30) DEF LeaseInv, FencedOutcome
<1>8. OutcomeOfClaim'
  <2> SUFFICES ASSUME NEW v \in Workers, pc'[v] \in {"persist", "commit"}
               PROVE  /\ cur'[v] \in Outcomes
                      /\ \E k \in claims[v] : k.id = cur'[v].id
                                              /\ k.row.deadline = cur'[v].row.deadline
    BY <1>1 DEF OutcomeOfClaim
  <2>1. CASE v = w
    <3>1. cur'[v] = [id |-> c.id, row |-> x, number |-> result.number]
      BY <1>4, <2>1, Zenon DEF TypeOK
    <3>2. cur'[v] \in Outcomes
      BY <1>2, <1>3, <1>5, <3>1 DEF Outcomes
    <3> QED
      BY <1>5, <2>1, <3>1, <3>2
  <2>2. CASE v # w
    BY <1>4, <2>2, Zenon DEF LeaseInv, OutcomeOfClaim, TypeOK
  <2> QED
    BY <2>1, <2>2
<1> QED
  BY <1>6, <1>7, <1>8 DEF LeaseInv

\* The fencing condition selects exactly the claim that still stands: a row
\* with the claim's deadline cannot be one that was claimed again.
LEMMA LeasePersistUpdate ==
    ASSUME Inv, NEW w \in Workers, PersistUpdate(w)
    PROVE  LeaseInv'
<1> TypeOK /\ LeaseInv
  BY DEF Inv
<1>1. UNCHANGED <<now, deliveries, claims, cur, replay>>
  BY Zenon DEF PersistUpdate, dbVars
<1>2. pc[w] = "persist" /\ pc' = [pc EXCEPT ![w] = "commit"]
  BY DEF PersistUpdate
<1>3. StandsOrExpired' /\ DistinctClaims' /\ ReplayHoldsFailed'
  <2>1. StandsOrExpired'
    BY <1>1 DEF LeaseInv, StandsOrExpired
  <2>2. DistinctClaims' /\ ReplayHoldsFailed'
    BY <1>1 DEF LeaseInv, DistinctClaims, ReplayHoldsFailed
  <2> QED
    BY <2>1, <2>2
<1>4. OutcomeOfClaim'
  BY <1>1, <1>2 DEF LeaseInv, OutcomeOfClaim, TypeOK
<1>5. PICK c \in claims[w] : c.id = cur[w].id /\ c.row.deadline = cur[w].row.deadline
  BY <1>2 DEF LeaseInv, OutcomeOfClaim
<1>6. deliveries[c.id].deadline = c.row.deadline
  BY <1>5 DEF PersistUpdate, ClaimStands
<1>7. deliveries[c.id] = c.row
  BY <1>6, NullAssumption DEF LeaseInv, StandsOrExpired
<1>8. FencedOutcome'
  BY <1>1, <1>2, <1>5, <1>7 DEF LeaseInv, FencedOutcome, TypeOK
<1> QED
  BY <1>3, <1>4, <1>8 DEF LeaseInv
=============================================================================
