---------------------- MODULE DeliveryRefinementProofs ----------------------
(***************************************************************************)
(* The delivery runtime implements the delivery lifecycle, for every value *)
(* of the constants: an outcome follows from the row its worker claimed and*)
(* is committed over that very row.  The exact attempt history, the        *)
(* attempt budget and the acceptance of every delivered delivery follow    *)
(* from the lifecycle.                                                     *)
(***************************************************************************)
EXTENDS DeliveryRuntimeProofs, DeliveryRefinement

-----------------------------------------------------------------------------
(* Outcomes and the rows they were computed from. *)

\* One exchange for a claimed row makes an outcome that follows from it.
LEMMA ExchangeFollows ==
    ASSUME NEW r \in Rows, NEW reply \in Replies, NEW nextAt \in Nat
    PROVE  LET result == deliverToSubscription(r.attempts, reply)
               x      == applyDeliveryResult(r, result, nextAt)
           IN  /\ x.generation = r.generation
               /\ result.number = 0 => x.status = "throttled" /\ x.attempts = r.attempts
               /\ result.number # 0 =>
                    /\ result.number = r.attempts + 1
                    /\ x.attempts = r.attempts + 1
                    /\ x.status \in {"delivered", "failed", "retrying"}
                    /\ x.status = "retrying" => r.attempts + 1 < MaxAttempts
               /\ x.status = "delivered" => IsSuccess(reply)
<1> DEFINE result == deliverToSubscription(r.attempts, reply)
           x      == applyDeliveryResult(r, result, nextAt)
<1>1. r.attempts \in Nat
  BY DEF Rows
<1>2. /\ result.outcome \in {"success", "failure", "retry", "throttled"}
      /\ result.number \in {0, r.attempts + 1}
      /\ result.outcome = "throttled" <=> result.number = 0
      /\ result.outcome = "retry" => r.attempts + 1 < MaxAttempts
  BY <1>1, ResultType
<1>3. result.outcome = "success" => IsSuccess(reply)
  BY DEF deliverToSubscription
<1> HIDE DEF result
<1>4. x.generation = r.generation
  BY <1>2, ApplyType
<1>5. CASE result.outcome = "throttled"
  <2>1. x.status = "throttled" /\ x.attempts = r.attempts
    BY <1>5, Zenon DEF applyDeliveryResult, MarkAsThrottled, Rows
  <2> QED
    BY <1>2, <1>4, <1>5, <2>1 DEF result
<1>6. CASE result.outcome = "retry"
  <2>1. x.status = "retrying" /\ x.attempts = r.attempts + 1
    BY <1>6, Zenon DEF applyDeliveryResult, MarkAsRetrying, Rows
  <2> QED
    BY <1>2, <1>4, <1>6, <2>1 DEF result
<1>7. CASE result.outcome = "success"
  <2>1. x.status = "delivered" /\ x.attempts = r.attempts + 1
    BY <1>1, <1>2, <1>7, Zenon DEF applyDeliveryResult, MarkAsDelivered, Rows
  <2> QED
    BY <1>2, <1>3, <1>4, <1>7, <2>1 DEF result
<1>8. CASE result.outcome = "failure"
  <2>1. x.status = "failed" /\ x.attempts = r.attempts + 1
    BY <1>1, <1>2, <1>8, Zenon DEF applyDeliveryResult, MarkAsFailed, Rows
  <2> QED
    BY <1>2, <1>4, <1>8, <2>1 DEF result
<1> QED
  BY <1>2, <1>5, <1>6, <1>7, <1>8

\* An outcome is committed over the very row it follows from, which was leased.
LEMMA CommitFollows ==
    ASSUME Inv, RefineInv, NEW w \in Workers, pc[w] = "commit"
    PROVE  /\ cur[w] \in Outcomes
           /\ deliveries[cur[w].id] \in Rows
           /\ deliveries[cur[w].id].status = "processing"
           /\ Follows(cur[w], deliveries[cur[w].id])
<1> TypeOK /\ LeaseInv
  BY DEF Inv
<1>1. PICK c \in claims[w] : c.id = cur[w].id /\ deliveries[c.id] = c.row
  BY DEF LeaseInv, FencedOutcome
<1>2. PICK x \in claims[w] : x.id = cur[w].id /\ Follows(cur[w], x.row)
  BY DEF RefineInv, OutcomeFollows
<1>3. x = c
  BY <1>1, <1>2 DEF RefineInv, ClaimsOfRows
<1>4. c.row \in Rows /\ c.row.status = "processing"
  BY DEF TypeOK, Claims, LeaseInv, StandsOrExpired
<1>5. cur[w] \in Outcomes
  BY DEF LeaseInv, OutcomeOfClaim
<1> QED
  BY <1>1, <1>2, <1>3, <1>4, <1>5

-----------------------------------------------------------------------------
(* RefineInv is an invariant. *)

\* Steps that make no new claim and no new outcome, and move no generation back.
LEMMA RefineFrame ==
    ASSUME TypeOK, TypeOK', RefineInv,
           \A d \in Ids : deliveries[d] # Null =>
             deliveries'[d] # Null /\ deliveries[d].generation <= deliveries'[d].generation,
           \A v \in Workers : claims'[v] \subseteq claims[v],
           \A v \in Workers : pc'[v] \in {"persist", "commit"} =>
             pc[v] \in {"persist", "commit"} /\ cur'[v] = cur[v] /\ claims'[v] = claims[v],
           accepted \subseteq accepted'
    PROVE  RefineInv'
<1>1. ClaimsOfRows'
  <2> SUFFICES ASSUME NEW w \in Workers, NEW c \in claims'[w]
               PROVE  /\ deliveries'[c.id] # Null
                      /\ c.row.generation <= deliveries'[c.id].generation
                      /\ \A x \in claims'[w] : x.id = c.id => x = c
    BY DEF ClaimsOfRows
  <2>1. /\ c \in claims[w] /\ c.id \in Ids /\ c.row \in Rows
        /\ deliveries[c.id] # Null /\ c.row.generation <= deliveries[c.id].generation
        /\ \A x \in claims[w] : x.id = c.id => x = c
    BY DEF RefineInv, ClaimsOfRows, TypeOK, Claims
  <2>2. deliveries[c.id] \in Rows /\ deliveries'[c.id] # Null
    BY <2>1 DEF TypeOK
  <2>3. deliveries'[c.id] \in Rows /\ deliveries[c.id].generation <= deliveries'[c.id].generation
    BY <2>1, <2>2 DEF TypeOK
  <2>4. c.row.generation \in Nat /\ deliveries[c.id].generation \in Nat
          /\ deliveries'[c.id].generation \in Nat
    BY <2>1, <2>2, <2>3 DEF Rows
  <2>5. c.row.generation <= deliveries'[c.id].generation
    BY <2>1, <2>3, <2>4
  <2> QED
    BY <2>1, <2>2, <2>5
<1>2. OutcomeFollows'
  <2> SUFFICES ASSUME NEW v \in Workers, pc'[v] \in {"persist", "commit"}
               PROVE  \E y \in claims'[v] : y.id = cur'[v].id /\ Follows(cur[v], y.row)'
    BY DEF OutcomeFollows
  <2>1. pc[v] \in {"persist", "commit"} /\ cur'[v] = cur[v] /\ claims'[v] = claims[v]
    OBVIOUS
  <2>2. PICK y \in claims[v] : y.id = cur[v].id /\ Follows(cur[v], y.row)
    BY <2>1 DEF RefineInv, OutcomeFollows
  <2>3. Follows(cur[v], y.row)'
    BY <2>1, <2>2 DEF Follows
  <2> QED
    BY <2>1, <2>2, <2>3
<1> QED
  BY <1>1, <1>2 DEF RefineInv

\* A claim takes over rows as they are.
LEMMA RefineClaim ==
    ASSUME TypeOK, RefineInv, NEW w \in Workers, NEW S \in SUBSET Candidates, Lease(w, S),
           pc'[w] \notin {"persist", "commit"},
           \A v \in Workers \ {w} : pc'[v] = pc[v],
           UNCHANGED <<cur, accepted>>
    PROVE  RefineInv'
<1> DEFINE leased(d) == MarkAsProcessing(deliveries[d], InstanceOf[w], now + LeaseDuration)
<1>1. /\ deliveries' = [d \in Ids |-> IF d \in S THEN leased(d) ELSE deliveries[d]]
      /\ claims' = [claims EXCEPT ![w] = {[id |-> d, row |-> leased(d)] : d \in S}]
  BY DEF Lease
<1>2. \A d \in S : /\ d \in Ids /\ deliveries[d] \in Rows
                   /\ leased(d) \in Rows /\ leased(d).generation = deliveries[d].generation
  <2> SUFFICES ASSUME NEW d \in S
               PROVE  /\ d \in Ids /\ deliveries[d] \in Rows
                      /\ leased(d) \in Rows /\ leased(d).generation = deliveries[d].generation
    OBVIOUS
  <2>1. d \in Ids /\ deliveries[d] \in Rows
    BY DEF Candidates, TypeOK
  <2>2. InstanceOf[w] \in Instances /\ now + LeaseDuration \in Nat
    BY WorkersAssumption, LeaseAssumption DEF TypeOK
  <2>3. leased(d) \in Rows
    BY <2>1, <2>2, LeaseType
  <2>4. leased(d).generation = deliveries[d].generation
    BY <2>1, Zenon DEF MarkAsProcessing, Rows
  <2> QED
    BY <2>1, <2>3, <2>4
<1> HIDE DEF leased
<1>3. ClaimsOfRows'
  <2> SUFFICES ASSUME NEW v \in Workers, NEW c \in claims'[v]
               PROVE  /\ deliveries'[c.id] # Null
                      /\ c.row.generation <= deliveries'[c.id].generation
                      /\ \A x \in claims'[v] : x.id = c.id => x = c
    BY DEF ClaimsOfRows
  <2>1. CASE v = w
    <3>1. claims'[w] = {[id |-> d, row |-> leased(d)] : d \in S}
      BY <1>1 DEF TypeOK
    <3>2. c.id \in S /\ c = [id |-> c.id, row |-> leased(c.id)]
      BY <2>1, <3>1
    <3>3. \A x \in claims'[v] : x = [id |-> x.id, row |-> leased(x.id)]
      BY <2>1, <3>1
    <3>4. deliveries'[c.id] = leased(c.id) /\ c.row = leased(c.id)
      BY <1>1, <1>2, <3>2
    <3>5. deliveries'[c.id] # Null /\ deliveries'[c.id].generation \in Nat
      BY <1>2, <3>2, <3>4, NullRowAssumption DEF Rows
    <3> QED
      BY <3>2, <3>3, <3>4, <3>5
  <2>2. CASE v # w
    <3>1. claims'[v] = claims[v]
      BY <1>1, <2>2 DEF TypeOK
    <3>2. /\ c \in claims[v] /\ c.id \in Ids
          /\ deliveries[c.id] # Null /\ c.row.generation <= deliveries[c.id].generation
          /\ \A x \in claims[v] : x.id = c.id => x = c
      BY <3>1 DEF RefineInv, ClaimsOfRows, TypeOK, Claims
    <3>3. deliveries'[c.id] # Null /\ deliveries'[c.id].generation = deliveries[c.id].generation
      BY <1>1, <1>2, <3>2, NullRowAssumption
    <3> QED
      BY <3>1, <3>2, <3>3
  <2> QED
    BY <2>1, <2>2
<1>4. OutcomeFollows'
  <2> SUFFICES ASSUME NEW v \in Workers, pc'[v] \in {"persist", "commit"}
               PROVE  \E y \in claims'[v] : y.id = cur'[v].id /\ Follows(cur[v], y.row)'
    BY DEF OutcomeFollows
  <2>1. pc[v] \in {"persist", "commit"} /\ cur'[v] = cur[v] /\ claims'[v] = claims[v]
    BY <1>1 DEF TypeOK
  <2>2. PICK y \in claims[v] : y.id = cur[v].id /\ Follows(cur[v], y.row)
    BY <2>1 DEF RefineInv, OutcomeFollows
  <2>3. Follows(cur[v], y.row)'
    BY <2>1, <2>2 DEF Follows
  <2> QED
    BY <2>1, <2>2, <2>3
<1> QED
  BY <1>3, <1>4 DEF RefineInv

\* The outcome of an exchange follows from the claimed row.
LEMMA RefineDeliver ==
    ASSUME Inv, RefineInv, NEW w \in Workers, NEW c \in claims[w], NEW reply \in Replies,
           NEW delay \in RetryDelays, Deliver(w, c, reply, delay)
    PROVE  RefineInv'
<1> DEFINE result == deliverToSubscription(c.row.attempts, reply)
           x      == applyDeliveryResult(c.row, result, now + delay)
           o      == [id |-> c.id, row |-> x, number |-> result.number]
<1> TypeOK
  BY DEF Inv
<1>1. c.row \in Rows /\ now + delay \in Nat
  BY BoundsAssumption DEF TypeOK, Claims
<1>2. /\ deliveries' = deliveries /\ claims' = claims
      /\ cur' = [cur EXCEPT ![w] = o] /\ pc' = [pc EXCEPT ![w] = "persist"]
      /\ accepted' = IF IsSuccess(reply)
                       THEN accepted \cup {<<c.id, c.row.generation>>} ELSE accepted
  BY DEF Deliver, dbVars
<1>3. /\ x.generation = c.row.generation
      /\ result.number = 0 => x.status = "throttled" /\ x.attempts = c.row.attempts
      /\ result.number # 0 =>
           /\ result.number = c.row.attempts + 1
           /\ x.attempts = c.row.attempts + 1
           /\ x.status \in {"delivered", "failed", "retrying"}
           /\ x.status = "retrying" => c.row.attempts + 1 < MaxAttempts
      /\ x.status = "delivered" => IsSuccess(reply)
  BY <1>1, ExchangeFollows, Zenon
<1> HIDE DEF x, result
<1>4. cur'[w] = o /\ o.id = c.id /\ o.row = x /\ o.number = result.number
  BY <1>2 DEF TypeOK
<1> HIDE DEF o
<1>5. x.status = "delivered" => <<c.id, c.row.generation>> \in accepted'
  BY <1>2, <1>3
<1>6. \A v \in Workers \ {w} : pc'[v] = pc[v] /\ cur'[v] = cur[v]
  BY <1>2 DEF TypeOK
<1>7. ClaimsOfRows'
  BY <1>2 DEF RefineInv, ClaimsOfRows
<1>8. c \in claims'[w] /\ c.id = cur'[w].id
        /\ /\ cur'[w].row.generation = c.row.generation
           /\ cur'[w].number = 0 =>
                cur'[w].row.status = "throttled" /\ cur'[w].row.attempts = c.row.attempts
           /\ cur'[w].number # 0 =>
                /\ cur'[w].number = c.row.attempts + 1
                /\ cur'[w].row.attempts = c.row.attempts + 1
                /\ cur'[w].row.status \in {"delivered", "failed", "retrying"}
                /\ cur'[w].row.status = "retrying" => c.row.attempts + 1 < MaxAttempts
           /\ cur'[w].row.status = "delivered" => <<cur'[w].id, c.row.generation>> \in accepted'
  BY <1>2, <1>3, <1>4, <1>5
<1>9. accepted \subseteq accepted'
  BY <1>2
<1>10. OutcomeFollows'
  <2> SUFFICES ASSUME NEW v \in Workers, pc'[v] \in {"persist", "commit"}
               PROVE  \E y \in claims'[v] : y.id = cur'[v].id /\ Follows(cur[v], y.row)'
    BY DEF OutcomeFollows
  <2>1. CASE v = w
    BY <1>8, <2>1, Zenon DEF Follows
  <2>2. CASE v # w
    <3>1. pc[v] \in {"persist", "commit"} /\ cur'[v] = cur[v] /\ claims'[v] = claims[v]
      BY <1>2, <1>6, <2>2
    <3>2. PICK y \in claims[v] : y.id = cur[v].id /\ Follows(cur[v], y.row)
      BY <3>1 DEF RefineInv, OutcomeFollows
    <3>3. Follows(cur[v], y.row)'
      BY <1>9, <3>1, <3>2, Zenon DEF Follows
    <3> QED
      BY <3>1, <3>2, <3>3
  <2> QED
    BY <2>1, <2>2
<1> QED
  BY <1>7, <1>10 DEF RefineInv

\* Every step keeps RefineInv.
LEMMA RefineStep == Inv /\ TypeOK' /\ RefineInv /\ [Next]_vars => RefineInv'
<1> SUFFICES ASSUME Inv, TypeOK', RefineInv, [Next]_vars PROVE RefineInv'
  OBVIOUS
<1> TypeOK /\ LeaseInv
  BY DEF Inv
<1>1. \A d \in Ids : deliveries[d] # Null =>
        deliveries[d] \in Rows /\ deliveries[d].generation <= deliveries[d].generation
  BY DEF TypeOK, Rows
<1>2. ASSUME UNCHANGED <<deliveries, claims, cur>>, accepted' = accepted,
             \A v \in Workers : pc'[v] \in {"persist", "commit"} => pc[v] \in {"persist", "commit"}
      PROVE  RefineInv'
  BY <1>1, <1>2, RefineFrame
<1>3. ASSUME NEW W, Drop(W), UNCHANGED <<dbVars, accepted>> PROVE RefineInv'
  <2>1. \A v \in Workers : claims'[v] \subseteq claims[v]
    BY <1>3 DEF Drop
  <2>2. \A v \in Workers : pc'[v] \in {"persist", "commit"} =>
          pc[v] \in {"persist", "commit"} /\ cur'[v] = cur[v] /\ claims'[v] = claims[v]
    BY <1>3 DEF Drop
  <2>3. deliveries' = deliveries /\ accepted' = accepted
    BY <1>3 DEF dbVars
  <2> QED
    BY <1>1, <2>1, <2>2, <2>3, RefineFrame
<1>4. ASSUME NEW w \in Workers, NEW e \in Events, InitializeEventDeliveries(w, e)
      PROVE  RefineInv'
  <2>1. \A d \in Ids : deliveries[d] # Null => deliveries'[d] = deliveries[d]
    BY <1>4 DEF InitializeEventDeliveries
  <2>2. claims' = claims /\ cur' = cur /\ accepted' = accepted
    BY <1>4 DEF InitializeEventDeliveries
  <2>3. \A v \in Workers : pc'[v] \in {"persist", "commit"} => pc[v] \in {"persist", "commit"}
    BY <1>4 DEF InitializeEventDeliveries, TypeOK
  <2> QED
    BY <1>1, <2>1, <2>2, <2>3, RefineFrame
<1>5. ASSUME NEW w \in Workers, NEW S \in SUBSET Ids,
             ClaimDeliveries(w, S) \/ ClaimEventDeliveries(w, S)
      PROVE  RefineInv'
  <2>1. S \in SUBSET Candidates /\ Lease(w, S) /\ UNCHANGED <<cur, accepted>>
    BY <1>5 DEF ClaimDeliveries, ClaimEventDeliveries
  <2>2. pc'[w] \notin {"persist", "commit"} /\ \A v \in Workers \ {w} : pc'[v] = pc[v]
    BY <1>5 DEF ClaimDeliveries, ClaimEventDeliveries, TypeOK
  <2> QED
    BY <2>1, <2>2, RefineClaim
<1>6. ASSUME NEW w \in Workers, PersistCommit(w) PROVE RefineInv'
  <2> DEFINE o == cur[w]
             r == [o.row EXCEPT !.owner = Null, !.deadline = Null]
  <2>1. /\ pc[w] = "commit"
        /\ deliveries' = [deliveries EXCEPT ![o.id] = r]
        /\ claims' = [claims EXCEPT ![w] = {c \in claims[w] : c.id # o.id}]
        /\ cur' = [cur EXCEPT ![w] = Null]
        /\ accepted' = accepted
    BY <1>6 DEF PersistCommit
  <2>2. o \in Outcomes /\ deliveries[o.id] \in Rows /\ Follows(o, deliveries[o.id])
    BY <2>1, CommitFollows
  <2>3. o.id \in Ids /\ o.row \in Rows
    BY <2>2 DEF Outcomes
  <2>4. r \in Rows /\ r.generation = o.row.generation
    BY <2>3, Zenon DEF Rows
  <2>5. r.generation = deliveries[o.id].generation /\ r # Null
    BY <2>2, <2>4, NullRowAssumption, Zenon DEF Follows
  <2> HIDE DEF r
  <2>6. \A d \in Ids : deliveries[d] # Null =>
          deliveries'[d] # Null /\ deliveries[d].generation <= deliveries'[d].generation
    BY <1>1, <2>1, <2>3, <2>5, ZenonT(30) DEF TypeOK
  <2>7. \A v \in Workers : claims'[v] \subseteq claims[v]
    BY <2>1 DEF TypeOK
  <2>8. \A v \in Workers : pc'[v] \in {"persist", "commit"} =>
          pc[v] \in {"persist", "commit"} /\ cur'[v] = cur[v] /\ claims'[v] = claims[v]
    BY <1>6, <2>1 DEF PersistCommit, TypeOK
  <2> QED
    BY <2>1, <2>6, <2>7, <2>8, RefineFrame, Zenon
<1>7. ASSUME NEW q \in Requests, ReplayCommit(q) PROVE RefineInv'
  <2>1. replay[q].id \in Ids /\ deliveries[replay[q].id] \in Rows
          /\ replay[q].row = ScheduleReplay(deliveries[replay[q].id], replay[q].row.nextAt)
    BY <1>7 DEF ReplayCommit, LeaseInv, ReplayHoldsFailed, TypeOK
  <2>2. \A at : ScheduleReplay(deliveries[replay[q].id], at).generation
                  = deliveries[replay[q].id].generation + 1
    BY <2>1 DEF ScheduleReplay, Rows
  <2>3. replay[q].row.generation = deliveries[replay[q].id].generation + 1
    BY <2>1, <2>2
  <2>4. deliveries[replay[q].id].generation \in Nat
    BY <2>1 DEF Rows
  <2>5. replay[q].row # Null
    BY <1>7, NullRowAssumption DEF ReplayCommit, TypeOK
  <2>6. \A d \in Ids : deliveries'[d] = IF d = replay[q].id THEN replay[q].row ELSE deliveries[d]
    BY <1>7 DEF ReplayCommit, TypeOK
  <2>7. \A d \in Ids : deliveries[d] # Null =>
          deliveries'[d] # Null /\ deliveries[d].generation <= deliveries'[d].generation
    BY <1>1, <2>3, <2>4, <2>5, <2>6
  <2>8. UNCHANGED <<claims, cur, pc>> /\ accepted' = accepted
    BY <1>7 DEF ReplayCommit, workerVars
  <2> QED
    BY <2>7, <2>8, RefineFrame, Zenon
<1>8. ASSUME NEW s \in Subs, CreateSubscription(s) \/ DeleteSubscription(s) PROVE RefineInv'
  BY <1>2, <1>8 DEF CreateSubscription, DeleteSubscription, workerVars
<1>9. ASSUME NEW w \in Workers, NEW B \in SUBSET Events, LoadSubscriptions(w, B) PROVE RefineInv'
  <2>1. \A v \in Workers : pc'[v] \in {"persist", "commit"} => pc[v] \in {"persist", "commit"}
    BY <1>9 DEF LoadSubscriptions, TypeOK
  <2> QED
    BY <1>2, <1>9, <2>1, Zenon DEF LoadSubscriptions, dbVars
<1>10. ASSUME NEW w \in Workers, PersistUpdate(w) PROVE RefineInv'
  <2>1. \A v \in Workers : pc'[v] \in {"persist", "commit"} => pc[v] \in {"persist", "commit"}
    BY <1>10, Zenon DEF PersistUpdate, TypeOK
  <2> QED
    BY <1>2, <1>10, <2>1, Zenon DEF PersistUpdate, dbVars
<1>11. ASSUME NEW w \in Workers, PersistClaimLost(w) \/ Abandon(w) PROVE RefineInv'
  BY <1>3, <1>11 DEF PersistClaimLost, Abandon
<1>12. ASSUME NEW q \in Requests, NEW d \in Ids, ReplayUpdate(q, d) PROVE RefineInv'
  BY <1>2, <1>12 DEF ReplayUpdate, dbVars, workerVars
<1>13. ASSUME NEW q \in Requests, ReplayRollback(q) PROVE RefineInv'
  BY <1>2, <1>13 DEF ReplayRollback, dbVars, workerVars
<1>14. ASSUME NEW i \in Instances, Crash(i) PROVE RefineInv'
  BY <1>3, <1>14 DEF Crash
<1>15. CASE Tick
  BY <1>2, <1>15 DEF Tick, dbVars, workerVars
<1>16. CASE UNCHANGED vars
  BY <1>2, <1>16 DEF vars, dbVars, workerVars
<1> QED
  BY <1>4, <1>5, <1>6, <1>7, <1>8, <1>9, <1>10, <1>11, <1>12, <1>13, <1>14, <1>15, <1>16,
     RefineDeliver DEF Next, Workers, DeliverAny, Persist

-----------------------------------------------------------------------------
(* The steps of the runtime as steps of the lifecycle. *)

\* Inserting the deliveries of an event creates them.
LEMMA InitializeCreates ==
    ASSUME TypeOK, NEW w \in Workers, NEW e \in Events, InitializeEventDeliveries(w, e)
    PROVE  Lifecycle!Next
<1> DEFINE D == {d \in Ids : d[1] = e /\ d[2] \in Matching(e, job[w].subs) /\ deliveries[d] = Null}
<1>1. /\ \A d \in Ids : deliveries'[d] = IF d \in D THEN NewDelivery ELSE deliveries[d]
      /\ attempts' = attempts /\ accepted' = accepted
  BY DEF InitializeEventDeliveries
<1>2. /\ NewDelivery # Null /\ PhaseOf(NewDelivery) = "open"
      /\ GenerationOf(NewDelivery) = 1 /\ TriesOf(NewDelivery) = 0
  <2>1. NewDelivery \in Rows
    BY DEF NewDelivery, Rows, Statuses
  <2>2. NewDelivery # Null
    BY <2>1, NullRowAssumption
  <2> QED
    BY <2>2 DEF NewDelivery, PhaseOf, GenerationOf, TriesOf, Terminal
<1>3. PhaseOf(Null) = "absent" /\ TriesOf(Null) = 0
  BY DEF PhaseOf, TriesOf
<1>4. D \in SUBSET Ids /\ \A d \in D : deliveries[d] = Null
  OBVIOUS
<1> HIDE DEF D
<1>5. Lifecycle!Create(D)
  BY <1>1, <1>2, <1>3, <1>4 DEF Lifecycle!Create
<1> QED
  BY <1>4, <1>5 DEF Lifecycle!Next

\* Leasing rows takes their deliveries, from nobody or from an earlier holder.
LEMMA ClaimTakes ==
    ASSUME TypeOK, NEW w \in Workers, NEW S \in SUBSET Candidates, Lease(w, S),
           UNCHANGED <<attempts, accepted>>
    PROVE  Lifecycle!Next
<1> DEFINE leased(d) == MarkAsProcessing(deliveries[d], InstanceOf[w], now + LeaseDuration)
<1>1. \A d \in Ids : deliveries'[d] = IF d \in S THEN leased(d) ELSE deliveries[d]
  BY DEF Lease
<1>2. S \in SUBSET Ids
  BY DEF Candidates
<1>3. \A d \in S :
        /\ PhaseOf(deliveries[d]) \in {"open", "taken"} /\ PhaseOf(leased(d)) = "taken"
        /\ GenerationOf(leased(d)) = GenerationOf(deliveries[d])
        /\ TriesOf(leased(d)) = TriesOf(deliveries[d])
  <2> SUFFICES ASSUME NEW d \in S
               PROVE  /\ PhaseOf(deliveries[d]) \in {"open", "taken"} /\ PhaseOf(leased(d)) = "taken"
                      /\ GenerationOf(leased(d)) = GenerationOf(deliveries[d])
                      /\ TriesOf(leased(d)) = TriesOf(deliveries[d])
    BY Zenon
  <2>1. deliveries[d] \in Rows /\ deliveries[d] # Null
    BY Zenon DEF Candidates, TypeOK
  <2>2. deliveries[d].status \notin Terminal
    BY DEF Candidates, Claimable, Terminal
  <2>3. InstanceOf[w] \in Instances /\ now + LeaseDuration \in Nat
    BY WorkersAssumption, LeaseAssumption DEF TypeOK
  <2>4. leased(d) \in Rows /\ leased(d).status = "processing"
          /\ leased(d).attempts = deliveries[d].attempts
    BY <2>1, <2>3, LeaseType
  <2>5. leased(d).generation = deliveries[d].generation
    BY <2>1, Zenon DEF MarkAsProcessing, Rows
  <2>6. leased(d) # Null
    BY <2>4, NullRowAssumption, Zenon
  <2> HIDE DEF leased
  <2> QED
    BY <2>1, <2>2, <2>4, <2>5, <2>6 DEF PhaseOf, GenerationOf, TriesOf
<1> HIDE DEF leased
<1>4. Lifecycle!Take(S)
  BY <1>1, <1>2, <1>3 DEF Lifecycle!Take
<1> QED
  BY <1>2, <1>4 DEF Lifecycle!Next

\* A 2xx answer accepts the delivery in the generation of the claim; any other
\* answer is invisible.
LEMMA DeliverAccepts ==
    ASSUME TypeOK, RefineInv, NEW w \in Workers, NEW c \in claims[w], NEW reply \in Replies,
           NEW delay \in RetryDelays, Deliver(w, c, reply, delay)
    PROVE  [Lifecycle!Next]_(Lifecycle!lifecycle)
<1>1. deliveries' = deliveries /\ attempts' = attempts
  BY DEF Deliver, dbVars
<1>2. CASE IsSuccess(reply)
  <2>1. accepted' = accepted \cup {<<c.id, c.row.generation>>}
    BY <1>2, Zenon DEF Deliver
  <2>2. c.id \in Ids /\ c.row \in Rows /\ deliveries[c.id] # Null
          /\ c.row.generation <= deliveries[c.id].generation
    BY DEF TypeOK, Claims, RefineInv, ClaimsOfRows
  <2>3. deliveries[c.id] \in Rows
    BY <2>2, Zenon DEF TypeOK
  <2>4. c.row.generation \in Nat \ {0} /\ deliveries[c.id].generation \in Nat
    BY <2>2, <2>3 DEF Rows
  <2>5. c.row.generation \in 1..GenerationOf(deliveries[c.id])
    BY <2>2, <2>4 DEF GenerationOf
  <2>6. Lifecycle!Accept(c.id, c.row.generation)
    BY <1>1, <2>1, <2>2, <2>5 DEF Lifecycle!Accept
  <2> QED
    BY <2>2, <2>5, <2>6, Zenon DEF Lifecycle!Next
<1>3. CASE ~IsSuccess(reply)
  <2>1. accepted' = accepted
    BY <1>3, Zenon DEF Deliver
  <2> QED
    BY <1>1, <2>1, Zenon DEF Lifecycle!lifecycle
<1> QED
  BY <1>2, <1>3, Zenon

\* Committing an outcome records the next attempt, or postpones the delivery
\* when the limiter denied the call.
LEMMA CommitRecords ==
    ASSUME Inv, RefineInv, NEW w \in Workers, PersistCommit(w)
    PROVE  Lifecycle!Next
<1> DEFINE o == cur[w]
           r == [o.row EXCEPT !.owner = Null, !.deadline = Null]
           s == deliveries[o.id]
<1> TypeOK /\ LeaseInv
  BY DEF Inv
<1>1. o \in Outcomes /\ s \in Rows /\ s.status = "processing" /\ Follows(o, s)
  BY CommitFollows DEF PersistCommit
<1>2. o.id \in Ids /\ o.row \in Rows /\ o.number \in Nat
  BY <1>1 DEF Outcomes
<1>3. r \in Rows /\ r.status = o.row.status /\ r.attempts = o.row.attempts
        /\ r.generation = o.row.generation
  BY <1>2, Zenon DEF Rows
<1>4. r # Null /\ s # Null
  BY <1>1, <1>3, NullRowAssumption
<1>5. /\ deliveries' = [deliveries EXCEPT ![o.id] = r]
      /\ attempts' = [attempts EXCEPT ![o.id] =
                        IF o.number # 0 THEN Append(attempts[o.id], AttemptRow(o)) ELSE attempts[o.id]]
      /\ accepted' = accepted
  BY <1>2 DEF PersistCommit, TypeOK
<1>6. \A d \in Ids : deliveries'[d] = IF d = o.id THEN r ELSE deliveries[d]
  BY <1>2, <1>5 DEF TypeOK
<1>7. PhaseOf(s) = "taken" /\ GenerationOf(s) = s.generation /\ TriesOf(s) = s.attempts
        /\ GenerationOf(r) = s.generation /\ TriesOf(r) = o.row.attempts
  BY <1>1, <1>3, <1>4 DEF PhaseOf, GenerationOf, TriesOf, Follows
<1>8. CASE o.number = 0
  <2>1. PhaseOf(r) = "open" /\ o.row.attempts = s.attempts
    BY <1>1, <1>3, <1>4, <1>8 DEF PhaseOf, Terminal, Follows
  <2>2. attempts' = attempts
    BY <1>2, <1>5, <1>8, ZenonT(30) DEF TypeOK
  <2> HIDE DEF r
  <2>3. Lifecycle!Postpone(o.id)
    BY <1>2, <1>5, <1>6, <1>7, <2>1, <2>2 DEF Lifecycle!Postpone
  <2> QED
    BY <1>2, <2>3 DEF Lifecycle!Next
<1>9. CASE o.number # 0
  <2> DEFINE p == PhaseOf(r)
  <2>1. /\ p \in {"open", "delivered", "failed"}
        /\ p = "open" => o.row.status = "retrying"
        /\ p = "delivered" => o.row.status = "delivered"
    BY <1>1, <1>3, <1>4, <1>9 DEF PhaseOf, Terminal, Follows
  <2>2. /\ o.row.attempts = s.attempts + 1
        /\ p = "open" => s.attempts + 1 < MaxAttempts
        /\ p = "delivered" => <<o.id, s.generation>> \in accepted
    BY <1>1, <1>9, <2>1 DEF Follows
  <2>3. AttemptRow(o) = [generation |-> s.generation, number |-> s.attempts + 1]
    BY <1>1, <1>9, Zenon DEF AttemptRow, Follows
  <2>4. attempts' = [attempts EXCEPT ![o.id] =
                       Append(attempts[o.id], [generation |-> s.generation, number |-> s.attempts + 1])]
    BY <1>5, <1>9, <2>3
  <2> HIDE DEF r, p
  <2>5. Lifecycle!Record(o.id, p)
    <3>1. [d \in Ids |-> PhaseOf(deliveries[d])]'
            = [[d \in Ids |-> PhaseOf(deliveries[d])] EXCEPT ![o.id] = p]
      BY <1>2, <1>6, Zenon DEF p
    <3>2. [d \in Ids |-> TriesOf(deliveries[d])]'
            = [[d \in Ids |-> TriesOf(deliveries[d])] EXCEPT ![o.id] = s.attempts + 1]
      BY <1>2, <1>6, <1>7, <2>2, Zenon
    <3>3. [d \in Ids |-> GenerationOf(deliveries[d])]' = [d \in Ids |-> GenerationOf(deliveries[d])]
      BY <1>2, <1>6, <1>7, Zenon
    <3> QED
      BY <1>2, <1>5, <1>7, <2>1, <2>2, <2>4, <3>1, <3>2, <3>3, Zenon DEF Lifecycle!Record
  <2> QED
    BY <1>2, <2>1, <2>5, Zenon DEF Lifecycle!Next
<1> QED
  BY <1>8, <1>9

\* Committing a replay opens the next generation of a failed delivery.
LEMMA ReplayReopens ==
    ASSUME Inv, NEW q \in Requests, ReplayCommit(q)
    PROVE  Lifecycle!Next
<1> DEFINE d == replay[q].id
           r == replay[q].row
<1> TypeOK /\ LeaseInv
  BY DEF Inv
<1>1. d \in Ids /\ deliveries[d] \in Rows /\ deliveries[d].status = "failed"
        /\ r = ScheduleReplay(deliveries[d], r.nextAt)
  BY ZenonT(30) DEF ReplayCommit, LeaseInv, ReplayHoldsFailed, TypeOK
<1>2. \A at : LET x == ScheduleReplay(deliveries[d], at)
              IN  x.status = "retrying" /\ x.attempts = 0
                    /\ x.generation = deliveries[d].generation + 1
  BY <1>1 DEF ScheduleReplay, Rows
<1>3. r.status = "retrying" /\ r.attempts = 0 /\ r.generation = deliveries[d].generation + 1
  BY <1>1, <1>2, Zenon
<1>4. r # Null /\ deliveries[d] # Null
  BY <1>1, NullRowAssumption DEF ReplayCommit, TypeOK
<1>5. \A x \in Ids : deliveries'[x] = IF x = d THEN r ELSE deliveries[x]
  BY Zenon DEF ReplayCommit, TypeOK
<1>6. attempts' = attempts /\ accepted' = accepted
  BY Zenon DEF ReplayCommit
<1>7. /\ PhaseOf(deliveries[d]) = "failed" /\ PhaseOf(r) = "open"
      /\ GenerationOf(r) = GenerationOf(deliveries[d]) + 1 /\ TriesOf(r) = 0
  BY <1>1, <1>3, <1>4 DEF PhaseOf, GenerationOf, TriesOf, Terminal
<1>8. Lifecycle!Replay(d)
  BY <1>1, <1>5, <1>6, <1>7, Zenon DEF Lifecycle!Replay
<1> QED
  BY <1>1, <1>8 DEF Lifecycle!Next

\* Every step of the runtime is a step of the lifecycle, or invisible to it.
LEMMA LifecycleStep ==
    Inv /\ RefineInv /\ [Next]_vars => [Lifecycle!Next]_(Lifecycle!lifecycle)
<1> SUFFICES ASSUME Inv, RefineInv, [Next]_vars
             PROVE  [Lifecycle!Next]_(Lifecycle!lifecycle)
  OBVIOUS
<1> TypeOK
  BY DEF Inv
<1>1. ASSUME UNCHANGED <<deliveries, attempts, accepted>>
      PROVE  [Lifecycle!Next]_(Lifecycle!lifecycle)
  BY <1>1 DEF Lifecycle!lifecycle
<1>2. ASSUME NEW w \in Workers, NEW S \in SUBSET Ids,
             ClaimDeliveries(w, S) \/ ClaimEventDeliveries(w, S)
      PROVE  Lifecycle!Next
  <2>1. S \in SUBSET Candidates /\ Lease(w, S) /\ UNCHANGED <<attempts, accepted>>
    BY <1>2 DEF ClaimDeliveries, ClaimEventDeliveries
  <2> QED
    BY <2>1, ClaimTakes
<1>3. \/ \E w \in Workers, e \in Events : InitializeEventDeliveries(w, e)
      \/ \E w \in Workers, S \in SUBSET Ids : ClaimDeliveries(w, S) \/ ClaimEventDeliveries(w, S)
      \/ \E w \in Workers : \E c \in claims[w], reply \in Replies, delay \in RetryDelays :
           Deliver(w, c, reply, delay)
      \/ \E w \in Workers : PersistCommit(w)
      \/ \E q \in Requests : ReplayCommit(q)
      \/ UNCHANGED <<deliveries, attempts, accepted>>
  BY Zenon DEF Next, Workers, vars, dbVars, workerVars, DeliverAny, Persist, CreateSubscription,
     DeleteSubscription, LoadSubscriptions, PersistUpdate, PersistClaimLost, Abandon,
     ReplayUpdate, ReplayRollback, Crash, Tick
<1> QED
  BY <1>1, <1>2, <1>3, InitializeCreates, DeliverAccepts, CommitRecords, ReplayReopens, Zenon

-----------------------------------------------------------------------------
(* Results. *)

\* The runtime implements the delivery lifecycle: whatever is claimed twice,
\* taken over, persisted late, replayed, redelivered or lost in a crash, the
\* committed rows move only as the lifecycle allows.
THEOREM Refinement == Spec => ImplementsLifecycle
<1>1. Init => RefineInv /\ Lifecycle!Init
  <2> SUFFICES ASSUME Init PROVE RefineInv /\ Lifecycle!Init
    BY Zenon
  <2>1. RefineInv
    BY Zenon DEF Init, RefineInv, ClaimsOfRows, OutcomeFollows
  <2>2. Lifecycle!Init
    BY DEF Init, Lifecycle!Init, PhaseOf, GenerationOf, TriesOf
  <2> QED
    BY <2>1, <2>2
<1>2. Inv /\ Inv' /\ RefineInv /\ [Next]_vars => RefineInv'
  BY RefineStep DEF Inv
<1>3. Inv /\ RefineInv /\ [Next]_vars => [Lifecycle!Next]_(Lifecycle!lifecycle)
  BY LifecycleStep
<1> QED
  BY <1>1, <1>2, <1>3, Invariance, PTL DEF Spec, ImplementsLifecycle, Lifecycle!Spec

\* The attempt history of every delivery is exact: no attempt is missing,
\* recorded twice, or recorded by a worker that had lost its lease.
THEOREM HistoryExact == Spec => []AttemptHistory
<1>1. Lifecycle!Spec => []Lifecycle!HistoryExact
  BY Lifecycle!LifecycleHistory, Zenon
<1>2. Lifecycle!HistoryExact => AttemptHistory
  BY DEF Lifecycle!HistoryExact, Lifecycle!History, Lifecycle!Earlier, AttemptHistory,
     GenerationOf, TriesOf
<1> QED
  BY <1>1, <1>2, Refinement, PTL DEF ImplementsLifecycle

\* A delivery is marked delivered only if its receiver answered 2xx in the
\* current generation.
THEOREM DeliveredAccepted == Spec => []DeliveredWasAccepted
<1>1. Lifecycle!Spec => []Lifecycle!DeliveredAccepted
  BY Lifecycle!LifecycleAccepted
<1>2. Lifecycle!DeliveredAccepted => DeliveredWasAccepted
  BY Zenon DEF Lifecycle!DeliveredAccepted, DeliveredWasAccepted, PhaseOf, GenerationOf, Terminal
<1> QED
  BY <1>1, <1>2, Refinement, PTL DEF ImplementsLifecycle

\* No generation of a delivery makes more than MaxAttempts attempts, and a
\* delivery that is not terminal always has one left, whatever is claimed
\* twice, abandoned, persisted late or replayed.
THEOREM BudgetKept == Spec => []AttemptBudget
<1>1. Lifecycle!Spec => []Lifecycle!WithinBudget
  BY Lifecycle!LifecycleBudget, MaxAttemptsAssumption, Zenon
<1>2. Lifecycle!WithinBudget => AttemptBudget
  <2> SUFFICES ASSUME Lifecycle!WithinBudget, NEW d \in Ids
               PROVE  /\ \A i \in 1..Len(attempts[d]) : attempts[d][i].number <= MaxAttempts
                      /\ deliveries[d] # Null =>
                           /\ deliveries[d].attempts <= MaxAttempts
                           /\ deliveries[d].status \notin Terminal
                                => deliveries[d].attempts < MaxAttempts
    BY DEF AttemptBudget
  <2>1. /\ TriesOf(deliveries[d]) <= MaxAttempts
        /\ PhaseOf(deliveries[d]) \in {"open", "taken"} => TriesOf(deliveries[d]) < MaxAttempts
        /\ \A i \in 1..Len(attempts[d]) : attempts[d][i].number <= MaxAttempts
    BY DEF Lifecycle!WithinBudget
  <2>2. deliveries[d] # Null /\ deliveries[d].status \notin Terminal
          => PhaseOf(deliveries[d]) \in {"open", "taken"}
    BY DEF PhaseOf
  <2>3. deliveries[d] # Null => TriesOf(deliveries[d]) = deliveries[d].attempts
    BY DEF TriesOf
  <2> QED
    BY <2>1, <2>2, <2>3
<1> QED
  BY <1>1, <1>2, Refinement, PTL DEF ImplementsLifecycle
=============================================================================
