----------------------- MODULE DeliveryRuntimeProofs ------------------------
(***************************************************************************)
(* The invariants of DeliveryRuntime, and what follows from them about     *)
(* leases, late outcomes, terminal rows, the projected status of an event  *)
(* and the time from which an unfinished delivery can be claimed.          *)
(***************************************************************************)
EXTENDS DeliveryRuntimeLemmas

-----------------------------------------------------------------------------
(* Committing an outcome and replaying keep the lease invariant. *)

\* Committing an outcome replaces a row on which no other claim stands.
LEMMA LeasePersistCommit ==
    ASSUME Inv, NEW w \in Workers, PersistCommit(w)
    PROVE  LeaseInv'
<1> DEFINE o    == cur[w]
           left == {c \in claims[w] : c.id # o.id}
           r    == [o.row EXCEPT !.owner = Null, !.deadline = Null]
<1> TypeOK /\ LeaseInv
  BY DEF Inv
<1>1. UNCHANGED <<now, replay>> /\ pc[w] = "commit"
  BY DEF PersistCommit
<1>2. o \in Outcomes /\ o.id \in Ids /\ r.deadline = Null
  BY <1>1 DEF LeaseInv, OutcomeOfClaim, Outcomes, Rows
<1>3. PICK c \in claims[w] : c.id = o.id /\ deliveries[c.id] = c.row
  BY <1>1 DEF LeaseInv, FencedOutcome
<1>4. /\ deliveries' = [deliveries EXCEPT ![o.id] = r]
      /\ claims' = [claims EXCEPT ![w] = left]
      /\ cur' = [cur EXCEPT ![w] = Null]
      /\ pc' = [pc EXCEPT ![w] = IF left = {} THEN "idle" ELSE "deliver"]
  BY DEF PersistCommit
<1> HIDE DEF r
<1>5. \A v \in Workers : claims'[v] \subseteq claims[v]
        /\ (v # w => claims'[v] = claims[v] /\ pc'[v] = pc[v] /\ cur'[v] = cur[v])
  BY <1>4 DEF TypeOK
<1>6. pc'[w] \notin {"persist", "commit"}
  BY <1>4 DEF TypeOK
<1>7. \A d \in Ids : deliveries'[d] = IF d = o.id THEN r ELSE deliveries[d]
  BY <1>4 DEF TypeOK
<1>8. \A v \in Workers : \A k \in claims'[v] : k.id = o.id => v # w
  BY <1>4 DEF TypeOK
<1>9. \A v \in Workers : \A k \in claims[v] : v # w /\ k.id = o.id => deliveries[k.id] # k.row
  BY <1>3 DEF LeaseInv, DistinctClaims
<1> HIDE DEF left
<1>10. StandsOrExpired'
  <2> SUFFICES ASSUME NEW v \in Workers, NEW k \in claims'[v]
               PROVE  /\ k.row.status = "processing"
                      /\ k.row.deadline \in Nat
                      /\ \/ deliveries'[k.id] = k.row
                         \/ /\ k.row.deadline <= now
                            /\ \/ deliveries'[k.id].deadline = Null
                               \/ deliveries'[k.id].deadline > k.row.deadline
    BY <1>1 DEF StandsOrExpired
  <2>1. k \in claims[v] /\ k.id \in Ids
    BY <1>5 DEF TypeOK, Claims
  <2>2. CASE k.id = o.id
    BY <1>2, <1>7, <1>8, <1>9, <2>1, <2>2 DEF LeaseInv, StandsOrExpired
  <2>3. CASE k.id # o.id
    BY <1>7, <2>1, <2>3 DEF LeaseInv, StandsOrExpired
  <2> QED
    BY <2>2, <2>3
<1>11. DistinctClaims'
  BY <1>5 DEF LeaseInv, DistinctClaims
<1>12. OutcomeOfClaim'
  BY <1>5, <1>6 DEF LeaseInv, OutcomeOfClaim
<1>13. FencedOutcome'
  <2> SUFFICES ASSUME NEW v \in Workers, pc'[v] = "commit"
               PROVE  \E k \in claims'[v] : k.id = cur'[v].id /\ deliveries'[k.id] = k.row
    BY DEF FencedOutcome
  <2>1. v # w
    BY <1>6
  <2>2. PICK k \in claims[v] : k.id = cur[v].id /\ deliveries[k.id] = k.row
    BY <1>5, <2>1 DEF LeaseInv, FencedOutcome
  <2>3. k.id # o.id /\ k.id \in Ids
    BY <1>9, <2>1, <2>2 DEF TypeOK, Claims
  <2> QED
    BY <1>5, <1>7, <2>1, <2>2, <2>3
<1>14. ReplayHoldsFailed'
  <2>1. deliveries[o.id].status = "processing"
    BY <1>3 DEF LeaseInv, StandsOrExpired
  <2> SUFFICES ASSUME NEW q \in Requests, replay[q] # Null
               PROVE  deliveries'[replay[q].id] = deliveries[replay[q].id]
    BY <1>1 DEF LeaseInv, ReplayHoldsFailed
  <2>2. replay[q].id \in Ids /\ replay[q].id # o.id
    BY <2>1 DEF LeaseInv, ReplayHoldsFailed, TypeOK
  <2> QED
    BY <1>7, <2>2
<1> QED
  BY <1>10, <1>11, <1>12, <1>13, <1>14 DEF LeaseInv

\* No claim stands on a failed row, so a replay that commits hurts none.
LEMMA LeaseReplayCommit ==
    ASSUME Inv, NEW q \in Requests, ReplayCommit(q)
    PROVE  LeaseInv'
<1> DEFINE d == replay[q].id
           r == replay[q].row
<1> TypeOK /\ LeaseInv
  BY DEF Inv
<1>1. UNCHANGED <<now, claims, cur, pc>> /\ replay[q] # Null
  BY DEF ReplayCommit, workerVars
<1>2. /\ d \in Ids
      /\ deliveries[d] \in Rows
      /\ deliveries[d].status = "failed"
      /\ r \in Rows
      /\ r = ScheduleReplay(deliveries[d], r.nextAt)
  BY <1>1 DEF LeaseInv, ReplayHoldsFailed, TypeOK
<1>3. r.deadline = Null
  BY <1>2, Zenon DEF ScheduleReplay, Rows
<1>4. \A x \in Ids : deliveries'[x] = IF x = d THEN r ELSE deliveries[x]
  BY <1>2 DEF ReplayCommit, TypeOK
<1>5. \A p \in Requests : replay'[p] = IF p = q THEN Null ELSE replay[p]
  BY DEF ReplayCommit, TypeOK
<1> HIDE DEF r
<1>6. \A v \in Workers : \A c \in claims[v] : c.id \in Ids /\ (c.id = d => deliveries[d] # c.row)
  BY <1>2 DEF LeaseInv, StandsOrExpired, TypeOK, Claims
<1>7. StandsOrExpired'
  <2> SUFFICES ASSUME NEW v \in Workers, NEW c \in claims[v]
               PROVE  /\ c.row.status = "processing"
                      /\ c.row.deadline \in Nat
                      /\ \/ deliveries'[c.id] = c.row
                         \/ /\ c.row.deadline <= now
                            /\ \/ deliveries'[c.id].deadline = Null
                               \/ deliveries'[c.id].deadline > c.row.deadline
    BY <1>1 DEF StandsOrExpired
  <2>1. CASE c.id = d
    BY <1>3, <1>4, <1>6, <2>1 DEF LeaseInv, StandsOrExpired
  <2>2. CASE c.id # d
    BY <1>4, <1>6, <2>2 DEF LeaseInv, StandsOrExpired
  <2> QED
    BY <2>1, <2>2
<1>8. DistinctClaims' /\ OutcomeOfClaim'
  BY <1>1 DEF LeaseInv, DistinctClaims, OutcomeOfClaim
<1>9. FencedOutcome'
  BY <1>1, <1>4, <1>6 DEF LeaseInv, FencedOutcome
<1>10. ReplayHoldsFailed'
  <2>1. \A p \in Requests : replay[p] # Null /\ p # q => replay[p].id \in Ids /\ replay[p].id # d
    BY <1>1 DEF LeaseInv, ReplayHoldsFailed, TypeOK
  <2> QED
    BY <1>4, <1>5, <2>1 DEF LeaseInv, ReplayHoldsFailed
<1> QED
  BY <1>7, <1>8, <1>9, <1>10 DEF LeaseInv

\* A replay starts only on a failed row that no transaction has locked.
LEMMA LeaseReplayUpdate ==
    ASSUME Inv, NEW q \in Requests, NEW d \in Ids, ReplayUpdate(q, d)
    PROVE  LeaseInv'
<1> DEFINE r == ScheduleReplay(deliveries[d], now)
           x == [id |-> d, row |-> r, proj |-> ReadProjection(d, r)]
<1> TypeOK /\ LeaseInv
  BY DEF Inv
<1>1. UNCHANGED <<now, deliveries, claims, cur, pc>>
  BY DEF ReplayUpdate, dbVars, workerVars
<1>2. StandsOrExpired' /\ DistinctClaims' /\ OutcomeOfClaim' /\ FencedOutcome'
  BY <1>1 DEF LeaseInv, StandsOrExpired, DistinctClaims, OutcomeOfClaim, FencedOutcome
<1>3. deliveries[d] \in Rows /\ deliveries[d] # Null /\ deliveries[d].status = "failed" /\ ~Locked(d)
  BY DEF ReplayUpdate, TypeOK
<1>4. replay' = [replay EXCEPT ![q] = x]
  BY DEF ReplayUpdate
<1>5. r.nextAt = now
  BY <1>3, ReplayType DEF TypeOK
<1>6. x.id = d /\ x.row = ScheduleReplay(deliveries[d], x.row.nextAt)
  BY <1>5
<1>7. \A p \in Requests : replay[p] # Null => replay[p].id # d
  BY <1>3 DEF Locked
<1> HIDE DEF x, r
<1>8. \A p \in Requests : replay'[p] = IF p = q THEN x ELSE replay[p]
  BY <1>4 DEF TypeOK
<1>9. ReplayHoldsFailed'
  <2> SUFFICES ASSUME NEW p \in Requests, replay'[p] # Null
               PROVE  /\ deliveries[replay'[p].id] # Null
                      /\ deliveries[replay'[p].id].status = "failed"
                      /\ replay'[p].row =
                           ScheduleReplay(deliveries[replay'[p].id], replay'[p].row.nextAt)
                      /\ \A u \in Requests :
                           replay'[u] # Null /\ replay'[u].id = replay'[p].id => u = p
    BY <1>1 DEF ReplayHoldsFailed
  <2>1. CASE p = q
    BY <1>3, <1>6, <1>7, <1>8, <2>1
  <2>2. CASE p # q
    BY <1>6, <1>7, <1>8, <2>2 DEF LeaseInv, ReplayHoldsFailed
  <2> QED
    BY <2>1, <2>2
<1> QED
  BY <1>2, <1>9 DEF LeaseInv

\* Rolling back releases the row.
LEMMA LeaseReplayRollback ==
    ASSUME Inv, NEW q \in Requests, ReplayRollback(q)
    PROVE  LeaseInv'
<1> TypeOK /\ LeaseInv
  BY DEF Inv
<1>1. UNCHANGED <<now, deliveries, claims, cur, pc>>
  BY DEF ReplayRollback, dbVars, workerVars
<1>2. StandsOrExpired' /\ DistinctClaims' /\ OutcomeOfClaim' /\ FencedOutcome'
  BY <1>1 DEF LeaseInv, StandsOrExpired, DistinctClaims, OutcomeOfClaim, FencedOutcome
<1>3. \A p \in Requests : replay'[p] = Null \/ replay'[p] = replay[p]
  BY Zenon DEF ReplayRollback, TypeOK
<1>4. ReplayHoldsFailed
  BY DEF LeaseInv
<1>5. ReplayHoldsFailed'
  <2> SUFFICES ASSUME NEW p \in Requests, replay'[p] # Null
               PROVE  /\ deliveries[replay'[p].id] # Null
                      /\ deliveries[replay'[p].id].status = "failed"
                      /\ replay'[p].row =
                           ScheduleReplay(deliveries[replay'[p].id], replay'[p].row.nextAt)
                      /\ \A u \in Requests :
                           replay'[u] # Null /\ replay'[u].id = replay'[p].id => u = p
    BY <1>1 DEF ReplayHoldsFailed
  <2> QED
    BY <1>3, <1>4, ZenonT(30) DEF ReplayHoldsFailed
<1> QED
  BY <1>2, <1>5 DEF LeaseInv

-----------------------------------------------------------------------------
(* The invariants. *)

\* Every step keeps the lease invariant.
LEMMA LeaseStep == Inv /\ TypeOK' /\ [Next]_vars => LeaseInv'
<1> SUFFICES ASSUME Inv, TypeOK', [Next]_vars PROVE LeaseInv'
  BY Zenon
<1> TypeOK /\ now \in Nat
  BY DEF Inv, TypeOK
<1>1. ASSUME NEW s \in Subs, CreateSubscription(s) \/ DeleteSubscription(s) PROVE LeaseInv'
  BY <1>1, LeaseFrame DEF CreateSubscription, DeleteSubscription, workerVars
<1>2. ASSUME NEW w \in Workers, NEW B \in SUBSET Events, LoadSubscriptions(w, B) PROVE LeaseInv'
  <2>1. \A v \in Workers : pc'[v] \in {"persist", "commit"} => pc'[v] = pc[v]
    BY <1>2 DEF LoadSubscriptions, TypeOK
  <2> QED
    BY <1>2, <2>1, LeaseFrame DEF LoadSubscriptions, dbVars
<1>3. ASSUME NEW w \in Workers, NEW S \in SUBSET Ids,
             ClaimDeliveries(w, S) \/ ClaimEventDeliveries(w, S)
      PROVE  LeaseInv'
  <2>1. S \in SUBSET Candidates /\ Lease(w, S) /\ UNCHANGED <<now, cur, replay>>
    BY <1>3 DEF ClaimDeliveries, ClaimEventDeliveries
  <2>2. pc[w] \notin {"persist", "commit"} /\ pc'[w] \notin {"persist", "commit"}
          /\ \A v \in Workers \ {w} : pc'[v] = pc[v]
    BY <1>3 DEF ClaimDeliveries, ClaimEventDeliveries, TypeOK
  <2> QED
    BY <2>1, <2>2, LeaseClaim
<1>4. ASSUME NEW w \in Workers, PersistClaimLost(w) \/ Abandon(w) PROVE LeaseInv'
  BY <1>4, LeaseDrop DEF PersistClaimLost, Abandon
<1>5. ASSUME NEW i \in Instances, Crash(i) PROVE LeaseInv'
  BY <1>5, LeaseDrop DEF Crash
<1>6. CASE Tick
  BY <1>6, LeaseFrame DEF Tick, dbVars, workerVars
<1>7. CASE UNCHANGED vars
  BY <1>7, LeaseFrame DEF vars, dbVars, workerVars
<1> QED
  BY <1>1, <1>2, <1>3, <1>4, <1>5, <1>6, <1>7, LeaseInitialize, LeaseDeliver, LeasePersistUpdate,
     LeasePersistCommit, LeaseReplayUpdate, LeaseReplayCommit, LeaseReplayRollback
     DEF Next, Workers, DeliverAny, Persist

\* The types and the lease invariant hold in every reachable state.
THEOREM Invariance == Spec => []Inv
<1>1. Inv /\ [Next]_vars => Inv'
  BY TypeStep, LeaseStep DEF Inv
<1> QED
  BY <1>1, InitInv, PTL DEF Spec

\* Type correctness of the tables and of every process's local state.
THEOREM TypeCorrect == Spec => []TypeOK
<1>1. Inv => TypeOK
  BY DEF Inv
<1> QED
  BY <1>1, Invariance, PTL

\* The lease invariant by itself: claims stand or have expired, delivery and
\* deadline identify a claim, and outcomes and replays hold the rows they need.
THEOREM LeasesConsistent == Spec => []LeaseInv
<1>1. Inv => LeaseInv
  BY DEF Inv
<1> QED
  BY <1>1, Invariance, PTL

\* As long as a lease runs, the row is exactly the one that was claimed.
THEOREM LeaseProtected == Spec => []LeaseProtects
<1>1. Inv => LeaseProtects
  <2> SUFFICES ASSUME Inv, NEW w \in Workers, NEW c \in claims[w], c.row.deadline > now
               PROVE  deliveries[c.id] = c.row
    BY DEF LeaseProtects
  <2>1. now \in Nat /\ StandsOrExpired
    BY DEF Inv, TypeOK, LeaseInv
  <2> QED
    BY <2>1 DEF StandsOrExpired
<1> QED
  BY <1>1, Invariance, PTL

\* Two workers never hold running leases on one delivery, even when they share
\* an INSTANCE_ID: the deadline alone tells their claims apart.
THEOREM LeaseExclusive == Spec => []LeaseExclusion
<1>1. Inv => LeaseExclusion
  <2> SUFFICES ASSUME Inv, NEW w1 \in Workers, NEW w2 \in Workers,
                      NEW c1 \in claims[w1], NEW c2 \in claims[w2], c1.id = c2.id,
                      c1.row.deadline > now, c2.row.deadline > now
               PROVE  w1 = w2 /\ c1 = c2
    BY DEF LeaseExclusion
  <2>1. now \in Nat /\ StandsOrExpired /\ DistinctClaims
    BY DEF Inv, TypeOK, LeaseInv
  <2>2. deliveries[c1.id] = c1.row /\ deliveries[c2.id] = c2.row
    BY <2>1 DEF StandsOrExpired
  <2> QED
    BY <2>1, <2>2 DEF DistinctClaims
<1> QED
  BY <1>1, Invariance, PTL

\* Only the worker whose claim still stands commits an outcome, computed from
\* the very row it replaces.
THEOREM Fencing == Spec => []FencedOutcome
<1>1. Inv => FencedOutcome
  BY DEF Inv, LeaseInv
<1> QED
  BY <1>1, Invariance, PTL

-----------------------------------------------------------------------------
(* Terminal rows. *)

\* A delivered row never changes and a failed one only by a replay, which
\* opens the next generation and keeps the attempt history.
THEOREM TerminalFinal == Spec => TerminalIsFinal
<1> DEFINE Final(d) ==
      deliveries[d] # Null /\ deliveries[d].status \in Terminal /\ deliveries'[d] # deliveries[d]
        => /\ deliveries[d].status = "failed"
           /\ deliveries'[d].status = "retrying"
           /\ deliveries'[d].generation = deliveries[d].generation + 1
           /\ deliveries'[d].attempts = 0
           /\ attempts'[d] = attempts[d]
<1>1. Inv /\ [Next]_vars => \A d \in Ids : Final(d)
  <2> SUFFICES ASSUME Inv, [Next]_vars, NEW d \in Ids, deliveries[d] # Null,
                      deliveries[d].status \in Terminal, deliveries'[d] # deliveries[d]
               PROVE  Final(d)
    OBVIOUS
  <2>0. TypeOK /\ LeaseInv /\ deliveries = [x \in Ids |-> deliveries[x]]
    BY Zenon DEF Inv, TypeOK
  <2>1. ASSUME NEW w \in Workers, NEW e \in Events, InitializeEventDeliveries(w, e) PROVE FALSE
    BY <2>1 DEF InitializeEventDeliveries
  <2>2. ASSUME NEW w \in Workers, NEW S \in SUBSET Ids,
               ClaimDeliveries(w, S) \/ ClaimEventDeliveries(w, S)
        PROVE  FALSE
    <3>1. S \subseteq Candidates /\ d \in S
      BY <2>2 DEF ClaimDeliveries, ClaimEventDeliveries, Lease
    <3> QED
      BY <3>1 DEF Candidates, Claimable, Terminal
  <2>3. ASSUME NEW w \in Workers, PersistCommit(w) PROVE FALSE
    <3>1. d = cur[w].id /\ pc[w] = "commit"
      BY <2>0, <2>3 DEF PersistCommit
    <3>2. deliveries[d].status = "processing"
      BY <2>0, <3>1 DEF LeaseInv, FencedOutcome, StandsOrExpired
    <3> QED
      BY <3>2 DEF Terminal
  <2>4. ASSUME NEW q \in Requests, ReplayCommit(q) PROVE Final(d)
    <3>1. /\ d = replay[q].id /\ replay[q] # Null
          /\ deliveries'[d] = replay[q].row /\ attempts' = attempts
      BY <2>0, <2>4 DEF ReplayCommit
    <3>2. deliveries[d] \in Rows /\ deliveries[d].status = "failed"
            /\ replay[q].row = ScheduleReplay(deliveries[d], replay[q].row.nextAt)
      BY <2>0, <3>1, Zenon DEF LeaseInv, ReplayHoldsFailed, TypeOK
    <3>3. \A at : LET r == ScheduleReplay(deliveries[d], at)
                  IN  /\ r.status = "retrying"
                      /\ r.generation = deliveries[d].generation + 1
                      /\ r.attempts = 0
      BY <3>2 DEF ScheduleReplay, Rows
    <3> QED
      BY <3>1, <3>2, <3>3
  <2>5. deliveries' # deliveries
    OBVIOUS
  <2>6. \/ \E w \in Workers, e \in Events : InitializeEventDeliveries(w, e)
        \/ \E w \in Workers, S \in SUBSET Ids : ClaimDeliveries(w, S) \/ ClaimEventDeliveries(w, S)
        \/ \E w \in Workers : PersistCommit(w)
        \/ \E q \in Requests : ReplayCommit(q)
    BY <2>5, Zenon DEF Next, Workers, vars, dbVars, workerVars, DeliverAny, Persist, CreateSubscription,
       DeleteSubscription, LoadSubscriptions, Deliver, PersistUpdate, PersistClaimLost, Abandon,
       ReplayUpdate, ReplayRollback, Crash, Tick
  <2> QED
    BY <2>1, <2>2, <2>3, <2>4, <2>6
<1>2. Inv /\ [Next]_vars => [\A d \in Ids : Final(d)]_vars
  BY <1>1
<1>3. Spec => [][\A d \in Ids : Final(d)]_vars
  BY <1>2, Invariance, PTL DEF Spec
<1> QED
  BY <1>3 DEF TerminalIsFinal

-----------------------------------------------------------------------------
(* The projected status of an event. *)

\* A step that sets no delivery to a terminal status, and writes no event but
\* one without a row or with an unsettled delivery, keeps the projection.
LEMMA ProjectionQuiet ==
    ASSUME ProjectionInv,
           \A d \in Ids : \/ deliveries'[d] = deliveries[d]
                          \/ deliveries'[d] # Null /\ deliveries'[d].status \notin Terminal,
           \A e \in Events : \/ events'[e] = events[e]
                             \/ events[e] = Null
                             \/ ~SettledEvent(e)',
           \A v \in Workers : pc'[v] = "commit" =>
             pc[v] = "commit" /\ cur'[v] = cur[v] /\ proj'[v] = proj[v]
    PROVE  ProjectionInv'
<1> DEFINE rows(e) == {x \in Ids : x[1] = e /\ deliveries[x] # Null}
<1>1. ASSUME NEW e \in Events, SettledEvent(e)'
      PROVE  events'[e] = ProjectStatus({deliveries'[d].status : d \in rows(e)'})
  <2>1. \A d \in Ids : d[1] = e => deliveries'[d] = deliveries[d]
    BY <1>1 DEF SettledEvent
  <2>2. SettledEvent(e) /\ rows(e)' = rows(e)
    BY <1>1, <2>1 DEF SettledEvent
  <2>3. {deliveries'[d].status : d \in rows(e)'} = {deliveries[d].status : d \in rows(e)}
    BY <2>1, <2>2
  <2>4. events[e] = ProjectStatus({deliveries[d].status : d \in rows(e)})
    BY <2>2 DEF ProjectionInv
  <2> HIDE DEF rows
  <2>5. events[e] \in Statuses
    BY <2>4, Zenon DEF ProjectStatus, Statuses
  <2> QED
    BY <1>1, <2>3, <2>4, <2>5, NullRowAssumption, Zenon
<1>2. ASSUME NEW w \in Workers, pc'[w] = "commit", SettledSiblings(cur[w].id)'
      PROVE  proj'[w] = ReadProjection(cur[w].id, cur[w].row)'
  <2> DEFINE d == cur[w].id
             sib == {x \in Ids : x[1] = d[1] /\ x # d /\ deliveries[x] # Null}
  <2>1. pc[w] = "commit" /\ cur'[w] = cur[w] /\ proj'[w] = proj[w]
    BY <1>2
  <2>2. \A x \in Ids : x[1] = d[1] /\ x # d => deliveries'[x] = deliveries[x]
    BY <1>2, <2>1 DEF SettledSiblings
  <2>3. SettledSiblings(d)
    BY <1>2, <2>1, <2>2 DEF SettledSiblings
  <2>4. proj[w] = ReadProjection(d, cur[w].row)
    BY <2>1, <2>3 DEF ProjectionInv
  <2>5. sib' = sib /\ {deliveries'[x].status : x \in sib'} = {deliveries[x].status : x \in sib}
    BY <2>1, <2>2
  <2> QED
    BY <2>1, <2>4, <2>5, Zenon DEF ReadProjection
<1> QED
  BY <1>1, <1>2, Zenon DEF ProjectionInv

\* Committing an outcome writes the projection its transaction has read, which
\* is still right if the event is settled now and no other outcome overlaps.
LEMMA ProjectionCommit ==
    ASSUME Inv, OutcomesApart, ProjectionInv, NEW w \in Workers, PersistCommit(w)
    PROVE  ProjectionInv'
<1> DEFINE o       == cur[w]
           r       == [o.row EXCEPT !.owner = Null, !.deadline = Null]
           rows(e) == {x \in Ids : x[1] = e /\ deliveries[x] # Null}
           sib(d)  == {x \in Ids : x[1] = d[1] /\ x # d /\ deliveries[x] # Null}
<1> TypeOK
  BY DEF Inv
<1>1. pc[w] = "commit" /\ o \in Outcomes /\ o.id \in Ids
  BY DEF PersistCommit, Inv, LeaseInv, OutcomeOfClaim, Outcomes
<1>2. \A x \in Ids : deliveries'[x] = IF x = o.id THEN r ELSE deliveries[x]
  BY <1>1 DEF PersistCommit, TypeOK
<1>3. \A e \in Events : events'[e] = IF e = o.id[1] THEN proj[w] ELSE events[e]
  BY <1>1 DEF PersistCommit, TypeOK
<1>4. r # Null /\ r.status = o.row.status
  <2>1. r \in Rows /\ r.status = o.row.status
    BY <1>1, Zenon DEF Outcomes, Rows
  <2> QED
    BY <2>1, NullRowAssumption
<1>5. \A v \in Workers : pc'[v] = "commit" =>
        v # w /\ pc[v] = "commit" /\ cur'[v] = cur[v] /\ proj'[v] = proj[v]
  BY DEF PersistCommit, TypeOK
<1> HIDE DEF r
<1>6. ASSUME NEW e \in Events, SettledEvent(e)'
      PROVE  events'[e] = ProjectStatus({deliveries'[d].status : d \in rows(e)'})
  <2>1. CASE e = o.id[1]
    <3>1. SettledSiblings(o.id)
      BY <1>2, <1>6, <2>1 DEF SettledSiblings, SettledEvent
    <3>2. events'[e] = ReadProjection(o.id, o.row)
      BY <1>1, <1>3, <2>1, <3>1 DEF ProjectionInv
    <3>3. rows(e)' = {o.id} \cup sib(o.id)
      BY <1>1, <1>2, <1>4, <2>1
    <3>4. {deliveries'[d].status : d \in rows(e)'}
            = {o.row.status} \cup {deliveries[x].status : x \in sib(o.id)}
      BY <1>1, <1>2, <1>4, <3>3
    <3> QED
      BY <3>2, <3>4, Zenon DEF ReadProjection
  <2>2. CASE e # o.id[1]
    <3>1. events'[e] = events[e] /\ \A d \in Ids : d[1] = e => deliveries'[d] = deliveries[d]
      BY <1>2, <1>3, <2>2
    <3>2. SettledEvent(e) /\ rows(e)' = rows(e)
      BY <1>6, <3>1 DEF SettledEvent
    <3>3. {deliveries'[d].status : d \in rows(e)'} = {deliveries[d].status : d \in rows(e)}
      BY <3>1, <3>2
    <3>4. events[e] = ProjectStatus({deliveries[d].status : d \in rows(e)})
      BY <3>2 DEF ProjectionInv
    <3> QED
      BY <3>1, <3>3, <3>4, Zenon
  <2> QED
    BY <2>1, <2>2
<1>7. ASSUME NEW v \in Workers, pc'[v] = "commit", SettledSiblings(cur[v].id)'
      PROVE  proj'[v] = ReadProjection(cur[v].id, cur[v].row)'
  <2> DEFINE d == cur[v].id
  <2>1. pc[v] = "commit" /\ cur'[v] = cur[v] /\ proj'[v] = proj[v] /\ d[1] # o.id[1]
    BY <1>1, <1>5, <1>7 DEF OutcomesApart
  <2>2. \A x \in Ids : x[1] = d[1] => deliveries'[x] = deliveries[x]
    BY <1>2, <2>1
  <2>3. SettledSiblings(d)
    BY <1>7, <2>1, <2>2 DEF SettledSiblings
  <2>4. proj[v] = ReadProjection(d, cur[v].row)
    BY <2>1, <2>3 DEF ProjectionInv
  <2>5. /\ sib(d)' = sib(d)
        /\ {deliveries'[x].status : x \in sib(d)'} = {deliveries[x].status : x \in sib(d)}
    BY <2>1, <2>2
  <2> QED
    BY <2>1, <2>4, <2>5, Zenon DEF ReadProjection
<1> QED
  BY <1>6, <1>7, Zenon DEF ProjectionInv

\* An outcome that is about to be committed has just read its siblings.
LEMMA ProjectionRead ==
    ASSUME Inv, ProjectionInv, NEW w \in Workers, PersistUpdate(w)
    PROVE  ProjectionInv'
<1>1. UNCHANGED <<events, deliveries, cur>>
  BY Zenon DEF PersistUpdate, dbVars
<1>2. /\ \A v \in Workers : v # w => pc'[v] = pc[v] /\ proj'[v] = proj[v]
      /\ proj'[w] = ReadProjection(cur[w].id, cur[w].row)
  BY DEF PersistUpdate, Inv, TypeOK
<1>3. \A e \in Events : SettledEvent(e)' = SettledEvent(e)
  BY <1>1 DEF SettledEvent
<1>4. ASSUME NEW v \in Workers, pc'[v] = "commit", SettledSiblings(cur[v].id)'
      PROVE  proj'[v] = ReadProjection(cur[v].id, cur[v].row)'
  <2>1. /\ SettledSiblings(cur[v].id)
        /\ ReadProjection(cur[v].id, cur[v].row)' = ReadProjection(cur[v].id, cur[v].row)
    BY <1>1, <1>4 DEF SettledSiblings, ReadProjection
  <2> QED
    BY <1>2, <1>4, <2>1 DEF ProjectionInv
<1> QED
  BY <1>1, <1>3, <1>4 DEF ProjectionInv

\* A replay unsettles its event, whatever projection it has read.
LEMMA ProjectionReplay ==
    ASSUME Inv, ProjectionInv, NEW q \in Requests, ReplayCommit(q)
    PROVE  ProjectionInv'
<1> DEFINE d == replay[q].id
           r == replay[q].row
<1>1. /\ d \in Ids /\ r \in Rows /\ deliveries[d] \in Rows
      /\ r = ScheduleReplay(deliveries[d], r.nextAt)
  BY DEF ReplayCommit, Inv, LeaseInv, ReplayHoldsFailed, TypeOK
<1>2. r # Null /\ r.status \notin Terminal
  <2>1. \A at : ScheduleReplay(deliveries[d], at).status = "retrying"
    BY <1>1 DEF ScheduleReplay, Rows
  <2> QED
    BY <1>1, <2>1, NullRowAssumption DEF Terminal
<1>3. \A x \in Ids : deliveries'[x] = IF x = d THEN r ELSE deliveries[x]
  BY Zenon DEF ReplayCommit, Inv, TypeOK
<1> HIDE DEF r
<1>4. \A e \in Events : e = d[1] => ~SettledEvent(e)'
  BY <1>1, <1>2, <1>3 DEF SettledEvent
<1>5. \A e \in Events : events'[e] = events[e] \/ ~SettledEvent(e)'
  BY <1>4 DEF ReplayCommit, Inv, TypeOK
<1>6. UNCHANGED <<pc, cur, proj>>
  BY DEF ReplayCommit, workerVars
<1> QED
  BY <1>2, <1>3, <1>5, <1>6, ProjectionQuiet

\* Every step keeps the projection right while outcomes do not overlap.
LEMMA ProjectionStep == Inv /\ OutcomesApart /\ ProjectionInv /\ [Next]_vars => ProjectionInv'
<1> SUFFICES ASSUME Inv, OutcomesApart, ProjectionInv, [Next]_vars PROVE ProjectionInv'
  BY Zenon
<1>0. ASSUME NEW w \in Workers, NEW d \in Candidates
      PROVE  LET r == MarkAsProcessing(deliveries[d], InstanceOf[w], now + LeaseDuration)
             IN  r # Null /\ r.status \notin Terminal
  <2>1. deliveries[d] \in Rows /\ InstanceOf[w] \in Instances /\ now + LeaseDuration \in Nat
    BY WorkersAssumption, LeaseAssumption DEF Candidates, Inv, TypeOK
  <2> QED
    BY <2>1, LeaseType, NullRowAssumption DEF Terminal
<1> /\ pc = [v \in Workers |-> pc[v]] /\ cur = [v \in Workers |-> cur[v]]
    /\ proj = [v \in Workers |-> proj[v]] /\ events = [e \in Events |-> events[e]]
    /\ deliveries = [d \in Ids |-> deliveries[d]]
  BY Zenon DEF Inv, TypeOK
<1>1. ASSUME UNCHANGED <<events, deliveries>>,
             \A v \in Workers : pc'[v] = "commit" =>
               pc[v] = "commit" /\ cur'[v] = cur[v] /\ proj'[v] = proj[v]
      PROVE  ProjectionInv'
  BY <1>1, ProjectionQuiet
<1>2. ASSUME NEW W, Drop(W), UNCHANGED dbVars PROVE ProjectionInv'
  BY <1>1, <1>2 DEF Drop, dbVars
<1>3. ASSUME NEW w \in Workers, NEW B \in SUBSET Events, LoadSubscriptions(w, B)
      PROVE  ProjectionInv'
  BY <1>1, <1>3 DEF LoadSubscriptions, dbVars
<1>4. ASSUME NEW w \in Workers, NEW e \in Events, InitializeEventDeliveries(w, e)
      PROVE  ProjectionInv'
  <2>1. \A d \in Ids : deliveries'[d] = deliveries[d] \/ deliveries'[d] = NewDelivery
    BY <1>4 DEF InitializeEventDeliveries
  <2>2. NewDelivery # Null /\ NewDelivery.status \notin Terminal
    <3>1. NewDelivery \in Rows
      BY DEF NewDelivery, Rows, Statuses
    <3> QED
      BY <3>1, NullRowAssumption DEF NewDelivery, Terminal
  <2>3. \A x \in Events : events'[x] = events[x] \/ events[x] = Null
    BY <1>4 DEF InitializeEventDeliveries
  <2>4. \A v \in Workers : pc'[v] = "commit" =>
          pc[v] = "commit" /\ cur'[v] = cur[v] /\ proj'[v] = proj[v]
    BY <1>4 DEF InitializeEventDeliveries
  <2> QED
    BY <2>1, <2>2, <2>3, <2>4, ProjectionQuiet
<1>5. ASSUME NEW w \in Workers, NEW S \in SUBSET Ids,
             ClaimDeliveries(w, S) \/ ClaimEventDeliveries(w, S)
      PROVE  ProjectionInv'
  <2> DEFINE leased(d) == MarkAsProcessing(deliveries[d], InstanceOf[w], now + LeaseDuration)
  <2>1. S \subseteq Candidates /\ events' = events
          /\ \A d \in Ids : deliveries'[d] = deliveries[d] \/ (d \in S /\ deliveries'[d] = leased(d))
    BY <1>5 DEF ClaimDeliveries, ClaimEventDeliveries, Lease
  <2>2. \A d \in S : leased(d) # Null /\ leased(d).status \notin Terminal
    BY <1>0, <2>1
  <2> HIDE DEF leased
  <2>3. \A v \in Workers : pc'[v] = "commit" =>
          pc[v] = "commit" /\ cur'[v] = cur[v] /\ proj'[v] = proj[v]
    BY <1>5 DEF ClaimDeliveries, ClaimEventDeliveries
  <2> QED
    BY <2>1, <2>2, <2>3, ProjectionQuiet
<1>6. ASSUME NEW w \in Workers, DeliverAny(w) PROVE ProjectionInv'
  BY <1>1, <1>6 DEF DeliverAny, Deliver, dbVars
<1>7. \/ \E w \in Workers : \E B \in SUBSET Events : LoadSubscriptions(w, B)
      \/ \E w \in Workers, e \in Events : InitializeEventDeliveries(w, e)
      \/ \E w \in Workers, S \in SUBSET Ids : ClaimDeliveries(w, S) \/ ClaimEventDeliveries(w, S)
      \/ \E w \in Workers : DeliverAny(w) \/ PersistUpdate(w) \/ PersistCommit(w)
      \/ \E q \in Requests : ReplayCommit(q)
      \/ \E W : Drop(W) /\ UNCHANGED dbVars
      \/ UNCHANGED <<events, deliveries, pc, cur, proj>>
  BY Zenon DEF Next, Workers, vars, dbVars, workerVars, Persist, CreateSubscription,
     DeleteSubscription, PersistClaimLost, Abandon, ReplayUpdate, ReplayRollback, Crash, Tick
<1> QED
  BY <1>1, <1>2, <1>3, <1>4, <1>5, <1>6, <1>7, ProjectionRead, ProjectionCommit, ProjectionReplay

\* A settled event shows the projection of its deliveries in every behaviour
\* in which no two outcome transactions of one event overlap: that overlap is
\* the only way to a wrong status.  Replays, claims, redeliveries and crashes
\* that come between are harmless.
THEOREM ProjectionExact == Spec /\ []OutcomesApart => []SettledProjection
<1>1. Init => ProjectionInv
  BY DEF Init, ProjectionInv, SettledEvent
<1>2. ProjectionInv => SettledProjection
  BY Zenon DEF ProjectionInv, SettledEvent, SettledProjection
<1> QED
  BY <1>1, <1>2, ProjectionStep, Invariance, PTL DEF Spec

\* With one subscription an event has one delivery, and the lock on its row
\* keeps the transactions apart.
THEOREM ProjectionSettled ==
    (\A s, t \in Subs : s = t) => (Spec => []SettledProjection)
<1> SUFFICES ASSUME \A s, t \in Subs : s = t PROVE Spec => []SettledProjection
  BY Zenon
<1>1. Inv => OutcomesApart
  <2> SUFFICES ASSUME Inv, NEW w1 \in Workers, NEW w2 \in Workers, pc[w1] = "commit",
                      pc[w2] = "commit", cur[w1].id[1] = cur[w2].id[1]
               PROVE  w1 = w2
    BY DEF OutcomesApart
  <2>1. PICK c1 \in claims[w1] : c1.id = cur[w1].id /\ deliveries[c1.id] = c1.row
    BY DEF Inv, LeaseInv, FencedOutcome
  <2>2. PICK c2 \in claims[w2] : c2.id = cur[w2].id /\ deliveries[c2.id] = c2.row
    BY DEF Inv, LeaseInv, FencedOutcome
  <2>3. c1.id \in Ids /\ c2.id \in Ids
    BY DEF Inv, TypeOK, Claims
  <2>4. c1.id = c2.id
    BY <2>1, <2>2, <2>3 DEF Ids
  <2> QED
    BY <2>1, <2>2, <2>4 DEF Inv, LeaseInv, DistinctClaims
<1> QED
  BY <1>1, Invariance, ProjectionExact, PTL

-----------------------------------------------------------------------------
(* No delivery is stranded. *)

\* An exchange ends a delivery or gives it the time of its next attempt.
LEMMA ApplyDue ==
    ASSUME NEW r \in Rows, NEW reply \in Replies, NEW nextAt \in Nat
    PROVE  LET x == applyDeliveryResult(r, deliverToSubscription(r.attempts, reply), nextAt)
           IN  x.status \notin Terminal => x.status # "processing" /\ DueAt(x) \in Nat
<1> DEFINE result == deliverToSubscription(r.attempts, reply)
           x      == applyDeliveryResult(r, result, nextAt)
<1>1. result.outcome \in {"success", "failure", "retry", "throttled"}
  BY ResultType DEF Rows
<1> HIDE DEF result
<1>2. CASE result.outcome \in {"success", "failure"}
  <2>1. x.status \in Terminal
    BY <1>2 DEF applyDeliveryResult, MarkAsDelivered, MarkAsFailed, Terminal, Rows
  <2> HIDE DEF x
  <2> QED
    BY <2>1 DEF x, result
<1>3. CASE result.outcome \in {"retry", "throttled"}
  <2>1. x.status \in {"retrying", "throttled"} /\ x.nextAt = nextAt
    BY <1>3, Zenon DEF applyDeliveryResult, MarkAsRetrying, MarkAsThrottled, Rows
  <2> HIDE DEF x
  <2>2. x.status # "processing" /\ DueAt(x) \in Nat
    BY <2>1, Zenon DEF DueAt
  <2> QED
    BY <2>2 DEF x, result
<1> QED
  BY <1>1, <1>2, <1>3 DEF result

\* A step keeps the times if whatever it writes has one.
LEMMA DueFrame ==
    ASSUME DueInv,
           \A d \in Ids : \/ deliveries'[d] = deliveries[d]
                          \/ deliveries'[d].status \in Terminal
                          \/ DueAt(deliveries'[d]) \in Nat,
           \A w \in Workers : pc'[w] \in {"persist", "commit"} =>
             \/ pc[w] \in {"persist", "commit"} /\ cur'[w] = cur[w]
             \/ cur'[w].row.status \in Terminal
             \/ cur'[w].row.status # "processing" /\ DueAt(cur'[w].row) \in Nat,
           \A q \in Requests : \/ replay'[q] = replay[q]
                               \/ replay'[q] = Null
                               \/ DueAt(replay'[q].row) \in Nat
    PROVE  DueInv'
BY Zenon DEF DueInv, DueAt

\* Committing an outcome clears the lease, on which its time does not depend.
LEMMA DuePersistCommit ==
    ASSUME Inv, DueInv, NEW w \in Workers, PersistCommit(w)
    PROVE  DueInv'
<1> DEFINE o == cur[w]
           r == [o.row EXCEPT !.owner = Null, !.deadline = Null]
<1>1. pc[w] = "commit" /\ o.id \in Ids /\ o.row \in Rows
  BY DEF PersistCommit, Inv, LeaseInv, OutcomeOfClaim, Outcomes
<1>2. r.status = o.row.status /\ r.nextAt = o.row.nextAt
  BY <1>1, Zenon DEF Rows
<1>3. deliveries' = [deliveries EXCEPT ![o.id] = r]
  BY Zenon DEF PersistCommit
<1> HIDE DEF r
<1>4. \A x \in Ids : deliveries'[x] = deliveries[x] \/ deliveries'[x] = r
  BY <1>3, Zenon DEF Inv, TypeOK
<1>5. r.status \in Terminal \/ DueAt(r) \in Nat
  BY <1>1, <1>2 DEF DueInv, DueAt
<1>6. \A v \in Workers : pc'[v] \in {"persist", "commit"} =>
        pc[v] \in {"persist", "commit"} /\ cur'[v] = cur[v]
  BY DEF PersistCommit, Inv, TypeOK
<1>7. replay' = replay
  BY DEF PersistCommit
<1> QED
  BY <1>4, <1>5, <1>6, <1>7, DueFrame, Zenon

\* Every step keeps the times.
LEMMA DueStep == Inv /\ DueInv /\ [Next]_vars => DueInv'
<1> SUFFICES ASSUME Inv, DueInv, [Next]_vars PROVE DueInv'
  BY Zenon
<1>1. ASSUME NEW w \in Workers, NEW d \in Candidates
      PROVE  DueAt(MarkAsProcessing(deliveries[d], InstanceOf[w], now + LeaseDuration)) \in Nat
  <2>1. deliveries[d] \in Rows /\ InstanceOf[w] \in Instances /\ now + LeaseDuration \in Nat
    BY WorkersAssumption, LeaseAssumption DEF Candidates, Inv, TypeOK
  <2> QED
    BY <2>1, LeaseType DEF DueAt
<1>2. ASSUME NEW w \in Workers, NEW c \in claims[w], NEW reply \in Replies, NEW delay \in RetryDelays
      PROVE  LET x == applyDeliveryResult(c.row, deliverToSubscription(c.row.attempts, reply),
                                          now + delay)
             IN  x.status \notin Terminal => x.status # "processing" /\ DueAt(x) \in Nat
  <2>1. c.row \in Rows /\ now + delay \in Nat
    BY BoundsAssumption DEF Inv, TypeOK, Claims
  <2> QED
    BY <2>1, ApplyDue
<1>3. ASSUME NEW d \in Ids, deliveries[d] # Null
      PROVE  DueAt(ScheduleReplay(deliveries[d], now)) \in Nat
  <2>1. deliveries[d] \in Rows /\ now \in Nat
    BY <1>3 DEF Inv, TypeOK
  <2> QED
    BY <2>1, Zenon DEF ScheduleReplay, DueAt, Rows
<1> /\ pc = [v \in Workers |-> pc[v]] /\ cur = [v \in Workers |-> cur[v]]
    /\ deliveries = [d \in Ids |-> deliveries[d]] /\ replay = [q \in Requests |-> replay[q]]
  BY Zenon DEF Inv, TypeOK
<1>4. ASSUME UNCHANGED <<deliveries, replay>>,
             \A v \in Workers : pc'[v] \in {"persist", "commit"} =>
               pc[v] \in {"persist", "commit"} /\ cur'[v] = cur[v]
      PROVE  DueInv'
  BY <1>4, DueFrame
<1>5. ASSUME NEW W, Drop(W), UNCHANGED <<dbVars, replay>> PROVE DueInv'
  BY <1>4, <1>5 DEF Drop, dbVars
<1>6. ASSUME NEW w \in Workers, NEW B \in SUBSET Events, LoadSubscriptions(w, B) PROVE DueInv'
  BY <1>4, <1>6 DEF LoadSubscriptions, dbVars
<1>7. ASSUME NEW w \in Workers, NEW e \in Events, InitializeEventDeliveries(w, e) PROVE DueInv'
  <2>1. \A d \in Ids : deliveries'[d] = deliveries[d] \/ deliveries'[d] = NewDelivery
    BY <1>7 DEF InitializeEventDeliveries
  <2>2. DueAt(NewDelivery) \in Nat
    BY DEF NewDelivery, DueAt
  <2>3. UNCHANGED replay /\ \A v \in Workers : pc'[v] \in {"persist", "commit"} =>
          pc[v] \in {"persist", "commit"} /\ cur'[v] = cur[v]
    BY <1>7 DEF InitializeEventDeliveries
  <2> QED
    BY <2>1, <2>2, <2>3, DueFrame
<1>8. ASSUME NEW w \in Workers, NEW S \in SUBSET Ids,
             ClaimDeliveries(w, S) \/ ClaimEventDeliveries(w, S)
      PROVE  DueInv'
  <2> DEFINE leased(d) == MarkAsProcessing(deliveries[d], InstanceOf[w], now + LeaseDuration)
  <2>1. S \subseteq Candidates /\ UNCHANGED replay
          /\ \A d \in Ids : deliveries'[d] = deliveries[d] \/ (d \in S /\ deliveries'[d] = leased(d))
    BY <1>8 DEF ClaimDeliveries, ClaimEventDeliveries, Lease
  <2>2. \A d \in S : DueAt(leased(d)) \in Nat
    BY <1>1, <2>1
  <2> HIDE DEF leased
  <2>3. \A v \in Workers : pc'[v] \in {"persist", "commit"} =>
          pc[v] \in {"persist", "commit"} /\ cur'[v] = cur[v]
    BY <1>8 DEF ClaimDeliveries, ClaimEventDeliveries
  <2> QED
    BY <2>1, <2>2, <2>3, DueFrame, Zenon
<1>9. ASSUME NEW w \in Workers, NEW c \in claims[w], NEW reply \in Replies,
              NEW delay \in RetryDelays, Deliver(w, c, reply, delay)
       PROVE  DueInv'
  <2> DEFINE result == deliverToSubscription(c.row.attempts, reply)
             x      == applyDeliveryResult(c.row, result, now + delay)
  <2>1. x.status \notin Terminal => x.status # "processing" /\ DueAt(x) \in Nat
    BY <1>2
  <2>2. /\ UNCHANGED <<deliveries, replay>>
        /\ cur' = [cur EXCEPT ![w] = [id |-> c.id, row |-> x, number |-> result.number]]
        /\ pc' = [pc EXCEPT ![w] = "persist"]
    BY <1>9 DEF Deliver, dbVars
  <2> HIDE DEF x, result
  <2>3. /\ \A v \in Workers \ {w} : pc'[v] = pc[v] /\ cur'[v] = cur[v]
        /\ cur'[w].row = x
    BY <2>2
  <2> QED
    BY <2>1, <2>2, <2>3, DueFrame
<1>10. ASSUME NEW w \in Workers, PersistUpdate(w) PROVE DueInv'
  BY <1>4, <1>10 DEF PersistUpdate, dbVars
<1>11. ASSUME NEW q \in Requests, NEW d \in Ids, ReplayUpdate(q, d) PROVE DueInv'
  <2>1. UNCHANGED <<deliveries, pc, cur>> /\ deliveries[d] # Null
    BY <1>11 DEF ReplayUpdate, dbVars, workerVars
  <2>2. \A p \in Requests : replay'[p] = replay[p]
                             \/ replay'[p].row = ScheduleReplay(deliveries[d], now)
    BY <1>11 DEF ReplayUpdate
  <2> QED
    BY <1>3, <2>1, <2>2, DueFrame
<1>12. ASSUME NEW q \in Requests, ReplayCommit(q) \/ ReplayRollback(q) PROVE DueInv'
  <2>1. UNCHANGED <<pc, cur>> /\ replay[q] # Null
    BY <1>12 DEF ReplayCommit, ReplayRollback, workerVars
  <2>2. \A p \in Requests : replay'[p] = replay[p] \/ replay'[p] = Null
    BY <1>12 DEF ReplayCommit, ReplayRollback
  <2>3. \A x \in Ids : deliveries'[x] = deliveries[x] \/ deliveries'[x] = replay[q].row
    BY <1>12 DEF ReplayCommit, ReplayRollback, dbVars
  <2>4. DueAt(replay[q].row) \in Nat
    BY <2>1 DEF DueInv
  <2> QED
    BY <2>1, <2>2, <2>3, <2>4, DueFrame
<1>13. ASSUME NEW w \in Workers, PersistClaimLost(w) \/ Abandon(w) PROVE DueInv'
  BY <1>5, <1>13, Zenon DEF PersistClaimLost, Abandon
<1>14. ASSUME NEW i \in Instances, Crash(i) PROVE DueInv'
  BY <1>5, <1>14, Zenon DEF Crash
<1>15. CASE UNCHANGED <<deliveries, replay, pc, cur>>
  BY <1>4, <1>15
<1>16. ASSUME NEW s \in Subs, CreateSubscription(s) \/ DeleteSubscription(s) PROVE DueInv'
  BY <1>15, <1>16, Zenon DEF CreateSubscription, DeleteSubscription, workerVars
<1>17. CASE Tick \/ UNCHANGED vars
  BY <1>15, <1>17, Zenon DEF Tick, vars, dbVars, workerVars
<1> QED
  BY <1>6, <1>7, <1>8, <1>9, <1>10, <1>11, <1>12, <1>13, <1>14, <1>16, <1>17, DuePersistCommit, Zenon
     DEF Next, Workers, DeliverAny, Persist

\* No order of faults leaves an unfinished delivery that the claim query will
\* never find: the part of EventuallyTerminal that does not need fairness.
THEOREM Unstranded == Spec => []NeverStranded
<1>1. Init => DueInv
  BY DEF Init, DueInv
<1>2. Inv /\ DueInv => NeverStranded
  <2> SUFFICES ASSUME Inv, DueInv, NEW d \in Ids, deliveries[d] # Null,
                      deliveries[d].status \notin Terminal
               PROVE  /\ DueAt(deliveries[d]) \in Nat
                      /\ DueAt(deliveries[d]) <= now => Claimable(deliveries[d])
    BY DEF NeverStranded
  <2>1. deliveries[d].status \in Statuses /\ DueAt(deliveries[d]) \in Nat
    BY DEF Inv, TypeOK, Rows, DueInv
  <2> QED
    BY <2>1, NullAssumption DEF Claimable, DueAt, Statuses, Terminal
<1> QED
  BY <1>1, <1>2, DueStep, Invariance, PTL DEF Spec
=============================================================================
