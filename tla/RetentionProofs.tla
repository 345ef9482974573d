-------------------------- MODULE RetentionProofs ---------------------------
(***************************************************************************)
(* The safety properties of Retention, for any number of cleaners,         *)
(* sessions, events and subscriptions and any retention and batch size.    *)
(***************************************************************************)
EXTENDS Retention, TLAPS

Inserting(t) == tx[t].kind \in {"insert", "inserted"}

\* Once Stop has returned, the context refuses the statements of a cycle.
StopInv ==
    \A c \in Cleaners :
        /\ stopper[c] # "none" => ctxDone[c]
        /\ stopper[c] = "returned" => pc[c] \notin {"delete", "lock"}

\* A cleaner holds locks and candidates only inside the delete statement, and
\* its cutoff never lies ahead of the clock.
CycleInv ==
    \A c \in Cleaners :
        /\ pc[c] # "lock" => snap[c] = {} /\ held[c] = {}
        /\ startedAt[c] <= now

\* No two cleaners hold the same event row.
HeldOnce ==
    \A c1, c2 \in Cleaners : \A e \in held[c1] : e \in held[c2] => c1 = c2

\* A session that inserts an event row finds none, and is the only one to.
FreshInv ==
    \A t \in Txs : Inserting(t) /\ tx[t].fresh =>
        /\ events[tx[t].e] = Null
        /\ \A u \in Txs : Inserting(u) /\ tx[u].fresh /\ tx[u].e = tx[t].e => u = t

\* A session that has inserted deliveries of an event that was there keeps it.
KeyShareInv ==
    \A t \in Txs : tx[t].kind = "inserted" /\ ~tx[t].fresh /\ tx[t].new # {} =>
        events[tx[t].e] # Null /\ ~HeldByCleaner(tx[t].e)

\* What the statement has not yet locked exists, and is expired unless it
\* changed since the snapshot; what it has locked exists and is expired.
ExpiredInv ==
    \A c \in Cleaners :
        /\ \A e \in snap[c] : events[e] # Null /\ (e \notin changed[c] => EventExpired(c, e))
        /\ \A e \in held[c] : EventExpired(c, e)

Inv ==
    /\ TypeOK
    /\ StopInv
    /\ CycleInv
    /\ HeldOnce
    /\ FreshInv
    /\ KeyShareInv
    /\ ExpiredInv
    /\ NoOrphan

\* With one handout per event, an event's deliveries are inserted with it.
FirstHandout ==
    /\ \A e \in Events : events[e] # Null => handouts[e] > 0
    /\ \A t \in Txs : Inserting(t) => tx[t].fresh /\ handouts[tx[t].e] > 0

\* Then every delivery of a candidate is terminal, as it was in the snapshot,
\* unless a session touched it since and so made the event young again.
TerminalInv ==
    \A c \in Cleaners :
        /\ \A e \in snap[c] \cap changed[c] : events[e].updatedAt >= startedAt[c]
        /\ \A e \in (snap[c] \ changed[c]) \cup held[c], s \in Subs :
              deliveries[<<e, s>>] \in Terminal \cup {Null}

OnceInv == FirstHandout /\ TerminalInv

-----------------------------------------------------------------------------
(* Types. *)

\* What an open transaction consists of, by its kind.
LEMMA TxShape ==
    ASSUME TypeOK, NEW t \in Txs
    PROVE  /\ tx[t] = NoTx \/ tx[t].kind \in {"touch", "insert", "inserted"}
           /\ tx[t] # NoTx => tx[t] \in OpenTxs
           /\ tx[t].kind = "touch" =>
                /\ tx[t].d \in Ids
                /\ tx[t].to \in Statuses
                /\ tx[t].proj \in Statuses
           /\ tx[t].kind \in {"insert", "inserted"} =>
                /\ tx[t].e \in Events
                /\ tx[t].new \in SUBSET Subs
                /\ tx[t].fresh \in BOOLEAN
                /\ tx[t] = [kind |-> tx[t].kind, e |-> tx[t].e, new |-> tx[t].new,
                            fresh |-> tx[t].fresh]
<1>1. tx[t] = NoTx \/ tx[t] \in OpenTxs
  BY DEF TypeOK
<1>2. CASE tx[t] = NoTx
  BY <1>2 DEF NoTx
<1>3. CASE tx[t] \in [kind : {"touch"}, d : Ids, to : Statuses, proj : Statuses]
  BY <1>3 DEF OpenTxs, NoTx
<1>4. CASE tx[t] \in [kind : {"insert", "inserted"}, e : Events, new : SUBSET Subs, fresh : BOOLEAN]
  BY <1>4 DEF OpenTxs, NoTx
<1> QED
  BY <1>1, <1>2, <1>3, <1>4 DEF OpenTxs

\* The projection is a status whatever the statuses of the deliveries are.
LEMMA ProjectIsStatus ==
    ASSUME NEW S PROVE ProjectStatus(S) \in Statuses
BY DEF ProjectStatus, Statuses

\* An update of tx stays within its type.
LEMMA TxUpdate ==
    ASSUME TypeOK, NEW t \in Txs, NEW r \in {NoTx} \cup OpenTxs
    PROVE  [tx EXCEPT ![t] = r] \in [Txs -> {NoTx} \cup OpenTxs]
BY DEF TypeOK

-----------------------------------------------------------------------------
(* Every step is one of the following, or changes nothing. *)

\* First half of an outcome or of a replay.
TouchStep(t, d, to) ==
    /\ deliveries[d] \in {"processing", "failed"}
    /\ Touch(t, d, to)
    /\ replays' \in 0..MaxReplays

RuntimeStep ==
    \/ \E t \in Txs, e \in Events, S \in SUBSET Subs : InsertEvent(t, e, S)
    \/ \E t \in Txs : InsertDeliveries(t) \/ InsertCommit(t) \/ TouchCommit(t) \/ Rollback(t)
    \/ \E d \in Ids : Claim(d)
    \/ \E t \in Txs, d \in Ids, to \in Statuses : TouchStep(t, d, to)

\* An error, the context or a deadlock ends the cycle.
AbortStep(c) ==
    /\ pc[c] \in {"redact", "delete", "lock"}
    /\ failures' \in 0..MaxFailures
    /\ UNCHANGED tx
    /\ EndCycle(c)

CleanerStep(c) ==
    \/ pc[c] \in {"new", "select"} /\ RunOnce(c)
    \/ SelectStop(c) \/ RedactAttemptBodies(c) \/ DeleteSnapshot(c) \/ DeleteRows(c)
    \/ \E e \in Events : LockCandidate(c, e)
    \/ AbortStep(c) \/ Cancel(c) \/ StopBegins(c) \/ StopReturns(c)

\* The case distinction of the proofs below covers Next.
LEMMA Steps ==
    ASSUME TypeOK, [Next]_vars
    PROVE  \/ RuntimeStep
           \/ \E c \in Cleaners : CleanerStep(c)
           \/ Tick
           \/ UNCHANGED vars
<1>n. MaxReplays \in Nat /\ MaxFailures \in Nat
  BY RetentionAssumption
<1>1. CASE Runtime
  <2>1. ASSUME NEW t \in Txs, NEW d \in Ids, NEW to \in {"delivered", "failed", "retrying"},
               Outcome(t, d, to)
        PROVE  TouchStep(t, d, to) /\ to \in Statuses
    <3>1. replays' \in 0..MaxReplays
      BY <2>1 DEF Outcome, TypeOK
    <3> QED
      BY <2>1, <3>1 DEF Outcome, TouchStep, Statuses
  <2>2. ASSUME NEW t \in Txs, NEW d \in Ids, Replay(t, d)
        PROVE  TouchStep(t, d, "retrying")
    <3>1. replays' \in 0..MaxReplays
      BY <1>n, <2>2 DEF Replay, TypeOK
    <3> QED
      BY <2>2, <3>1 DEF Replay, TouchStep
  <2>3. "retrying" \in Statuses
    BY DEF Statuses
  <2> QED
    BY <1>1, <2>1, <2>2, <2>3, Zenon DEF Runtime, RuntimeStep
<1>2. ASSUME NEW c \in Cleaners, Clean(c)
      PROVE  CleanerStep(c) \/ RuntimeStep
  <2>1. ASSUME CycleFails(c) PROVE AbortStep(c)
    <3>1. failures' \in 0..MaxFailures
      BY <1>n, <2>1 DEF CycleFails, TypeOK
    <3> QED
      BY <2>1, <3>1, Zenon DEF CycleFails, AbortStep
  <2>2. ASSUME NEW t \in Txs, BreakDeadlock(c, t) PROVE AbortStep(c) \/ Rollback(t)
    <3>1. CASE EndCycle(c) /\ UNCHANGED <<tx, failures>>
      BY <3>1, <2>2 DEF BreakDeadlock, AbortStep, TypeOK
    <3>2. CASE End(t) /\ UNCHANGED <<rowVars, now, handouts, replays, failures, stmtVars, pc,
                                     startedAt, ctxDone, stopper>>
      BY <3>2, <2>2 DEF BreakDeadlock, Rollback, NoTx
    <3> QED
      BY <2>2, <3>1, <3>2 DEF BreakDeadlock
  <2> QED
    BY <1>2, <2>1, <2>2, Zenon
    DEF Clean, Cycle, CleanerStep, RuntimeStep, Start, SelectTick
<1> QED
  BY <1>1, <1>2, Zenon DEF Next

\* The types are kept by every step.
LEMMA TypeStep ==
    ASSUME TypeOK, [Next]_vars PROVE TypeOK'
<1> now \in 0..MaxNow /\ MaxHandouts \in Nat /\ MaxNow \in Nat
  BY RetentionAssumption DEF TypeOK
<1> USE DEF rowVars, envVars, stmtVars, TypeOK
<1>1. ASSUME NEW t \in Txs, NEW e \in Events, NEW S \in SUBSET Subs, InsertEvent(t, e, S)
      PROVE  TypeOK'
  <2>1. [kind |-> "insert", e |-> e, new |-> S, fresh |-> events[e] = Null] \in OpenTxs
    BY DEF OpenTxs
  <2> QED
    BY <1>1, <2>1 DEF InsertEvent
<1>2. ASSUME NEW t \in Txs, InsertDeliveries(t) PROVE TypeOK'
  <2> DEFINE new == {s \in tx[t].new : deliveries[<<tx[t].e, s>>] = Null}
  <2>1. [kind |-> "inserted", e |-> tx[t].e, new |-> new, fresh |-> tx[t].fresh] \in OpenTxs
    BY <1>2, TxShape, Zenon DEF InsertDeliveries, OpenTxs
  <2> HIDE DEF TypeOK
  <2>2. tx' \in [Txs -> {NoTx} \cup OpenTxs]
    BY <1>2, <2>1, TxUpdate, ZenonT(30) DEF InsertDeliveries, End
  <2> QED
    BY <1>2, <2>2, Zenon DEF InsertDeliveries, TypeOK
<1>3. ASSUME NEW t \in Txs, InsertCommit(t) PROVE TypeOK'
  <2>1. [status |-> IF tx[t].new = {} THEN "delivered" ELSE "pending", updatedAt |-> now]
           \in [status : Statuses, updatedAt : 0..MaxNow]
    BY DEF Statuses
  <2>2. tx[t].e \in Events
    BY <1>3, TxShape, Zenon DEF InsertCommit
  <2>3. deliveries' \in [Ids -> {Null} \cup Statuses]
    BY <1>3 DEF InsertCommit, Statuses
  <2> QED
    BY <1>3, <2>1, <2>2, <2>3 DEF InsertCommit, End
<1>4. ASSUME NEW t \in Txs, TouchCommit(t) PROVE TypeOK'
  <2>1. tx[t].d \in Ids /\ tx[t].to \in Statuses /\ tx[t].proj \in Statuses
    BY <1>4, TxShape, Zenon DEF TouchCommit
  <2>2. tx[t].d[1] \in Events
    BY <2>1 DEF Ids
  <2> QED
    BY <1>4, <2>1, <2>2 DEF TouchCommit, End
<1>5. ASSUME NEW t \in Txs, Rollback(t) PROVE TypeOK'
  BY <1>5 DEF Rollback, End
<1>6. ASSUME NEW d \in Ids, Claim(d) PROVE TypeOK'
  BY <1>6 DEF Claim, Statuses
<1>7. ASSUME NEW t \in Txs, NEW d \in Ids, NEW to \in Statuses, TouchStep(t, d, to)
      PROVE  TypeOK'
  <2>1. ASSUME NEW p \in Statuses
        PROVE  [kind |-> "touch", d |-> d, to |-> to, proj |-> p] \in OpenTxs
    BY DEF OpenTxs
  <2> QED
    BY <1>7, <2>1, ProjectIsStatus DEF TouchStep, Touch
<1>8. ASSUME NEW c \in Cleaners, CleanerStep(c) PROVE TypeOK'
  <2>1. CASE pc[c] \in {"new", "select"} /\ RunOnce(c)
    BY <2>1 DEF RunOnce
  <2>2. CASE RedactAttemptBodies(c)
    BY <2>2 DEF RedactAttemptBodies
  <2>3. CASE DeleteSnapshot(c)
    BY <2>3 DEF DeleteSnapshot
  <2>4. CASE DeleteRows(c)
    BY <2>4 DEF DeleteRows, Erase
  <2>5. ASSUME NEW e \in Events, LockCandidate(c, e) PROVE TypeOK'
    BY <2>5 DEF LockCandidate
  <2>6. CASE AbortStep(c)
    BY <2>6 DEF AbortStep, EndCycle
  <2>7. CASE SelectStop(c) \/ Cancel(c) \/ StopBegins(c) \/ StopReturns(c)
    BY <2>7, ZenonT(30) DEF SelectStop, Cancel, StopBegins, StopReturns
  <2> QED
    BY <1>8, <2>1, <2>2, <2>3, <2>4, <2>5, <2>6, <2>7, Zenon DEF CleanerStep
<1>9. CASE Tick \/ UNCHANGED vars
  BY <1>9 DEF Tick, vars
<1> QED
  BY <1>1, <1>2, <1>3, <1>4, <1>5, <1>6, <1>7, <1>8, <1>9, Steps, Zenon DEF RuntimeStep

-----------------------------------------------------------------------------
(* The cleaner's goroutine. *)

\* What a session's step leaves alone.
LEMMA RuntimeFrame ==
    ASSUME RuntimeStep
    PROVE  UNCHANGED <<now, failures, snap, held, pc, startedAt, ctxDone, stopper>>
BY Zenon DEF RuntimeStep, InsertEvent, InsertDeliveries, InsertCommit, TouchCommit, Rollback, Claim,
       TouchStep, Touch, rowVars, envVars, stmtVars

\* Stop waits and the context refuses; candidates and locks exist only inside
\* the delete statement.
LEMMA GoroutineStep ==
    ASSUME TypeOK, StopInv, CycleInv, [Next]_vars PROVE StopInv' /\ CycleInv'
<1> /\ pc \in [Cleaners -> {"new", "redact", "delete", "lock", "select", "done"}]
    /\ snap \in [Cleaners -> SUBSET Events] /\ held \in [Cleaners -> SUBSET Events]
    /\ startedAt \in [Cleaners -> 0..MaxNow] /\ now \in 0..MaxNow /\ MaxNow \in Nat
    /\ ctxDone \in [Cleaners -> BOOLEAN]
    /\ stopper \in [Cleaners -> {"none", "closed", "returned"}]
  BY RetentionAssumption DEF TypeOK
<1> USE DEF rowVars, envVars, stmtVars, StopInv, CycleInv
<1>1. CASE RuntimeStep
  BY <1>1, RuntimeFrame
<1>2. ASSUME NEW c \in Cleaners, CleanerStep(c) PROVE StopInv' /\ CycleInv'
  <2>1. CASE pc[c] \in {"new", "select"} /\ RunOnce(c)
    BY <2>1 DEF RunOnce
  <2>2. CASE SelectStop(c)
    BY <2>2 DEF SelectStop
  <2>3. CASE RedactAttemptBodies(c)
    BY <2>3 DEF RedactAttemptBodies
  <2>4. CASE DeleteSnapshot(c)
    BY <2>4 DEF DeleteSnapshot
  <2>5. CASE DeleteRows(c)
    BY <2>5 DEF DeleteRows
  <2>6. ASSUME NEW e \in Events, LockCandidate(c, e) PROVE StopInv' /\ CycleInv'
    BY <2>6 DEF LockCandidate
  <2>7. CASE AbortStep(c)
    BY <2>7 DEF AbortStep, EndCycle
  <2>8. CASE Cancel(c) \/ StopBegins(c) \/ StopReturns(c)
    BY <2>8 DEF Cancel, StopBegins, StopReturns
  <2> QED
    BY <1>2, <2>1, <2>2, <2>3, <2>4, <2>5, <2>6, <2>7, <2>8 DEF CleanerStep
<1>3. CASE Tick \/ UNCHANGED vars
  BY <1>3 DEF Tick, vars
<1> QED
  BY <1>1, <1>2, <1>3, Steps

-----------------------------------------------------------------------------
(* What a step may do to one transaction, one row, one cleaner. *)

TxMove(u) ==
    \/ tx'[u] = tx[u]
    \/ tx'[u].kind = "none"
    \/ /\ tx'[u].kind = "touch"
       /\ deliveries[tx'[u].d] # Null
       /\ UNCHANGED <<events, deliveries, held, handouts>>
    \/ /\ tx'[u].kind = "insert"
       /\ tx'[u].e \in Events
       /\ tx'[u].fresh <=> events[tx'[u].e] = Null
       /\ \A v \in Txs : Inserting(v) /\ tx[v].fresh => tx[v].e # tx'[u].e
       /\ \A v \in Txs : v # u => tx'[v] = tx[v]
       /\ handouts[tx'[u].e] < MaxHandouts
       /\ handouts' = [handouts EXCEPT ![tx'[u].e] = @ + 1]
       /\ UNCHANGED <<events, deliveries, held>>
    \/ /\ tx[u].kind = "insert" /\ tx'[u].kind = "inserted"
       /\ tx'[u].e = tx[u].e /\ tx'[u].fresh = tx[u].fresh
       /\ \/ tx[u].fresh \/ tx'[u].new = {}
          \/ events[tx[u].e] # Null /\ ~HeldByCleaner(tx[u].e)
       /\ UNCHANGED <<events, deliveries, held, handouts>>

EventMove(e) ==
    \/ events'[e] = events[e]
    \/ /\ events'[e] # Null
       /\ \E t \in Txs : Inserting(t) /\ tx[t].fresh /\ tx[t].e = e /\ tx'[t].kind = "none"
    \/ /\ \E s \in Subs : deliveries[<<e, s>>] # Null
       /\ events'[e] # Null
       /\ events'[e].updatedAt = now
       /\ ~HeldByCleaner(e)
       /\ \A c \in Cleaners : e \in snap'[c] => e \in changed'[c]
    \/ /\ events'[e] = Null
       /\ HeldByCleaner(e)
       /\ \A c \in Cleaners : e \notin snap'[c] /\ (e \in held[c] => held'[c] = {})
       /\ \A s \in Subs : deliveries'[<<e, s>>] = Null

DeliveryMove(d) ==
    \/ deliveries'[d] = deliveries[d]
    \/ /\ deliveries[d] \notin Terminal \cup {Null}
       /\ deliveries'[d] # Null
    \/ /\ \E t \in Txs : /\ tx[t].kind = "inserted" /\ tx[t].e = d[1] /\ tx[t].new # {}
                         /\ tx[t].fresh => events'[d[1]] # Null
       /\ deliveries'[d] # Null
    \/ /\ deliveries'[d] # Null
       /\ \E t \in Txs : tx[t].kind = "touch" /\ tx[t].d = d
       /\ ~HeldByCleaner(d[1])
       /\ \A c \in Cleaners : d[1] \in snap'[c] => d[1] \in changed'[c]
    \/ /\ deliveries'[d] = Null
       /\ HeldByCleaner(d[1])
       /\ ~DeliveryLocked(d)

CleanerMove(c, e) ==
    /\ e \in snap'[c] =>
         \/ /\ e \in snap[c]
            /\ startedAt'[c] = startedAt[c]
            /\ e \in changed[c] => e \in changed'[c]
            /\ e \in changed'[c] => e \in changed[c] \/ events'[e].updatedAt = now
         \/ /\ e \notin changed'[c]
            /\ EventExpired(c, e)'
            /\ \A s \in Subs : deliveries'[<<e, s>>] \in Terminal \cup {Null}
    /\ e \in held'[c] =>
         \/ e \in held[c] /\ startedAt'[c] = startedAt[c]
         \/ /\ e \in snap[c]
            /\ ~KeyShared(e) /\ ~HeldByCleaner(e)
            /\ e \in changed[c] => EventExpired(c, e)
            /\ \A x \in Cleaners : x # c => held'[x] = held[x]
            /\ UNCHANGED <<events, deliveries, tx, startedAt>>

\* Which actions change which of them.
LEMMA Frames ==
    ASSUME TypeOK, [Next]_vars
    PROVE  /\ \/ UNCHANGED tx
              \/ \E t \in Txs, e \in Events, S \in SUBSET Subs : InsertEvent(t, e, S)
              \/ \E t \in Txs : InsertDeliveries(t) \/ End(t)
              \/ \E t \in Txs, d \in Ids, to \in Statuses : TouchStep(t, d, to)
           /\ \/ UNCHANGED events
              \/ \E t \in Txs : InsertCommit(t) \/ TouchCommit(t)
              \/ \E c \in Cleaners : DeleteRows(c)
           /\ \/ UNCHANGED deliveries
              \/ \E t \in Txs : InsertCommit(t) \/ TouchCommit(t)
              \/ \E d \in Ids : Claim(d)
              \/ \E c \in Cleaners : DeleteRows(c)
           /\ \/ UNCHANGED <<snap, changed, held, startedAt>>
              \/ \E t \in Txs : TouchCommit(t)
              \/ \E c \in Cleaners :
                    \/ pc[c] \in {"new", "select"} /\ RunOnce(c)
                    \/ DeleteSnapshot(c) \/ DeleteRows(c) \/ AbortStep(c)
                    \/ \E e \in Events : LockCandidate(c, e)
           /\ \/ UNCHANGED handouts
              \/ \E t \in Txs, e \in Events, S \in SUBSET Subs : InsertEvent(t, e, S)
<1> USE DEF rowVars, envVars, stmtVars
<1>1. CASE RuntimeStep
  BY <1>1, Zenon DEF RuntimeStep, InsertEvent, InsertDeliveries, InsertCommit, TouchCommit,
                     Rollback, Claim, TouchStep, Touch
<1>2. CASE \E c \in Cleaners : CleanerStep(c)
  BY <1>2, ZenonT(30) DEF CleanerStep, RunOnce, SelectStop, RedactAttemptBodies, DeleteSnapshot,
                     DeleteRows, LockCandidate, AbortStep, EndCycle, Cancel, StopBegins, StopReturns
<1>3. CASE Tick \/ UNCHANGED vars
  BY <1>3, Zenon DEF Tick, vars
<1> QED
  BY <1>1, <1>2, <1>3, Steps

\* Setting one session's transaction leaves the others alone.
LEMMA TxEffect ==
    ASSUME TypeOK, NEW t \in Txs, NEW r, tx' = [tx EXCEPT ![t] = r]
    PROVE  tx'[t] = r /\ \A u \in Txs : u # t => tx'[u] = tx[u]
BY DEF TypeOK

\* A row that is set is not NULL.
LEMMA RowNotNull ==
    ASSUME TypeOK, NEW s \in Statuses
    PROVE  s # Null /\ [status |-> s, updatedAt |-> now] # Null
<1>1. [status |-> s, updatedAt |-> now] \in [status : Statuses, updatedAt : Nat]
  BY RetentionAssumption DEF TypeOK
<1> QED
  BY <1>1, NullRowAssumption

\* Every step moves every transaction as TxMove says.
LEMMA TxMoves ==
    ASSUME TypeOK, [Next]_vars, NEW u \in Txs PROVE TxMove(u)
<1> USE DEF rowVars, stmtVars
<1>1. ASSUME NEW t \in Txs, NEW e \in Events, NEW S \in SUBSET Subs, InsertEvent(t, e, S)
      PROVE  TxMove(u)
  <2> DEFINE r == [kind |-> "insert", e |-> e, new |-> S, fresh |-> events[e] = Null]
  <2>0. tx' = [tx EXCEPT ![t] = r]
    BY <1>1, Zenon DEF InsertEvent
  <2>1. tx'[t] = r /\ \A v \in Txs : v # t => tx'[v] = tx[v]
    <3> HIDE DEF r
    <3> QED
      BY <2>0, TxEffect, Zenon
  <2>2. r.kind = "insert" /\ r.e = e /\ (r.fresh <=> events[e] = Null)
    BY Zenon
  <2>3. /\ \A v \in Txs : Inserting(v) /\ tx[v].fresh => tx[v].e # e
        /\ handouts[e] < MaxHandouts
        /\ handouts' = [handouts EXCEPT ![e] = @ + 1]
        /\ UNCHANGED <<events, deliveries, held>>
    BY <1>1, Zenon DEF InsertEvent, Inserting
  <2> HIDE DEF r
  <2> QED
    BY <2>1, <2>2, <2>3, Zenon DEF TxMove
<1>2. ASSUME NEW t \in Txs, End(t) PROVE TxMove(u)
  BY <1>2, TxEffect DEF End, NoTx, TxMove
<1>3. ASSUME NEW t \in Txs, InsertDeliveries(t) PROVE TxMove(u)
  <2> DEFINE new == {s \in tx[t].new : deliveries[<<tx[t].e, s>>] = Null}
             r == [kind |-> "inserted", e |-> tx[t].e, new |-> new, fresh |-> tx[t].fresh]
  <2>1. CASE ~End(t)
    <3>1. /\ tx[t].kind = "insert"
          /\ tx' = [tx EXCEPT ![t] = r]
          /\ tx[t].fresh \/ new = {} \/ (events[tx[t].e] # Null /\ ~HeldByCleaner(tx[t].e))
          /\ UNCHANGED <<events, deliveries, held, handouts>>
      BY <1>3, <2>1, Zenon DEF InsertDeliveries
    <3>2. tx'[t] = r /\ \A v \in Txs : v # t => tx'[v] = tx[v]
      BY <3>1, TxEffect, Zenon
    <3>3. r.kind = "inserted" /\ r.e = tx[t].e /\ r.fresh = tx[t].fresh /\ r.new = new
      BY Zenon
    <3> HIDE DEF r, new
    <3> QED
      BY <3>1, <3>2, <3>3 DEF TxMove
  <2> QED
    BY <1>2, <2>1
<1>4. ASSUME NEW t \in Txs, NEW d \in Ids, NEW to \in Statuses, TouchStep(t, d, to)
      PROVE  TxMove(u)
  <2> DEFINE Open(p) == [kind |-> "touch", d |-> d, to |-> to, proj |-> p]
  <2>1. PICK p : tx' = [tx EXCEPT ![t] = Open(p)]
    BY <1>4, Zenon DEF TouchStep, Touch
  <2>2. tx'[t] = Open(p) /\ \A v \in Txs : v # t => tx'[v] = tx[v]
    BY <2>1, TxEffect, Zenon
  <2>3. tx'[t].kind = "touch" /\ tx'[t].d = d
    BY <2>2
  <2>4. deliveries[d] # Null /\ UNCHANGED <<events, deliveries, held, handouts>>
    BY <1>4, NullRowAssumption DEF TouchStep, Touch, Statuses
  <2> QED
    BY <2>2, <2>3, <2>4 DEF TxMove
<1> QED
  BY <1>1, <1>2, <1>3, <1>4, Frames, Zenon DEF TxMove

\* InsertCommit writes rows of its own event, and the event itself if fresh.
LEMMA InsertCommitEffect ==
    ASSUME TypeOK, NEW t \in Txs, InsertCommit(t)
    PROVE  /\ tx[t].kind = "inserted" /\ tx'[t].kind = "none"
           /\ \A e \in Events : events'[e] = events[e] \/ (tx[t].fresh /\ tx[t].e = e)
           /\ tx[t].fresh => events'[tx[t].e] # Null
           /\ \A d \in Ids : \/ deliveries'[d] = deliveries[d]
                             \/ deliveries'[d] # Null /\ tx[t].e = d[1] /\ tx[t].new # {}
<1> DEFINE row == [status |-> IF tx[t].new = {} THEN "delivered" ELSE "pending", updatedAt |-> now]
<1>1. events \in [Events -> {Null} \cup [status : Statuses, updatedAt : 0..MaxNow]]
  BY DEF TypeOK
<1>2. tx[t].kind = "inserted" /\ tx[t].e \in Events
  BY TxShape, Zenon DEF InsertCommit
<1>3. row # Null /\ "pending" # Null
  <2>1. "pending" \in Statuses /\ "delivered" \in Statuses
    BY DEF Statuses
  <2> QED
    BY <2>1, RowNotNull
<1>4. events' = IF tx[t].fresh THEN [events EXCEPT ![tx[t].e] = row] ELSE events
  BY DEF InsertCommit
<1>5. \A d \in Ids : \/ deliveries'[d] = deliveries[d]
                     \/ deliveries'[d] # Null /\ tx[t].e = d[1] /\ tx[t].new # {}
  BY <1>3 DEF InsertCommit
<1> HIDE DEF row
<1>6. (tx[t].fresh => events'[tx[t].e] # Null)
      /\ \A e \in Events : events'[e] = events[e] \/ (tx[t].fresh /\ tx[t].e = e)
  BY <1>1, <1>2, <1>3, <1>4
<1>7. tx'[t].kind = "none"
  <2>1. tx' = [tx EXCEPT ![t] = NoTx]
    BY DEF InsertCommit, End
  <2>2. tx'[t] = NoTx
    BY <2>1, TxEffect, Zenon
  <2> QED
    BY <2>2 DEF NoTx
<1> QED
  BY <1>2, <1>5, <1>6, <1>7

\* TouchCommit writes one delivery and its event, which no cleaner holds; a
\* cleaner that has it as a candidate will see that it changed.
LEMMA TouchCommitEffect ==
    ASSUME TypeOK, NEW t \in Txs, TouchCommit(t)
    PROVE  \E d \in Ids :
             /\ tx[t].kind = "touch" /\ tx[t].d = d
             /\ ~HeldByCleaner(d[1])
             /\ \A e \in Events : e # d[1] => events'[e] = events[e]
             /\ events'[d[1]] # Null /\ events'[d[1]].updatedAt = now
             /\ \A x \in Ids : x # d => deliveries'[x] = deliveries[x]
             /\ deliveries'[d] # Null
             /\ changed' = [c \in Cleaners |-> changed[c] \cup (snap[c] \cap {d[1]})]
             /\ UNCHANGED <<snap, held, startedAt>>
<1>1. /\ events \in [Events -> {Null} \cup [status : Statuses, updatedAt : 0..MaxNow]]
      /\ deliveries \in [Ids -> {Null} \cup Statuses]
  BY DEF TypeOK
<1>2. PICK d \in Ids : tx[t].d = d /\ tx[t].to \in Statuses /\ tx[t].proj \in Statuses
  BY TxShape, Zenon DEF TouchCommit
<1>3. tx[t].to # Null /\ [status |-> tx[t].proj, updatedAt |-> now] # Null /\ d[1] \in Events
  BY <1>2, RowNotNull DEF Ids
<1> WITNESS d \in Ids
<1>4. /\ tx[t].kind = "touch" /\ ~HeldByCleaner(d[1])
      /\ changed' = [c \in Cleaners |-> changed[c] \cup (snap[c] \cap {d[1]})]
      /\ UNCHANGED <<snap, held, startedAt>>
  BY <1>2 DEF TouchCommit
<1>5. /\ \A e \in Events : e # d[1] => events'[e] = events[e]
      /\ events'[d[1]] # Null /\ events'[d[1]].updatedAt = now
  BY <1>1, <1>2, <1>3 DEF TouchCommit
<1>6. (\A x \in Ids : x # d => deliveries'[x] = deliveries[x]) /\ deliveries'[d] # Null
  BY <1>1, <1>2, <1>3 DEF TouchCommit
<1> QED
  BY <1>2, <1>4, <1>5, <1>6

\* DeleteRows removes what its cleaner holds, and nothing a session has locked.
LEMMA DeleteRowsEffect ==
    ASSUME TypeOK, NEW c \in Cleaners, DeleteRows(c)
    PROVE  /\ \A e \in Events : events'[e] = IF e \in held[c] THEN Null ELSE events[e]
           /\ \A d \in Ids : deliveries'[d] = IF d[1] \in held[c] THEN Null ELSE deliveries[d]
           /\ \A e \in held[c], s \in Subs : ~DeliveryLocked(<<e, s>>)
           /\ \A x \in Cleaners : snap'[x] = IF x = c THEN {} ELSE snap[x] \ held[c]
           /\ \A x \in Cleaners : held'[x] = IF x = c THEN {} ELSE held[x]
           /\ UNCHANGED <<tx, changed, startedAt>>
BY DEF DeleteRows, Erase, envVars, TypeOK

\* Every step moves every event row as EventMove says.
LEMMA EventMoves ==
    ASSUME Inv, [Next]_vars, NEW e \in Events PROVE EventMove(e)
<1> TypeOK
  BY DEF Inv
<1>1. ASSUME NEW t \in Txs, InsertCommit(t) PROVE EventMove(e)
  BY <1>1, InsertCommitEffect DEF EventMove, Inserting
<1>2. ASSUME NEW t \in Txs, TouchCommit(t) PROVE EventMove(e)
  <2>1. PICK d \in Ids :
           /\ tx[t].kind = "touch" /\ tx[t].d = d
           /\ ~HeldByCleaner(d[1])
           /\ \A x \in Events : x # d[1] => events'[x] = events[x]
           /\ events'[d[1]] # Null /\ events'[d[1]].updatedAt = now
           /\ changed' = [c \in Cleaners |-> changed[c] \cup (snap[c] \cap {d[1]})]
           /\ UNCHANGED snap
    BY <1>2, TouchCommitEffect, Zenon
  <2>2. deliveries[d] # Null
    BY <2>1 DEF Inv, NoOrphan
  <2>3. d[2] \in Subs /\ d = <<d[1], d[2]>>
    BY DEF Ids
  <2>4. \A c \in Cleaners : d[1] \in snap'[c] => d[1] \in changed'[c]
    BY <2>1
  <2> QED
    BY <2>1, <2>2, <2>3, <2>4 DEF EventMove
<1>3. ASSUME NEW c \in Cleaners, DeleteRows(c) PROVE EventMove(e)
  <2>1. /\ events'[e] = IF e \in held[c] THEN Null ELSE events[e]
        /\ \A x \in Cleaners : snap'[x] = IF x = c THEN {} ELSE snap[x] \ held[c]
        /\ \A x \in Cleaners : held'[x] = IF x = c THEN {} ELSE held[x]
    BY <1>3, DeleteRowsEffect, Zenon
  <2>2. ASSUME e \in held[c]
        PROVE  /\ events'[e] = Null
               /\ \A x \in Cleaners : e \notin snap'[x] /\ (e \in held[x] => held'[x] = {})
    BY <2>1, <2>2, Zenon DEF Inv, HeldOnce
  <2>3. ASSUME e \in held[c], NEW s \in Subs PROVE deliveries'[<<e, s>>] = Null
    <3>1. <<e, s>> \in Ids /\ <<e, s>>[1] = e
      BY DEF Ids
    <3> QED
      BY <1>3, <2>3, <3>1, DeleteRowsEffect
  <2> QED
    BY <2>1, <2>2, <2>3 DEF EventMove, HeldByCleaner
<1> QED
  BY <1>1, <1>2, <1>3, Frames, Zenon DEF EventMove

\* Every step moves every delivery row as DeliveryMove says.
LEMMA DeliveryMoves ==
    ASSUME TypeOK, [Next]_vars, NEW d \in Ids PROVE DeliveryMove(d)
<1>1. ASSUME NEW t \in Txs, InsertCommit(t) PROVE DeliveryMove(d)
  BY <1>1, InsertCommitEffect DEF DeliveryMove
<1>2. ASSUME NEW t \in Txs, TouchCommit(t) PROVE DeliveryMove(d)
  BY <1>2, TouchCommitEffect DEF DeliveryMove
<1>3. ASSUME NEW x \in Ids, Claim(x) PROVE DeliveryMove(d)
  <2>1. deliveries \in [Ids -> {Null} \cup Statuses]
    BY DEF TypeOK
  <2>2. deliveries[x] \notin Terminal \cup {Null} /\ "processing" # Null
    BY <1>3, NullRowAssumption DEF Claim, Terminal, Statuses
  <2> QED
    BY <1>3, <2>1, <2>2 DEF Claim, DeliveryMove
<1>4. ASSUME NEW c \in Cleaners, DeleteRows(c) PROVE DeliveryMove(d)
  <2>1. d[2] \in Subs /\ d = <<d[1], d[2]>>
    BY DEF Ids
  <2> QED
    BY <1>4, <2>1, DeleteRowsEffect DEF DeliveryMove, HeldByCleaner
<1> QED
  BY <1>1, <1>2, <1>3, <1>4, Frames, Zenon DEF DeliveryMove

\* Every step moves every cleaner's candidates and locks as CleanerMove says.
LEMMA CleanerMoves ==
    ASSUME Inv, [Next]_vars, NEW c \in Cleaners, NEW e \in Events PROVE CleanerMove(c, e)
<1> /\ TypeOK
      /\ snap \in [Cleaners -> SUBSET Events]
      /\ changed \in [Cleaners -> SUBSET Events]
      /\ held \in [Cleaners -> SUBSET Events]
      /\ startedAt \in [Cleaners -> 0..MaxNow]
  BY DEF Inv, TypeOK
<1>1. ASSUME NEW t \in Txs, TouchCommit(t) PROVE CleanerMove(c, e)
  <2>1. PICK d \in Ids :
           /\ events'[d[1]].updatedAt = now
           /\ changed' = [x \in Cleaners |-> changed[x] \cup (snap[x] \cap {d[1]})]
           /\ UNCHANGED <<snap, held, startedAt>>
    BY <1>1, TouchCommitEffect, ZenonT(30)
  <2> QED
    BY <2>1 DEF CleanerMove
<1> USE DEF rowVars, envVars, stmtVars
<1>2. ASSUME NEW b \in Cleaners, pc[b] \in {"new", "select"} /\ RunOnce(b) PROVE CleanerMove(c, e)
  <2>1. snap[b] = {} /\ held[b] = {}
    BY <1>2 DEF Inv, CycleInv
  <2> QED
    BY <1>2, <2>1 DEF RunOnce, CleanerMove
<1>3. ASSUME NEW b \in Cleaners, DeleteSnapshot(b) PROVE CleanerMove(c, e)
  <2>1. /\ c # b => snap'[c] = snap[c] /\ changed'[c] = changed[c]
        /\ UNCHANGED <<events, deliveries, held, startedAt>>
    BY <1>3 DEF DeleteSnapshot
  <2>2. c = b /\ e \in snap'[c] => /\ e \notin changed'[c]
                                   /\ EventExpired(c, e)
                                   /\ \A s \in Subs : deliveries[<<e, s>>] \in Terminal \cup {Null}
    BY <1>3 DEF DeleteSnapshot
  <2>3. EventExpired(c, e)' <=> EventExpired(c, e)
    BY <2>1 DEF EventExpired, EventCutoff
  <2> QED
    BY <2>1, <2>2, <2>3, Zenon DEF CleanerMove
<1>4. ASSUME NEW b \in Cleaners, DeleteRows(b) PROVE CleanerMove(c, e)
  <2>1. /\ snap'[c] = IF c = b THEN {} ELSE snap[c] \ held[b]
        /\ held'[c] = IF c = b THEN {} ELSE held[c]
        /\ UNCHANGED <<changed, startedAt>>
    BY <1>4, DeleteRowsEffect, ZenonT(30)
  <2> QED
    BY <2>1 DEF CleanerMove
<1>5. ASSUME NEW b \in Cleaners, AbortStep(b) PROVE CleanerMove(c, e)
  BY <1>5 DEF AbortStep, EndCycle, CleanerMove
<1>6. ASSUME NEW b \in Cleaners, NEW x \in Events, LockCandidate(b, x) PROVE CleanerMove(c, e)
  <2>1. UNCHANGED <<events, deliveries, tx, changed, startedAt>>
    BY <1>6 DEF LockCandidate
  <2>2. e \in snap'[c] => e \in snap[c]
    BY <1>6 DEF LockCandidate
  <2>3. e \in held'[c] => \/ e \in held[c]
                          \/ /\ e \in snap[c] /\ ~KeyShared(e) /\ ~HeldByCleaner(e)
                             /\ e \in changed[c] => EventExpired(c, e)
                             /\ \A y \in Cleaners : y # c => held'[y] = held[y]
    BY <1>6 DEF LockCandidate
  <2> QED
    BY <2>1, <2>2, <2>3 DEF CleanerMove
<1>7. CASE UNCHANGED <<snap, changed, held, startedAt>>
  BY <1>7 DEF CleanerMove
<1> QED
  BY <1>1, <1>2, <1>3, <1>4, <1>5, <1>6, <1>7, Frames, Zenon

-----------------------------------------------------------------------------
(* The rows and their locks. *)

\* What the invariant says of the event of a transaction or a candidate.
LEMMA Present ==
    ASSUME Inv, NEW e \in Events
    PROVE  /\ (\E s \in Subs : deliveries[<<e, s>>] # Null) => events[e] # Null
           /\ \A c \in Cleaners : e \in snap[c] \cup held[c] => events[e] # Null
           /\ (\E t \in Txs : Inserting(t) /\ tx[t].fresh /\ tx[t].e = e) => events[e] = Null
<1>1. ASSUME NEW s \in Subs, deliveries[<<e, s>>] # Null PROVE events[e] # Null
  <2>1. <<e, s>> \in Ids /\ <<e, s>>[1] = e
    BY DEF Ids
  <2> QED
    BY <1>1, <2>1 DEF Inv, NoOrphan
<1> QED
  BY <1>1, Zenon DEF Inv, ExpiredInv, EventExpired, FreshInv

\* No two cleaners ever hold the same event.
LEMMA HeldOnceStep ==
    ASSUME Inv, TypeOK', [Next]_vars PROVE HeldOnce'
<1>1. SUFFICES ASSUME NEW c1 \in Cleaners, NEW c2 \in Cleaners, NEW e \in held'[c1], e \in held'[c2]
               PROVE  c1 = c2
  BY DEF HeldOnce
<1>2. e \in Events
  BY DEF TypeOK
<1>3. CleanerMove(c1, e) /\ CleanerMove(c2, e)
  BY <1>2, CleanerMoves
<1> QED
  BY <1>1, <1>3 DEF CleanerMove, Inv, HeldOnce, HeldByCleaner

\* A fresh insert stays the only one, of an event that is not there.
LEMMA FreshStep ==
    ASSUME Inv, [Next]_vars PROVE FreshInv'
<1> DEFINE Fresh(u) == Inserting(u) /\ tx[u].fresh
           Old(u) == Fresh(u) /\ tx'[u].e = tx[u].e
           New(u) == /\ \A v \in Txs : Fresh(v) => tx[v].e # tx'[u].e
                     /\ \A v \in Txs : v # u => tx'[v] = tx[v]
                     /\ events'[tx'[u].e] = Null
<1>1. ASSUME NEW u \in Txs, Fresh(u)' PROVE Old(u) \/ New(u)
  <2>1. TxMove(u)
    BY TxMoves DEF Inv
  <2> QED
    BY <1>1, <2>1, Zenon DEF TxMove, Inserting
<1>2. ASSUME NEW u \in Txs, Fresh(u)', Old(u) PROVE events'[tx'[u].e] = Null
  <2>1. PICK e \in Events : tx[u].e = e
    BY <1>2, TxShape, Zenon DEF Inv, Inserting
  <2>2. events[e] = Null /\ \A v \in Txs : Fresh(v) /\ tx[v].e = e => v = u
    BY <1>2, <2>1 DEF Inv, FreshInv
  <2>3. EventMove(e)
    BY EventMoves
  <2> QED
    BY <1>2, <2>1, <2>2, <2>3, Present DEF EventMove, Inserting
<1>3. ASSUME NEW u \in Txs, NEW v \in Txs, Fresh(u)', Fresh(v)', tx'[v].e = tx'[u].e PROVE v = u
  <2>1. Old(u) /\ Old(v) => v = u
    BY <1>3 DEF Inv, FreshInv
  <2>2. New(u) /\ v # u => FALSE
    BY <1>3 DEF Inserting
  <2>3. New(v) /\ v # u => FALSE
    BY <1>3 DEF Inserting
  <2> QED
    BY <1>1, <1>3, <2>1, <2>2, <2>3
<1> QED
  BY <1>1, <1>2, <1>3 DEF FreshInv

\* An event that a session has shared is neither removed nor locked.
LEMMA KeyShareStep ==
    ASSUME Inv, [Next]_vars PROVE KeyShareInv'
<1>1. SUFFICES ASSUME NEW u \in Txs, (tx[u].kind = "inserted" /\ ~tx[u].fresh /\ tx[u].new # {})'
               PROVE  events'[tx'[u].e] # Null /\ ~HeldByCleaner(tx[u].e)'
  BY DEF KeyShareInv
<1>2. TxMove(u)
  BY TxMoves DEF Inv
<1>3. CASE tx'[u] = tx[u]
  <2>1. PICK e \in Events : tx[u].e = e
    BY <1>1, <1>3, TxShape, Zenon DEF Inv
  <2>2. events[e] # Null /\ ~HeldByCleaner(e) /\ KeyShared(e)
    BY <1>1, <1>3, <2>1 DEF Inv, KeyShareInv, KeyShared
  <2>3. EventMove(e) /\ \A c \in Cleaners : CleanerMove(c, e)
    BY EventMoves, CleanerMoves
  <2>4. events'[e] # Null
    BY <2>2, <2>3, Present DEF EventMove
  <2>5. \A c \in Cleaners : e \notin held'[c]
    BY <2>2, <2>3 DEF CleanerMove, HeldByCleaner
  <2> QED
    BY <1>3, <2>1, <2>4, <2>5 DEF HeldByCleaner
<1>4. CASE tx'[u] # tx[u]
  BY <1>1, <1>2, <1>4 DEF TxMove, HeldByCleaner
<1> QED
  BY <1>3, <1>4

\* No delivery loses its event, and no session its delivery.
LEMMA NoOrphanStep ==
    ASSUME Inv, [Next]_vars PROVE NoOrphan'
<1> TypeOK /\ NoOrphan /\ KeyShareInv
  BY DEF Inv
<1>1. ASSUME NEW d \in Ids, deliveries'[d] # Null PROVE events'[d[1]] # Null
  <2>1. PICK e \in Events, s \in Subs : d = <<e, s>> /\ d[1] = e
    BY DEF Ids
  <2>2. EventMove(e) /\ DeliveryMove(d)
    BY EventMoves, DeliveryMoves
  <2>3. events[e] # Null => events'[e] # Null
    BY <1>1, <2>1, <2>2 DEF EventMove
  <2>4. deliveries[d] # Null => events[e] # Null
    BY <2>1 DEF NoOrphan
  <2>5. \A t \in Txs : tx[t].kind = "touch" /\ tx[t].d = d => deliveries[d] # Null
    BY DEF NoOrphan
  <2>6. \A t \in Txs : tx[t].kind = "inserted" /\ tx[t].e = e /\ tx[t].new # {}
                          => tx[t].fresh \/ events[e] # Null
    BY DEF KeyShareInv
  <2> QED
    BY <1>1, <2>1, <2>2, <2>3, <2>4, <2>5, <2>6 DEF DeliveryMove
<1>2. ASSUME NEW u \in Txs, tx'[u].kind = "touch" PROVE deliveries'[tx'[u].d] # Null
  <2>1. TxMove(u)
    BY TxMoves
  <2>2. CASE tx'[u] = tx[u]
    <3>1. PICK d \in Ids : tx[u].d = d
      BY <1>2, <2>2, TxShape, Zenon
    <3>2. deliveries[d] # Null /\ DeliveryLocked(d) /\ DeliveryMove(d)
      BY <1>2, <2>2, <3>1, DeliveryMoves DEF NoOrphan, DeliveryLocked
    <3> QED
      BY <2>2, <3>1, <3>2 DEF DeliveryMove
  <2>3. CASE tx'[u] # tx[u]
    BY <1>2, <2>1, <2>3 DEF TxMove
  <2> QED
    BY <2>2, <2>3
<1> QED
  BY <1>1, <1>2 DEF NoOrphan

\* What a statement holds is expired; a candidate is, unless it changed.
LEMMA ExpiredStep ==
    ASSUME Inv, TypeOK', [Next]_vars PROVE ExpiredInv'
<1> \A c \in Cleaners : snap'[c] \in SUBSET Events /\ held'[c] \in SUBSET Events
  BY DEF TypeOK
<1>1. ASSUME NEW c \in Cleaners, NEW e \in Events, events'[e] = events[e], startedAt'[c] = startedAt[c]
      PROVE  EventExpired(c, e)' <=> EventExpired(c, e)
  BY <1>1 DEF EventExpired, EventCutoff
<1>2. ASSUME NEW c \in Cleaners, NEW e \in Events, e \in snap'[c]
      PROVE  events'[e] # Null /\ (e \notin changed'[c] => EventExpired(c, e)')
  <2>1. CleanerMove(c, e) /\ EventMove(e)
    BY CleanerMoves, EventMoves
  <2>2. CASE e \notin changed'[c] /\ EventExpired(c, e)'
    BY <2>2 DEF EventExpired
  <2>3. CASE /\ e \in snap[c] /\ startedAt'[c] = startedAt[c]
             /\ e \in changed[c] => e \in changed'[c]
    <3>1. events[e] # Null /\ (e \notin changed[c] => EventExpired(c, e))
      BY <2>3 DEF Inv, ExpiredInv
    <3>2. events'[e] = events[e] \/ (events'[e] # Null /\ e \in changed'[c])
      BY <1>2, <2>1, <3>1, Present DEF EventMove
    <3> QED
      BY <1>1, <2>3, <3>1, <3>2
  <2> QED
    BY <1>2, <2>1, <2>2, <2>3 DEF CleanerMove
<1>3. ASSUME NEW c \in Cleaners, NEW e \in Events, e \in held'[c] PROVE EventExpired(c, e)'
  <2>1. CleanerMove(c, e) /\ EventMove(e)
    BY CleanerMoves, EventMoves
  <2>2. CASE e \in held[c] /\ startedAt'[c] = startedAt[c]
    <3>1. EventExpired(c, e) /\ events[e] # Null /\ HeldByCleaner(e)
      BY <2>2 DEF Inv, ExpiredInv, EventExpired, HeldByCleaner
    <3>2. events'[e] = events[e]
      BY <1>3, <2>1, <2>2, <3>1, Present, Zenon DEF EventMove
    <3> QED
      BY <1>1, <2>2, <3>1, <3>2
  <2>3. CASE /\ e \in snap[c] /\ (e \in changed[c] => EventExpired(c, e))
             /\ UNCHANGED <<events, startedAt>>
    BY <1>1, <2>3 DEF Inv, ExpiredInv
  <2> QED
    BY <1>3, <2>1, <2>2, <2>3 DEF CleanerMove
<1> QED
  BY <1>2, <1>3 DEF ExpiredInv

-----------------------------------------------------------------------------
(* Theorems. *)

\* The initial state satisfies the invariant.
LEMMA InvInit == ASSUME Init PROVE Inv
<1>1. TypeOK
  BY RetentionAssumption DEF Init, TypeOK
<1>2. StopInv /\ CycleInv /\ HeldOnce /\ ExpiredInv /\ NoOrphan
  BY DEF Init, StopInv, CycleInv, HeldOnce, ExpiredInv, NoOrphan, NoTx
<1>3. \A t \in Txs : tx[t].kind = "none"
  BY DEF Init, NoTx
<1>4. FreshInv /\ KeyShareInv
  BY <1>3 DEF FreshInv, KeyShareInv, Inserting
<1> QED
  BY <1>1, <1>2, <1>4 DEF Inv

\* Every step keeps the invariant.
LEMMA InvStep == ASSUME Inv, [Next]_vars PROVE Inv'
<1>0. TypeOK /\ StopInv /\ CycleInv
  BY DEF Inv
<1>1. TypeOK'
  BY <1>0, TypeStep
<1>2. StopInv' /\ CycleInv'
  BY <1>0, GoroutineStep
<1> QED
  BY <1>1, <1>2, HeldOnceStep, FreshStep, KeyShareStep, ExpiredStep, NoOrphanStep DEF Inv

\* The invariant holds in every behaviour of sessions and cleaners.
THEOREM Invariance == Spec => []Inv
<1>1. Init => Inv
  BY InvInit
<1>2. Inv /\ [Next]_vars => Inv'
  BY InvStep
<1> QED
  BY <1>1, <1>2, PTL DEF Spec

\* The rows, transactions and cleaners keep their types.
THEOREM TypeCorrect == Spec => []TypeOK
<1>1. Inv => TypeOK
  BY DEF Inv
<1> QED
  BY <1>1, Invariance, PTL

\* The cascade never leaves a delivery without its event, nor takes a row from
\* a session that is about to commit it.
THEOREM NoOrphans == Spec => []NoOrphan
<1>1. Inv => NoOrphan
  BY DEF Inv
<1> QED
  BY <1>1, Invariance, PTL

\* After Stop no cleaner deletes, not even one whose goroutine starts late.
THEOREM StopIsFinal == Spec => []StopWaits
<1>1. Inv => StopWaits
  BY DEF Inv, StopInv, StopWaits
<1> QED
  BY <1>1, Invariance, PTL

\* A removed event was left alone for its whole retention, counted at the
\* removal: a change between snapshot and lock is seen.
THEOREM YoungKept == Spec => YoungSurvives
<1>1. ASSUME Inv, [Next]_vars, NEW e \in Events, events[e] # Null, events'[e] = Null
      PROVE  events[e].updatedAt + EventRetention < now
  <2>1. PICK c \in Cleaners : e \in held[c]
    BY <1>1, EventMoves DEF EventMove, HeldByCleaner
  <2>2. events[e].updatedAt < startedAt[c] - EventRetention /\ startedAt[c] <= now
    BY <1>1, <2>1 DEF Inv, ExpiredInv, CycleInv, EventExpired, EventCutoff
  <2>3. events[e].updatedAt \in Int
    BY <1>1 DEF Inv, TypeOK
  <2>4. startedAt[c] \in Int /\ now \in Int /\ EventRetention \in Int
    BY <1>1, RetentionAssumption DEF Inv, TypeOK
  <2> QED
    BY <2>2, <2>3, <2>4
<1>2. Inv /\ [Next]_vars
        => [\A e \in Events : events[e] # Null /\ events'[e] = Null
                                => events[e].updatedAt + EventRetention < now]_vars
  BY <1>1
<1> QED
  BY <1>2, Invariance, PTL DEF Spec, YoungSurvives

-----------------------------------------------------------------------------
(* One handout per event. *)

\* Only the first handout inserts, and it inserts event and deliveries.
LEMMA FirstHandoutStep ==
    ASSUME MaxHandouts <= 1, Inv, FirstHandout, [Next]_vars PROVE FirstHandout'
<1> TypeOK /\ handouts \in [Events -> 0..MaxHandouts] /\ MaxHandouts \in Nat
  BY RetentionAssumption DEF Inv, TypeOK
<1>1. ASSUME NEW e \in Events, handouts[e] > 0 PROVE handouts'[e] > 0
  <2>1. CASE UNCHANGED handouts
    BY <1>1, <2>1
  <2>2. ASSUME NEW f \in Events, handouts' = [handouts EXCEPT ![f] = @ + 1]
        PROVE  handouts'[e] > 0
    BY <1>1, <2>2
  <2> QED
    BY <2>1, <2>2, Frames, Zenon DEF InsertEvent
<1>2. ASSUME NEW e \in Events, events'[e] # Null PROVE handouts'[e] > 0
  <2>1. EventMove(e)
    BY EventMoves
  <2>2. events[e] # Null \/ \E t \in Txs : Inserting(t) /\ tx[t].e = e
    BY <1>2, <2>1, Present, ZenonT(30) DEF EventMove
  <2> QED
    BY <1>1, <2>2 DEF FirstHandout
<1>3. ASSUME NEW u \in Txs, Inserting(u)' PROVE tx'[u].fresh /\ handouts'[tx'[u].e] > 0
  <2>1. TxMove(u)
    BY TxMoves, ZenonT(30)
  <2>2. CASE Inserting(u) /\ tx'[u].e = tx[u].e /\ tx'[u].fresh = tx[u].fresh
    <3>1. tx[u].e \in Events
      BY <2>2, TxShape, Zenon DEF Inserting
    <3> QED
      BY <1>1, <2>2, <3>1 DEF FirstHandout
  <2>3. CASE /\ tx'[u].e \in Events /\ (tx'[u].fresh <=> events[tx'[u].e] = Null)
             /\ handouts[tx'[u].e] < MaxHandouts
             /\ handouts' = [handouts EXCEPT ![tx'[u].e] = @ + 1]
    <3>1. PICK e \in Events : tx'[u].e = e
      BY <2>3
    <3>2. handouts[e] = 0 /\ handouts'[e] = 1
      BY <2>3, <3>1, SMTT(30)
    <3> QED
      BY <2>3, <3>1, <3>2 DEF FirstHandout
  <2> QED
    BY <1>3, <2>1, <2>2, <2>3 DEF TxMove, Inserting
<1> QED
  BY <1>2, <1>3 DEF FirstHandout

\* While a statement runs, a candidate's deliveries stay terminal or the event
\* becomes too young to be locked.
LEMMA TerminalStep ==
    ASSUME Inv, TypeOK', OnceInv, [Next]_vars PROVE TerminalInv'
<1> /\ TypeOK /\ FirstHandout
      /\ \A c \in Cleaners : snap'[c] \in SUBSET Events /\ held'[c] \in SUBSET Events
  BY DEF Inv, TypeOK, OnceInv
<1>1. ASSUME NEW c \in Cleaners, NEW e \in Events, e \in snap'[c], e \in changed'[c]
      PROVE  events'[e].updatedAt >= startedAt'[c]
  <2>1. CleanerMove(c, e) /\ EventMove(e)
    BY CleanerMoves, EventMoves, ZenonT(30)
  <2>2. /\ e \in snap[c] /\ startedAt'[c] = startedAt[c]
        /\ e \in changed[c] \/ events'[e].updatedAt = now
    BY <1>1, <2>1 DEF CleanerMove
  <2>3. e \in changed[c] => events[e].updatedAt >= startedAt[c]
    BY <2>2 DEF OnceInv, TerminalInv
  <2>4. events[e] # Null
    BY <2>2, Present
  <2>5. events'[e] = events[e] \/ events'[e].updatedAt = now
    BY <1>1, <2>1, <2>4, Present, Zenon DEF EventMove
  <2>6. now >= startedAt[c]
    BY Zenon DEF Inv, CycleInv, TypeOK
  <2> QED
    BY <2>2, <2>3, <2>5, <2>6
<1>2. ASSUME NEW c \in Cleaners, NEW e \in Events, NEW s \in Subs,
             e \in snap[c] \cup held[c],
             e \in held[c] \/ (e \in snap'[c] /\ e \notin changed'[c]),
             deliveries[<<e, s>>] \in Terminal \cup {Null}
      PROVE  deliveries'[<<e, s>>] \in Terminal \cup {Null}
  <2>1. <<e, s>> \in Ids /\ <<e, s>>[1] = e
    BY Zenon DEF Ids
  <2>2. DeliveryMove(<<e, s>>)
    BY <2>1, DeliveryMoves
  <2>3. events[e] # Null
    BY <1>2, Present
  <2>4. ~\E t \in Txs : tx[t].kind = "inserted" /\ tx[t].e = e
    BY <2>3 DEF Inv, FirstHandout, FreshInv, Inserting
  <2>5. HeldByCleaner(e) \/ \E b \in Cleaners : e \in snap'[b] /\ e \notin changed'[b]
    BY <1>2 DEF HeldByCleaner
  <2> QED
    BY <1>2, <2>1, <2>2, <2>4, <2>5, ZenonT(30) DEF DeliveryMove
<1>3. ASSUME NEW c \in Cleaners, NEW e \in Events, NEW s \in Subs, e \in snap'[c], e \notin changed'[c]
      PROVE  deliveries'[<<e, s>>] \in Terminal \cup {Null}
  <2>1. \/ e \in snap[c] /\ e \notin changed[c]
        \/ deliveries'[<<e, s>>] \in Terminal \cup {Null}
    BY <1>3, CleanerMoves DEF CleanerMove
  <2> QED
    BY <1>2, <1>3, <2>1 DEF OnceInv, TerminalInv
<1>4. ASSUME NEW c \in Cleaners, NEW e \in Events, NEW s \in Subs, e \in held'[c]
      PROVE  deliveries'[<<e, s>>] \in Terminal \cup {Null}
  <2>1. \/ e \in held[c]
        \/ e \in snap[c] /\ (e \in changed[c] => EventExpired(c, e)) /\ UNCHANGED deliveries
    BY <1>4, CleanerMoves, ZenonT(30) DEF CleanerMove
  <2>2. CASE e \in held[c]
    BY <1>2, <2>2 DEF OnceInv, TerminalInv
  <2>3. CASE e \in snap[c] /\ (e \in changed[c] => EventExpired(c, e)) /\ UNCHANGED deliveries
    <3>1. events[e] # Null
      BY <2>3, Present
    <3>2. events[e].updatedAt \in Int /\ startedAt[c] \in Int /\ EventRetention \in Nat
      BY <3>1, RetentionAssumption DEF TypeOK
    <3>3. e \in changed[c] => events[e].updatedAt >= startedAt[c]
      BY <2>3 DEF OnceInv, TerminalInv
    <3>4. EventExpired(c, e) => events[e].updatedAt < startedAt[c]
      BY <3>2 DEF EventExpired, EventCutoff
    <3>5. e \notin changed[c]
      BY <2>3, <3>2, <3>3, <3>4
    <3> QED
      BY <2>3, <3>5 DEF OnceInv, TerminalInv
  <2> QED
    BY <2>1, <2>2, <2>3, Zenon
<1> QED
  BY <1>1, <1>3, <1>4 DEF TerminalInv

\* Where every event's message is handled once, no cycle removes a delivery
\* that is not finished, whatever commits between its snapshot and its delete.
\* (A redelivered message breaks this: see retention_redelivered.)
THEOREM ActiveKept == MaxHandouts <= 1 => (Spec => ActiveSurvives)
<1>0. SUFFICES ASSUME MaxHandouts <= 1 PROVE Spec => ActiveSurvives
  OBVIOUS
<1>1. Init => OnceInv
  BY DEF Init, OnceInv, FirstHandout, TerminalInv, Inserting, NoTx
<1>2. Inv /\ OnceInv /\ [Next]_vars => OnceInv'
  BY <1>0, FirstHandoutStep, TerminalStep, InvStep DEF OnceInv, Inv
<1>3. ASSUME Inv, OnceInv, [Next]_vars, NEW d \in Ids, deliveries[d] \notin Terminal \cup {Null}
      PROVE  deliveries'[d] # Null
  <2>1. d = <<d[1], d[2]>> /\ d[2] \in Subs
    BY DEF Ids
  <2>2. ~\E c \in Cleaners : d[1] \in held[c]
    BY <1>3, <2>1 DEF OnceInv, TerminalInv
  <2> QED
    BY <1>3, <2>2, DeliveryMoves DEF Inv, DeliveryMove, HeldByCleaner
<1>4. Inv /\ OnceInv /\ [Next]_vars
        => [\A d \in Ids : deliveries[d] \notin Terminal \cup {Null} => deliveries'[d] # Null]_vars
  BY <1>3
<1> QED
  BY <1>1, <1>2, <1>4, Invariance, PTL DEF Spec, ActiveSurvives
=============================================================================
