------------------------ MODULE KafkaConsumerProofs -------------------------
(***************************************************************************)
(* The invariants of KafkaConsumer, for any group, any partitions and any  *)
(* number of messages, crashes and rebalances.                             *)
(***************************************************************************)
EXTENDS KafkaConsumer, WellFoundedInduction, SequenceTheorems, TLAPS

\* Nothing refers to a message that is not in the log.
WithinLog ==
    \A p \in Partitions :
        /\ Len(log[p]) <= MaxMessages
        /\ committed[p] <= Len(log[p]) + 1
        /\ position[p] <= Len(log[p]) + 1

\* A batch holds events only; malformed messages are dropped on collection.
BatchOfEvents ==
    \A m \in Members : \A x \in Collected(m) : IsEvent(x[1], x[2])

\* A batch has no holes: before an event of the batch there are, in its
\* partition, only events of the batch and events that are stored or skipped.
BatchHasNoHoles ==
    \A m \in Members : \A x \in Collected(m) : \A o \in 1..(x[2] - 1) :
        IsEvent(x[1], o) => <<x[1], o>> \in durable \cup skipped \cup Collected(m)

Remaining(m) == {todo[m][i] : i \in DOMAIN todo[m]}

\* Once ProcessBatch has passed a message, its rows are stored.
ProgressIsDurable ==
    \A m \in Members :
        /\ pc[m] = "init" => Collected(m) \subseteq durable \cup Remaining(m)
        /\ pc[m] \in {"deliver", "commit"} => Collected(m) \subseteq durable

Inv ==
    /\ TypeOK
    /\ WithinLog
    /\ BatchOfEvents
    /\ BatchHasNoHoles
    /\ ProgressIsDurable
    /\ LostOnlyIfSkipped
    /\ HandedOutIsHeld

-----------------------------------------------------------------------------
(* Operators. *)

\* A bounded, non-empty set of naturals has a largest element.
LEMMA MaxOfBounded ==
    ASSUME NEW S \in SUBSET Nat, NEW n \in Nat, \A s \in S : s <= n, S # {}
    PROVE  Max(S) \in S /\ \A s \in S : s <= Max(S)
<1> DEFINE T == {n - s : s \in S}
<1>1. T \subseteq Nat /\ T # {}
  <2>1. \A s \in S : n - s \in Nat
    OBVIOUS
  <2> HIDE DEF T
  <2> QED
    BY <2>1, Zenon DEF T
<1>2. PICK t \in T : \A u \in T : ~ (<<u, t>> \in OpToRel(<, Nat))
  BY <1>1, NatLessThanWellFounded, WFMin, Zenon
<1>3. \A u \in T : t <= u
  <2> SUFFICES ASSUME NEW u \in T, u < t PROVE FALSE
    BY <1>1
  <2>1. u \in Nat /\ t \in Nat
    BY <1>1, Zenon
  <2>2. <<u, t>> \in OpToRel(<, Nat)
    BY <2>1 DEF OpToRel
  <2> QED
    BY <1>2, <2>2, Zenon
<1>4. PICK x \in S : t = n - x
  OBVIOUS
<1>5. \A s \in S : x >= s
  <2> TAKE s \in S
  <2>1. n - s \in T
    OBVIOUS
  <2> QED
    BY <1>3, <1>4, <2>1
<1>6. Max(S) \in S /\ \A s \in S : Max(S) >= s
  BY <1>5, Zenon DEF Max
<1> QED
  BY <1>6

\* What appending to a member's batch does to the messages collected.
LEMMA CollectedAppend ==
    ASSUME TypeOK, NEW m \in Members, NEW x \in Messages,
           batch' = [batch EXCEPT ![m] = Append(@, x)]
    PROVE  /\ batch' \in [Members -> Seq(Messages)]
           /\ Collected(m)' = Collected(m) \cup {x}
           /\ \A k \in Members \ {m} : Collected(k)' = Collected(k)
<1> DEFINE b == batch[m]
<1>1. b \in Seq(Messages) /\ batch'[m] = Append(b, x)
  BY DEF TypeOK
<1>2. /\ Append(b, x) \in Seq(Messages)
      /\ DOMAIN b = 1..Len(b)
      /\ DOMAIN Append(b, x) = 1..(Len(b) + 1)
      /\ Len(b) \in Nat
      /\ \A i \in 1..Len(b) : Append(b, x)[i] = b[i]
      /\ Append(b, x)[Len(b) + 1] = x
  BY <1>1
<1>3. Collected(m)' = Collected(m) \cup {x}
  <2>1. ASSUME NEW y \in Collected(m)' PROVE y \in Collected(m) \cup {x}
    BY <1>1, <1>2, <2>1 DEF Collected
  <2>2. ASSUME NEW y \in Collected(m) PROVE y \in Collected(m)'
    BY <1>1, <1>2, <2>2 DEF Collected
  <2>3. x \in Collected(m)'
    BY <1>1, <1>2 DEF Collected
  <2> QED
    BY <2>1, <2>2, <2>3
<1>4. \A k \in Members \ {m} : Collected(k)' = Collected(k)
  BY DEF Collected, TypeOK
<1> QED
  BY <1>1, <1>2, <1>3, <1>4 DEF TypeOK

\* A member that ends its batch, or dies, holds nothing; the others keep what
\* they have.
LEMMA CollectedEmpty ==
    ASSUME TypeOK, NEW m \in Members, batch' = [batch EXCEPT ![m] = <<>>]
    PROVE  /\ batch' \in [Members -> Seq(Messages)]
           /\ Collected(m)' = {}
           /\ \A k \in Members \ {m} : Collected(k)' = Collected(k)
<1>1. batch'[m] = <<>> /\ \A k \in Members \ {m} : batch'[k] = batch[k]
  BY DEF TypeOK
<1>2. Collected(m)' = {}
  BY <1>1 DEF Collected
<1> QED
  BY <1>1, <1>2 DEF Collected, TypeOK

\* A collected message is a message.
LEMMA CollectedType ==
    ASSUME TypeOK, NEW m \in Members
    PROVE  Collected(m) \subseteq Messages
BY DEF TypeOK, Collected

\* Offsets(m, p) are the offsets collected from p, and the largest one is the
\* one that is committed.
LEMMA OffsetsMax ==
    ASSUME TypeOK, NEW m \in Members, NEW p \in Partitions, Offsets(m, p) # {}
    PROVE  /\ <<p, Max(Offsets(m, p))>> \in Collected(m)
           /\ Max(Offsets(m, p)) \in 1..MaxMessages
<1> DEFINE S == Offsets(m, p)
<1>1. \A s \in S : <<p, s>> \in Collected(m) /\ s \in 1..MaxMessages
  BY CollectedType DEF Offsets, Messages
<1>2. MaxMessages \in Nat
  BY ConsumerAssumption
<1>3. S \in SUBSET Nat /\ \A s \in S : s <= MaxMessages
  <2>1. \A s \in 1..MaxMessages : s \in Nat /\ s <= MaxMessages
    BY <1>2
  <2> QED
    BY <1>1, <2>1, Zenon
<1>4. Max(S) \in S
  BY <1>2, <1>3, MaxOfBounded, Zenon
<1> QED
  BY <1>1, <1>4

-----------------------------------------------------------------------------
(* The steps. *)

\* An empty log and idle members.
LEMMA InitInv == Init => Inv
<1> SUFFICES ASSUME Init PROVE Inv
  OBVIOUS
<1>1. MaxMessages \in Nat /\ MaxRestarts \in Nat
  BY ConsumerAssumption
<1>2. /\ log = [p \in Partitions |-> <<>>]
      /\ committed \in [Partitions -> {0, 1}]
      /\ position = [p \in Partitions |-> 1]
  BY DEF Init
<1>3. TypeOK
  BY <1>1, <1>2 DEF Init, TypeOK
<1>4. WithinLog
  BY <1>1, <1>2 DEF WithinLog
<1>5. \A m \in Members : Collected(m) = {} /\ pc[m] = "collect"
  BY DEF Init, Collected
<1>6. LostOnlyIfSkipped /\ HandedOutIsHeld
  BY <1>2 DEF LostOnlyIfSkipped, HandedOutIsHeld
<1> QED
  BY <1>3, <1>4, <1>5, <1>6 DEF Inv, BatchOfEvents, BatchHasNoHoles, ProgressIsDurable

\* A published message lies behind everything that is committed, handed out or
\* collected.
LEMMA PublishInv ==
    ASSUME Inv, NEW p \in Partitions, NEW kind, Publish(p, kind)
    PROVE  Inv'
<1>0. MaxMessages \in Nat
  BY ConsumerAssumption
<1>1. /\ UNCHANGED <<committed, assigned, position, pc, batch, todo, durable, skipped, restarts>>
      /\ kind \in Kinds
      /\ Len(log[p]) < MaxMessages
      /\ log' = [log EXCEPT ![p] = Append(@, kind)]
  BY DEF Publish
<1>2. log \in [Partitions -> Seq(Kinds)]
  BY DEF Inv, TypeOK
<1>3. /\ log' \in [Partitions -> Seq(Kinds)]
      /\ \A q \in Partitions : Len(log[q]) \in Nat /\ Len(log'[q]) \in Nat
      /\ \A q \in Partitions : Len(log[q]) <= Len(log'[q])
      /\ \A q \in Partitions : Len(log[q]) <= MaxMessages => Len(log'[q]) <= MaxMessages
      /\ \A q \in Partitions : \A o \in 1..Len(log[q]) : log'[q][o] = log[q][o]
  BY <1>0, <1>1, <1>2
<1>4. TypeOK'
  BY <1>1, <1>3 DEF Inv, TypeOK
<1>5. WithinLog'
  BY <1>1, <1>3, ConsumerAssumption DEF Inv, TypeOK, WithinLog
<1>6. ASSUME NEW q \in Partitions, NEW o, o \in 1..Len(log[q])
      PROVE  IsEvent(q, o)' <=> IsEvent(q, o)
  BY <1>3, <1>6 DEF IsEvent
<1>7. \A q \in Partitions : committed[q] - 1 <= Len(log[q]) /\ position[q] - 1 <= Len(log[q])
  <2> SUFFICES ASSUME NEW q \in Partitions
               PROVE  committed[q] - 1 <= Len(log[q]) /\ position[q] - 1 <= Len(log[q])
    OBVIOUS
  <2>1. committed[q] \in Nat /\ position[q] \in Nat /\ Len(log[q]) \in Nat
    BY <1>3, ConsumerAssumption DEF Inv, TypeOK
  <2>2. committed[q] <= Len(log[q]) + 1 /\ position[q] <= Len(log[q]) + 1
    BY DEF Inv, WithinLog
  <2> QED
    BY <2>1, <2>2
<1>8. LostOnlyIfSkipped'
  <2> SUFFICES ASSUME NEW q \in Partitions, NEW o \in 1..(committed[q] - 1), IsEvent(q, o)'
               PROVE  <<q, o>> \in durable \cup skipped
    BY <1>1 DEF LostOnlyIfSkipped
  <2>0. committed[q] \in Nat
    BY ConsumerAssumption DEF Inv, TypeOK
  <2>1. o \in 1..Len(log[q])
    BY <1>3, <1>7, <2>0
  <2> QED
    BY <1>6, <2>1 DEF Inv, LostOnlyIfSkipped
<1>9. \A m \in Members : Collected(m)' = Collected(m)
  BY <1>1 DEF Collected
<1>10. HandedOutIsHeld'
  <2> SUFFICES ASSUME NEW q \in Partitions, NEW o \in 1..(position[q] - 1), IsEvent(q, o)',
                      <<q, o>> \notin durable \cup skipped
               PROVE  <<q, o>> \in Collected(assigned[q])
    BY <1>1, <1>9 DEF HandedOutIsHeld, Inv, TypeOK
  <2>0. position[q] \in Nat
    BY ConsumerAssumption DEF Inv, TypeOK
  <2>1. o \in 1..Len(log[q])
    BY <1>3, <1>7, <2>0
  <2> QED
    BY <1>6, <2>1 DEF Inv, HandedOutIsHeld
<1>11. \A m \in Members : \A x \in Collected(m) :
          x[1] \in Partitions /\ x[2] \in 1..Len(log[x[1]])
  BY CollectedType DEF Inv, BatchOfEvents, IsEvent, Messages
<1>12. BatchOfEvents'
  BY <1>6, <1>9, <1>11 DEF Inv, BatchOfEvents
<1>13. BatchHasNoHoles'
  <2> SUFFICES ASSUME NEW m \in Members, NEW x \in Collected(m), NEW o \in 1..(x[2] - 1),
                      IsEvent(x[1], o)'
               PROVE  <<x[1], o>> \in durable \cup skipped \cup Collected(m)
    BY <1>1, <1>9 DEF BatchHasNoHoles
  <2>1. o \in 1..Len(log[x[1]])
    BY <1>3, <1>11
  <2> QED
    BY <1>6, <1>11, <2>1 DEF Inv, BatchHasNoHoles
<1>14. ProgressIsDurable'
  BY <1>1, <1>9 DEF Inv, ProgressIsDurable, Remaining
<1> QED
  BY <1>4, <1>5, <1>8, <1>10, <1>12, <1>13, <1>14 DEF Inv

\* An event that is collected comes right behind what the reader has handed
\* out, so that the batch stays without holes.
LEMMA CollectEventInv ==
    ASSUME Inv, NEW m \in Members, NEW p \in Partitions, CollectEvent(m, p)
    PROVE  Inv'
<1> DEFINE x == <<p, position[p]>>
<1>0. TypeOK /\ MaxMessages \in Nat
  BY ConsumerAssumption DEF Inv
<1>1. /\ UNCHANGED <<log, committed, assigned, pc, todo, durable, skipped, restarts>>
      /\ pc[m] = "collect"
      /\ assigned[p] = m
      /\ position' = [position EXCEPT ![p] = @ + 1]
      /\ batch' = [batch EXCEPT ![m] = Append(@, x)]
  BY DEF CollectEvent, Fetch
<1>2. /\ position[p] \in 1..Len(log[p])
      /\ Len(log[p]) \in 1..MaxMessages
      /\ IsEvent(p, position[p])
  BY <1>0 DEF CollectEvent, Fetch, Inv, TypeOK, WithinLog, IsEvent
<1>3. x \in Messages
  BY <1>0, <1>2 DEF Messages
<1>4. /\ batch' \in [Members -> Seq(Messages)]
      /\ Collected(m)' = Collected(m) \cup {x}
      /\ \A k \in Members \ {m} : Collected(k)' = Collected(k)
  BY <1>0, <1>1, <1>3, CollectedAppend, Zenon
<1>5. position' \in [Partitions -> 1..(MaxMessages + 1)]
  <2>1. position[p] + 1 \in 1..(MaxMessages + 1)
    BY <1>0, <1>2
  <2> QED
    BY <1>0, <1>1, <2>1 DEF TypeOK
<1>6. TypeOK'
  BY <1>0, <1>1, <1>4, <1>5 DEF TypeOK
<1>7. WithinLog'
  <2>1. \A q \in Partitions : position'[q] <= Len(log[q]) + 1
    <3> TAKE q \in Partitions
    <3>1. CASE q = p
      BY <1>0, <1>1, <1>2, <3>1 DEF TypeOK
    <3>2. CASE q # p
      BY <1>0, <1>1, <3>2 DEF Inv, TypeOK, WithinLog
    <3> QED
      BY <3>1, <3>2
  <2> QED
    BY <1>1, <2>1 DEF Inv, WithinLog
<1>8. \A q, o : IsEvent(q, o)' <=> IsEvent(q, o)
  BY <1>1 DEF IsEvent
<1>9. BatchOfEvents'
  BY <1>2, <1>4, <1>8 DEF Inv, BatchOfEvents
<1>10. BatchHasNoHoles'
  <2> SUFFICES ASSUME NEW k \in Members, NEW y \in Collected(k)', NEW o \in 1..(y[2] - 1),
                      IsEvent(y[1], o)
               PROVE  <<y[1], o>> \in durable \cup skipped \cup Collected(k)'
    BY <1>1, <1>8 DEF BatchHasNoHoles
  <2>1. CASE y \in Collected(k)
    BY <1>4, <2>1, Zenon DEF Inv, BatchHasNoHoles
  <2>2. CASE k = m /\ y = x
    BY <1>1, <1>4, <2>2 DEF Inv, HandedOutIsHeld
  <2> QED
    BY <1>4, <2>1, <2>2
<1>11. ProgressIsDurable'
  <2>1. \A k \in Members : Remaining(k)' = Remaining(k)
    BY <1>1 DEF Remaining
  <2>2. \A k \in Members : pc[k] # "collect" => Collected(k)' = Collected(k)
    BY <1>1, <1>4
  <2> QED
    BY <1>1, <2>1, <2>2 DEF Inv, ProgressIsDurable
<1>12. LostOnlyIfSkipped'
  BY <1>1, <1>8 DEF Inv, LostOnlyIfSkipped
<1>13. HandedOutIsHeld'
  <2> SUFFICES ASSUME NEW q \in Partitions, NEW o \in 1..(position'[q] - 1), IsEvent(q, o),
                      <<q, o>> \notin durable \cup skipped
               PROVE  <<q, o>> \in Collected(assigned[q])'
    BY <1>1, <1>8 DEF HandedOutIsHeld
  <2>0. position[q] \in Nat /\ assigned[q] \in Members
    BY <1>0 DEF TypeOK
  <2>1. CASE q = p /\ o = position[p]
    BY <1>1, <1>4, <2>1
  <2>2. CASE ~ (q = p /\ o = position[p])
    <3>1. o \in 1..(position[q] - 1)
      BY <1>0, <1>1, <2>0, <2>2 DEF TypeOK
    <3>2. <<q, o>> \in Collected(assigned[q])
      BY <3>1 DEF Inv, HandedOutIsHeld
    <3> QED
      BY <1>1, <1>4, <2>0, <3>2
  <2> QED
    BY <2>1, <2>2
<1> QED
  BY <1>6, <1>7, <1>9, <1>10, <1>11, <1>12, <1>13 DEF Inv

\* A malformed message is committed over whatever the batch holds of its
\* partition; those messages count as skipped.
LEMMA CollectMalformedInv ==
    ASSUME Inv, NEW m \in Members, NEW p \in Partitions, CollectMalformed(m, p)
    PROVE  Inv'
<1>0. TypeOK /\ MaxMessages \in Nat
  BY ConsumerAssumption DEF Inv
<1>1. /\ UNCHANGED <<log, assigned, pc, batch, todo, durable, restarts>>
      /\ pc[m] = "collect"
      /\ assigned[p] = m
      /\ position' = [position EXCEPT ![p] = @ + 1]
      /\ log[p][position[p]] = "malformed"
  BY DEF CollectMalformed, Fetch
<1>2. position[p] \in 1..Len(log[p]) /\ Len(log[p]) \in 1..MaxMessages
  BY <1>0 DEF CollectMalformed, Fetch, Inv, TypeOK, WithinLog
<1>3. position[p] + 1 \in 1..(MaxMessages + 1) /\ position[p] + 1 <= Len(log[p]) + 1
  BY <1>0, <1>2
<1>4. \/ /\ committed' = [committed EXCEPT ![p] = position[p] + 1]
         /\ skipped' = skipped \cup {x \in Collected(m) : x[1] = p}
      \/ committed' = committed /\ skipped' = skipped
  BY DEF CollectMalformed
<1>5. /\ skipped \subseteq skipped' /\ skipped' \subseteq Messages
      /\ committed' \in [Partitions -> 0..(MaxMessages + 1)]
      /\ \A q \in Partitions : committed'[q] <= Len(log[q]) + 1
  <2>1. skipped \subseteq Messages /\ Collected(m) \subseteq Messages
    BY <1>0, CollectedType DEF TypeOK
  <2>2. CASE committed' = committed /\ skipped' = skipped
    BY <1>0, <2>2 DEF Inv, TypeOK, WithinLog
  <2>3. CASE /\ committed' = [committed EXCEPT ![p] = position[p] + 1]
             /\ skipped' = skipped \cup {x \in Collected(m) : x[1] = p}
    <3>1. committed' \in [Partitions -> 0..(MaxMessages + 1)]
      BY <1>0, <1>3, <2>3 DEF TypeOK
    <3>2. \A q \in Partitions : committed'[q] <= Len(log[q]) + 1
      BY <1>0, <1>3, <2>3, Zenon DEF Inv, TypeOK, WithinLog
    <3> QED
      BY <2>1, <2>3, <3>1, <3>2
  <2> QED
    BY <1>4, <2>2, <2>3
<1>6. position' \in [Partitions -> 1..(MaxMessages + 1)]
  BY <1>0, <1>1, <1>3 DEF TypeOK
<1>7. TypeOK'
  BY <1>0, <1>1, <1>5, <1>6 DEF TypeOK
<1>8. WithinLog'
  BY <1>0, <1>1, <1>3, <1>5, Zenon DEF Inv, TypeOK, WithinLog
<1>9. /\ \A q, o : IsEvent(q, o)' <=> IsEvent(q, o)
      /\ \A k : Collected(k)' = Collected(k)
  BY <1>1 DEF IsEvent, Collected
<1>10. BatchOfEvents' /\ BatchHasNoHoles' /\ ProgressIsDurable'
  BY <1>1, <1>5, <1>9
     DEF Inv, BatchOfEvents, BatchHasNoHoles, ProgressIsDurable, Remaining
<1>11. ~ IsEvent(p, position[p])
  BY <1>1 DEF IsEvent
<1>12. HandedOutIsHeld'
  <2> SUFFICES ASSUME NEW q \in Partitions, NEW o \in 1..(position'[q] - 1), IsEvent(q, o),
                      <<q, o>> \notin durable \cup skipped
               PROVE  <<q, o>> \in Collected(assigned[q])
    BY <1>1, <1>5, <1>9 DEF HandedOutIsHeld
  <2>1. position[q] \in Nat
    BY <1>0 DEF TypeOK
  <2>2. o \in 1..(position[q] - 1)
    BY <1>0, <1>1, <1>11, <2>1 DEF TypeOK
  <2> QED
    BY <2>2 DEF Inv, HandedOutIsHeld
<1>13. LostOnlyIfSkipped'
  <2> SUFFICES ASSUME NEW q \in Partitions, NEW o \in 1..(committed'[q] - 1), IsEvent(q, o)
               PROVE  <<q, o>> \in durable \cup skipped'
    BY <1>1, <1>9 DEF LostOnlyIfSkipped
  <2>1. CASE committed'[q] = committed[q]
    BY <1>5, <2>1 DEF Inv, LostOnlyIfSkipped
  <2>2. CASE committed'[q] # committed[q]
    <3>1. /\ q = p /\ committed'[p] = position[p] + 1
          /\ skipped' = skipped \cup {x \in Collected(m) : x[1] = p}
      BY <1>0, <1>4, <2>2 DEF TypeOK
    <3>2. o \in 1..(position[p] - 1)
      BY <1>2, <1>11, <3>1
    <3>3. <<p, o>> \in durable \cup skipped \cup Collected(m)
      BY <1>1, <3>1, <3>2 DEF Inv, HandedOutIsHeld
    <3> QED
      BY <3>1, <3>3
  <2> QED
    BY <2>1, <2>2
<1> QED
  BY <1>7, <1>8, <1>10, <1>12, <1>13 DEF Inv

\* Steps of ProcessBatch leave the readers, the batches and the offsets alone;
\* more rows are stored.
LEMMA ProcessFrame ==
    ASSUME Inv, UNCHANGED <<log, committed, assigned, position, batch, skipped, restarts>>,
           durable \subseteq durable', TypeOK', ProgressIsDurable'
    PROVE  Inv'
<1>1. /\ \A q, o : IsEvent(q, o)' <=> IsEvent(q, o)
      /\ \A k : Collected(k)' = Collected(k)
  BY DEF IsEvent, Collected
<1>2. WithinLog' /\ BatchOfEvents' /\ BatchHasNoHoles'
  BY <1>1 DEF Inv, WithinLog, BatchOfEvents, BatchHasNoHoles
<1>3. LostOnlyIfSkipped' /\ HandedOutIsHeld'
  BY <1>1 DEF Inv, LostOnlyIfSkipped, HandedOutIsHeld
<1> QED
  BY <1>2, <1>3 DEF Inv

\* When ProcessBatch begins, everything collected remains to be stored.
LEMMA BeginBatchInv ==
    ASSUME Inv, NEW m \in Members, BeginBatch(m)
    PROVE  Inv'
<1>1. /\ UNCHANGED <<log, committed, assigned, position, batch, durable, skipped, restarts>>
      /\ pc' = [pc EXCEPT ![m] = "init"]
      /\ todo' = [todo EXCEPT ![m] = batch[m]]
  BY DEF BeginBatch
<1>2. TypeOK'
  BY <1>1 DEF Inv, TypeOK
<1>3. Remaining(m)' = Collected(m)
  BY <1>1 DEF Inv, TypeOK, Remaining, Collected
<1>4. \A k \in Members \ {m} : pc'[k] = pc[k] /\ Remaining(k)' = Remaining(k)
  BY <1>1 DEF Inv, TypeOK, Remaining
<1>5. pc'[m] = "init" /\ \A k : Collected(k)' = Collected(k)
  BY <1>1 DEF Inv, TypeOK, Collected
<1>6. ProgressIsDurable'
  BY <1>1, <1>3, <1>4, <1>5 DEF Inv, ProgressIsDurable
<1> QED
  BY <1>1, <1>2, <1>6, ProcessFrame

\* The transaction of a message stores it; what remains shrinks by it.
LEMMA InitializeNextInv ==
    ASSUME Inv, NEW m \in Members, InitializeNext(m)
    PROVE  Inv'
<1> DEFINE s == todo[m]
<1>1. /\ UNCHANGED <<log, committed, assigned, position, batch, skipped, restarts>>
      /\ pc[m] = "init"
      /\ s # <<>>
      /\ durable' = durable \cup {Head(s)}
      /\ todo' = [todo EXCEPT ![m] = Tail(s)]
      /\ pc' = [pc EXCEPT ![m] = IF Tail(s) = <<>> THEN "deliver" ELSE "init"]
  BY DEF InitializeNext
<1>2. s \in Seq(Messages) /\ Head(s) \in Messages /\ Tail(s) \in Seq(Messages)
  BY <1>1 DEF Inv, TypeOK
<1>3. TypeOK'
  BY <1>1, <1>2 DEF Inv, TypeOK
<1>4. \A k \in Members \ {m} : pc'[k] = pc[k] /\ Remaining(k)' = Remaining(k)
  BY <1>1 DEF Inv, TypeOK, Remaining
<1>5. \A k : Collected(k)' = Collected(k)
  BY <1>1 DEF Collected
<1>6. Remaining(m) \subseteq {Head(s)} \cup Remaining(m)'
  <2> SUFFICES ASSUME NEW i \in DOMAIN s, s[i] # Head(s)
               PROVE  s[i] \in Remaining(m)'
    BY DEF Remaining
  <2>1. i \in 2..Len(s)
    BY <1>2
  <2>2. i - 1 \in DOMAIN Tail(s) /\ Tail(s)[i - 1] = s[i]
    BY <1>1, <1>2, <2>1
  <2>3. todo'[m] = Tail(s)
    BY <1>1 DEF Inv, TypeOK
  <2> QED
    BY <2>2, <2>3 DEF Remaining
<1>7. Tail(s) = <<>> => Remaining(m)' = {}
  BY <1>1 DEF Inv, TypeOK, Remaining
<1>8. Collected(m) \subseteq durable' \cup Remaining(m)'
  BY <1>1, <1>6 DEF Inv, ProgressIsDurable
<1>9. ProgressIsDurable'
  <2>1. ASSUME NEW k \in Members, k # m
        PROVE  /\ pc'[k] = "init" => Collected(k)' \subseteq durable' \cup Remaining(k)'
               /\ pc'[k] \in {"deliver", "commit"} => Collected(k)' \subseteq durable'
    BY <1>1, <1>4, <1>5, <2>1 DEF Inv, ProgressIsDurable
  <2>2. pc'[m] = IF Tail(s) = <<>> THEN "deliver" ELSE "init"
    BY <1>1 DEF Inv, TypeOK
  <2>3. /\ pc'[m] = "init" => Collected(m)' \subseteq durable' \cup Remaining(m)'
        /\ pc'[m] \in {"deliver", "commit"} => Collected(m)' \subseteq durable'
    BY <1>5, <1>7, <1>8, <2>2
  <2> QED
    BY <2>1, <2>3 DEF ProgressIsDurable
<1> QED
  BY <1>1, <1>3, <1>9, ProcessFrame

\* After the last message, the whole batch is stored.
LEMMA ProcessBatchReturnsInv ==
    ASSUME Inv, NEW m \in Members, ProcessBatchReturns(m)
    PROVE  Inv'
<1>1. /\ UNCHANGED <<log, committed, assigned, position, batch, todo, durable, skipped, restarts>>
      /\ pc[m] = "deliver"
      /\ pc' = [pc EXCEPT ![m] = "commit"]
  BY DEF ProcessBatchReturns
<1>2. TypeOK'
  BY <1>1 DEF Inv, TypeOK
<1>3. \A k : Collected(k)' = Collected(k) /\ Remaining(k)' = Remaining(k)
  BY <1>1 DEF Collected, Remaining
<1>4. pc'[m] = "commit" /\ \A k \in Members \ {m} : pc'[k] = pc[k]
  BY <1>1 DEF Inv, TypeOK
<1>5. ProgressIsDurable'
  BY <1>1, <1>3, <1>4 DEF Inv, ProgressIsDurable
<1> QED
  BY <1>1, <1>2, <1>5, ProcessFrame

\* A batch ends harmlessly if its messages are stored or count as skipped, and
\* the offsets committed on the way pass over nothing else.
LEMMA EndBatchInv ==
    ASSUME Inv, NEW m \in Members, EndBatch(m),
           skipped \subseteq skipped', skipped' \subseteq Messages,
           Collected(m) \subseteq durable \cup skipped',
           committed' \in [Partitions -> 0..(MaxMessages + 1)],
           \A p \in Partitions : committed'[p] <= Len(log[p]) + 1,
           \A p \in Partitions : \A o \in 1..(committed'[p] - 1) :
               IsEvent(p, o) => <<p, o>> \in durable \cup skipped'
    PROVE  Inv'
<1>0. TypeOK
  BY DEF Inv
<1>1. /\ UNCHANGED <<log, assigned, position, durable, restarts>>
      /\ pc' = [pc EXCEPT ![m] = "collect"]
      /\ batch' = [batch EXCEPT ![m] = <<>>]
      /\ todo' = [todo EXCEPT ![m] = <<>>]
  BY DEF EndBatch
<1>2. /\ batch' \in [Members -> Seq(Messages)]
      /\ Collected(m)' = {}
      /\ \A k \in Members \ {m} : Collected(k)' = Collected(k)
  BY <1>0, <1>1, CollectedEmpty, Zenon
<1>3. TypeOK'
  BY <1>0, <1>1, <1>2 DEF TypeOK
<1>4. WithinLog'
  BY <1>1 DEF Inv, WithinLog
<1>5. \A q, o : IsEvent(q, o)' <=> IsEvent(q, o)
  BY <1>1 DEF IsEvent
<1>6. BatchOfEvents'
  BY <1>2, <1>5 DEF Inv, BatchOfEvents
<1>7. BatchHasNoHoles'
  BY <1>1, <1>2, <1>5 DEF Inv, BatchHasNoHoles
<1>8. ProgressIsDurable'
  <2>1. pc'[m] = "collect"
    BY <1>0, <1>1 DEF TypeOK
  <2>2. \A k \in Members \ {m} : pc'[k] = pc[k] /\ Remaining(k)' = Remaining(k)
    BY <1>0, <1>1 DEF TypeOK, Remaining
  <2> QED
    BY <1>1, <1>2, <2>1, <2>2 DEF Inv, ProgressIsDurable
<1>9. LostOnlyIfSkipped'
  BY <1>1, <1>5 DEF LostOnlyIfSkipped
<1>10. HandedOutIsHeld'
  <2> SUFFICES ASSUME NEW q \in Partitions, NEW o \in 1..(position[q] - 1), IsEvent(q, o),
                      <<q, o>> \notin durable \cup skipped'
               PROVE  <<q, o>> \in Collected(assigned[q])'
    BY <1>1, <1>5 DEF HandedOutIsHeld
  <2>1. <<q, o>> \in Collected(assigned[q])
    BY DEF Inv, HandedOutIsHeld
  <2>2. assigned'[q] = assigned[q] /\ assigned[q] \in Members /\ assigned[q] # m
    BY <1>0, <1>1, <2>1 DEF TypeOK
  <2> QED
    BY <1>2, <2>1, <2>2
<1> QED
  BY <1>3, <1>4, <1>6, <1>7, <1>8, <1>9, <1>10 DEF Inv

\* A failed batch counts as skipped.
LEMMA ProcessBatchFailsInv ==
    ASSUME Inv, NEW m \in Members, ProcessBatchFails(m)
    PROVE  Inv'
<1>1. EndBatch(m) /\ committed' = committed /\ skipped' = skipped \cup Collected(m)
  BY DEF ProcessBatchFails
<1>2. skipped' \subseteq Messages
  BY <1>1, CollectedType DEF Inv, TypeOK
<1>3. /\ committed' \in [Partitions -> 0..(MaxMessages + 1)]
      /\ \A p \in Partitions : committed'[p] <= Len(log[p]) + 1
      /\ \A p \in Partitions : \A o \in 1..(committed'[p] - 1) :
             IsEvent(p, o) => <<p, o>> \in durable \cup skipped'
  BY <1>1 DEF Inv, TypeOK, WithinLog, LostOnlyIfSkipped
<1> QED
  BY <1>1, <1>2, <1>3, EndBatchInv

\* A commit that fails leaves the offsets where they are.
LEMMA CommitFailsInv ==
    ASSUME Inv, NEW m \in Members, CommitFails(m)
    PROVE  Inv'
<1>1. EndBatch(m) /\ committed' = committed /\ skipped' = skipped
  BY DEF CommitFails
<1>2. Collected(m) \subseteq durable /\ skipped \subseteq Messages
  BY DEF CommitFails, Inv, ProgressIsDurable, TypeOK
<1>3. /\ committed' \in [Partitions -> 0..(MaxMessages + 1)]
      /\ \A p \in Partitions : committed'[p] <= Len(log[p]) + 1
      /\ \A p \in Partitions : \A o \in 1..(committed'[p] - 1) :
             IsEvent(p, o) => <<p, o>> \in durable \cup skipped'
  BY <1>1 DEF Inv, TypeOK, WithinLog, LostOnlyIfSkipped
<1> QED
  BY <1>1, <1>2, <1>3, EndBatchInv

\* Committing the largest offset of a batch without holes passes over stored
\* and skipped messages only, also when the partition has meanwhile been
\* assigned to another member.
LEMMA CommitMessagesInv ==
    ASSUME Inv, NEW m \in Members, CommitMessages(m)
    PROVE  Inv'
<1>0. TypeOK /\ MaxMessages \in Nat
  BY ConsumerAssumption DEF Inv
<1>1. /\ EndBatch(m) /\ skipped' = skipped
      /\ committed' = [p \in Partitions |->
                          IF Offsets(m, p) = {} THEN committed[p] ELSE Max(Offsets(m, p)) + 1]
  BY DEF CommitMessages
<1>2. Collected(m) \subseteq durable /\ skipped \subseteq Messages
  BY DEF CommitMessages, Inv, ProgressIsDurable, TypeOK
<1>3. ASSUME NEW p \in Partitions
      PROVE  /\ committed'[p] \in 0..(MaxMessages + 1)
             /\ committed'[p] <= Len(log[p]) + 1
             /\ \A o \in 1..(committed'[p] - 1) :
                    IsEvent(p, o) => <<p, o>> \in durable \cup skipped'
  <2>1. CASE Offsets(m, p) = {}
    <3>1. committed'[p] = committed[p]
      BY <1>1, <2>1
    <3> QED
      BY <1>0, <1>1, <3>1 DEF Inv, TypeOK, WithinLog, LostOnlyIfSkipped
  <2>2. CASE Offsets(m, p) # {}
    <3> DEFINE x == Max(Offsets(m, p))
    <3>1. <<p, x>> \in Collected(m) /\ x \in 1..MaxMessages /\ committed'[p] = x + 1
      BY <1>0, <1>1, <2>2, OffsetsMax
    <3>2. x \in 1..Len(log[p])
      BY <3>1 DEF Inv, BatchOfEvents, IsEvent
    <3>3. \A o \in 1..(x - 1) : IsEvent(p, o) => <<p, o>> \in durable \cup skipped
      BY <1>2, <3>1 DEF Inv, BatchHasNoHoles
    <3> HIDE DEF x
    <3>4. Len(log[p]) \in Nat
      BY <1>0 DEF TypeOK
    <3>5. \A o \in 1..(committed'[p] - 1) : o = x \/ o \in 1..(x - 1)
      BY <1>0, <3>1
    <3>6. committed'[p] \in 0..(MaxMessages + 1) /\ committed'[p] <= Len(log[p]) + 1
      BY <1>0, <3>1, <3>2, <3>4
    <3> QED
      BY <1>1, <1>2, <3>1, <3>3, <3>5, <3>6
  <2> QED
    BY <2>1, <2>2
<1>4. committed' \in [Partitions -> 0..(MaxMessages + 1)]
  BY <1>1, <1>3
<1> QED
  BY <1>1, <1>2, <1>3, <1>4, EndBatchInv

\* After a rebalance or a restart every reader stands at the committed offset,
\* or behind a log whose messages count as skipped; a member keeps its batch or
\* loses it.
LEMMA ReassignInv ==
    ASSUME Inv, Reassign,
           pc' \in [Members -> {"collect", "init", "deliver", "commit"}],
           batch' \in [Members -> Seq(Messages)],
           todo' \in [Members -> Seq(Messages)],
           \A m \in Members : Collected(m)' = Collected(m) \/ Collected(m)' = {},
           ProgressIsDurable'
    PROVE  Inv'
<1>0. TypeOK /\ MaxMessages \in Nat /\ MaxRestarts \in Nat
  BY ConsumerAssumption DEF Inv
<1>1. /\ UNCHANGED <<log, committed, durable>>
      /\ restarts < MaxRestarts /\ restarts' = restarts + 1
      /\ assigned' \in [Partitions -> Members]
      /\ position' = [p \in Partitions |-> Resume(p)]
      /\ skipped' = skipped \cup {x \in Messages : committed[x[1]] = 0 /\ x[2] <= Len(log[x[1]])}
  BY DEF Reassign
<1>2. /\ \A q, o : IsEvent(q, o)' <=> IsEvent(q, o)
      /\ skipped \subseteq skipped' /\ skipped' \subseteq Messages
  BY <1>0, <1>1 DEF IsEvent, TypeOK
<1>3. ASSUME NEW p \in Partitions
      PROVE  /\ position'[p] \in 1..(MaxMessages + 1)
             /\ position'[p] <= Len(log[p]) + 1
             /\ \A o \in 1..(position'[p] - 1) :
                    IsEvent(p, o) => <<p, o>> \in durable \cup skipped'
  <2>1. /\ Len(log[p]) \in 0..MaxMessages
        /\ committed[p] \in 0..(MaxMessages + 1) /\ committed[p] <= Len(log[p]) + 1
    BY <1>0 DEF Inv, TypeOK, WithinLog
  <2>2. CASE committed[p] = 0
    <3>1. position'[p] = Len(log[p]) + 1
      BY <1>1, <2>2 DEF Resume
    <3>2. \A o \in 1..Len(log[p]) : <<p, o>> \in skipped'
      BY <1>0, <1>1, <2>1, <2>2 DEF Messages
    <3> QED
      BY <1>0, <2>1, <3>1, <3>2
  <2>3. CASE committed[p] # 0
    <3>1. position'[p] = committed[p]
      BY <1>1, <2>3 DEF Resume
    <3> QED
      BY <1>0, <1>2, <2>1, <2>3, <3>1 DEF Inv, LostOnlyIfSkipped
  <2> QED
    BY <2>2, <2>3
<1>4. TypeOK'
  <2>1. position' \in [Partitions -> 1..(MaxMessages + 1)]
    BY <1>1, <1>3
  <2>2. restarts' \in 0..MaxRestarts
    BY <1>0, <1>1 DEF TypeOK
  <2> QED
    BY <1>0, <1>1, <1>2, <2>1, <2>2 DEF TypeOK
<1>5. WithinLog'
  BY <1>1, <1>3 DEF Inv, WithinLog
<1>6. BatchOfEvents' /\ BatchHasNoHoles'
  <2>1. BatchOfEvents'
    BY <1>2, Zenon DEF Inv, BatchOfEvents
  <2>2. ASSUME NEW m \in Members, NEW x \in Collected(m)', NEW o \in 1..(x[2] - 1),
               IsEvent(x[1], o)'
        PROVE  <<x[1], o>> \in durable' \cup skipped' \cup Collected(m)'
    <3>1. x \in Collected(m) /\ Collected(m)' = Collected(m)
      BY <2>2
    <3>2. <<x[1], o>> \in durable \cup skipped \cup Collected(m)
      BY <1>2, <2>2, <3>1 DEF Inv, BatchHasNoHoles
    <3> QED
      BY <1>1, <1>2, <3>1, <3>2
  <2>3. BatchHasNoHoles'
    BY <2>2 DEF BatchHasNoHoles
  <2> QED
    BY <2>1, <2>3
<1>7. LostOnlyIfSkipped'
  BY <1>1, <1>2 DEF Inv, LostOnlyIfSkipped
<1>8. HandedOutIsHeld'
  BY <1>1, <1>2, <1>3 DEF HandedOutIsHeld
<1> QED
  BY <1>4, <1>5, <1>6, <1>7, <1>8 DEF Inv

\* Every step keeps the invariant.
LEMMA InvStep == Inv /\ [Next]_vars => Inv'
<1> SUFFICES ASSUME Inv, [Next]_vars PROVE Inv'
  OBVIOUS
<1>1. ASSUME NEW p \in Partitions, CreateEvent(p) \/ PublishMalformed(p) PROVE Inv'
  BY <1>1, PublishInv DEF CreateEvent, PublishMalformed
<1>2. ASSUME NEW m \in Members, Step(m) PROVE Inv'
  BY <1>2, CollectEventInv, CollectMalformedInv, BeginBatchInv, InitializeNextInv,
     ProcessBatchReturnsInv, CommitMessagesInv DEF Step
<1>3. ASSUME NEW m \in Members, ProcessBatchFails(m) \/ CommitFails(m) PROVE Inv'
  BY <1>3, ProcessBatchFailsInv, CommitFailsInv
<1>4. ASSUME NEW m \in Members, StopOrCrash(m) PROVE Inv'
  <2>0. TypeOK
    BY DEF Inv
  <2>1. /\ Reassign
        /\ pc' = [pc EXCEPT ![m] = "collect"]
        /\ batch' = [batch EXCEPT ![m] = <<>>]
        /\ todo' = [todo EXCEPT ![m] = <<>>]
    BY <1>4 DEF StopOrCrash
  <2>2. /\ batch' \in [Members -> Seq(Messages)]
        /\ Collected(m)' = {}
        /\ \A k \in Members \ {m} : Collected(k)' = Collected(k)
    BY <2>0, <2>1, CollectedEmpty, Zenon
  <2>3. /\ pc' \in [Members -> {"collect", "init", "deliver", "commit"}]
        /\ todo' \in [Members -> Seq(Messages)]
        /\ pc'[m] = "collect"
        /\ \A k \in Members \ {m} : pc'[k] = pc[k] /\ Remaining(k)' = Remaining(k)
    BY <2>0, <2>1 DEF TypeOK, Remaining
  <2>4. ProgressIsDurable'
    BY <2>1, <2>2, <2>3 DEF Inv, ProgressIsDurable, Reassign
  <2> QED
    BY <2>1, <2>2, <2>3, <2>4, ReassignInv
<1>5. CASE Rebalance
  <2>1. Reassign /\ UNCHANGED <<pc, batch, todo>> /\ durable' = durable
    BY <1>5 DEF Rebalance, Reassign
  <2>2. \A k : Collected(k)' = Collected(k) /\ Remaining(k)' = Remaining(k)
    BY <2>1 DEF Collected, Remaining
  <2>3. ProgressIsDurable'
    BY <2>1, <2>2 DEF Inv, ProgressIsDurable
  <2> QED
    BY <2>1, <2>2, <2>3, ReassignInv DEF Inv, TypeOK
<1>6. CASE UNCHANGED vars
  <2>1. TypeOK'
    BY <1>6 DEF Inv, TypeOK, vars
  <2>2. ProgressIsDurable'
    BY <1>6 DEF Inv, ProgressIsDurable, Collected, Remaining, vars
  <2> QED
    BY <1>6, <2>1, <2>2, ProcessFrame DEF vars
<1> QED
  BY <1>1, <1>2, <1>3, <1>4, <1>5, <1>6 DEF Next

-----------------------------------------------------------------------------

\* The inductive invariant.
THEOREM Invariance == Spec => []Inv
BY InitInv, InvStep, PTL DEF Spec

\* Offsets, positions and batches stay within their types; in particular no
\* order of commits moves an offset beyond the log.
THEOREM TypeCorrect == Spec => []TypeOK
<1>1. Inv => TypeOK
  BY DEF Inv
<1> QED
  BY <1>1, Invariance, PTL

\* Whatever crashes, rebalances, late and failed commits happen, the committed
\* offsets pass over no event that is neither stored nor skipped in one of the
\* three known ways.
THEOREM LostOnlyKnownWays == Spec => []LostOnlyIfSkipped
<1>1. Inv => LostOnlyIfSkipped
  BY DEF Inv
<1> QED
  BY <1>1, Invariance, PTL

\* An event that was handed out and not stored or skipped is in the batch of
\* the member its partition is assigned to.
THEOREM HandedOutHeld == Spec => []HandedOutIsHeld
<1>1. Inv => HandedOutIsHeld
  BY DEF Inv
<1> QED
  BY <1>1, Invariance, PTL

-----------------------------------------------------------------------------
(* Where none of the three known ways exists, nothing is lost.             *)

\* Batches do not fail, every message unmarshals, and every partition has a
\* committed offset from the start.
NothingToSkip == ~ BatchErrors /\ "malformed" \notin Kinds /\ ~ GroupIsNew

NothingSkipped == skipped = {} /\ \A p \in Partitions : committed[p] # 0

\* Under these circumstances nothing is ever skipped.
LEMMA NothingSkippedStep ==
    ASSUME NothingToSkip, Inv, Inv', NothingSkipped, [Next]_vars
    PROVE  NothingSkipped'
<1>0. TypeOK /\ MaxMessages \in Nat
  BY ConsumerAssumption DEF Inv
<1>1. ASSUME NEW p \in Partitions, CreateEvent(p) \/ PublishMalformed(p) PROVE NothingSkipped'
  BY <1>1 DEF CreateEvent, PublishMalformed, Publish, NothingSkipped
<1>2. ASSUME NEW m \in Members, NEW p \in Partitions, CollectEvent(m, p) PROVE NothingSkipped'
  BY <1>2 DEF CollectEvent, NothingSkipped
<1>3. ASSUME NEW m \in Members, NEW p \in Partitions, CollectMalformed(m, p) PROVE FALSE
  <2>1. position[p] \in 1..Len(log[p]) /\ log[p][position[p]] = "malformed"
    BY <1>0, <1>3 DEF CollectMalformed, Fetch, TypeOK
  <2>2. log[p][position[p]] \in Kinds
    BY <1>0, <2>1 DEF TypeOK
  <2> QED
    BY <2>1, <2>2 DEF NothingToSkip
<1>4. ASSUME NEW m \in Members, BeginBatch(m) \/ InitializeNext(m) \/ ProcessBatchReturns(m)
                                 \/ CommitFails(m)
      PROVE  NothingSkipped'
  BY <1>4 DEF BeginBatch, InitializeNext, ProcessBatchReturns, CommitFails, NothingSkipped
<1>5. ASSUME NEW m \in Members, CommitMessages(m) PROVE NothingSkipped'
  <2>1. \A p \in Partitions : Offsets(m, p) # {} => Max(Offsets(m, p)) \in 1..MaxMessages
    BY <1>0, OffsetsMax, Zenon
  <2>2. \A i \in 1..MaxMessages : i + 1 # 0
    BY <1>0
  <2> QED
    BY <1>5, <2>1, <2>2 DEF CommitMessages, NothingSkipped
<1>6. ASSUME NEW m \in Members, ProcessBatchFails(m) PROVE FALSE
  BY <1>6 DEF ProcessBatchFails, NothingToSkip
<1>7. ASSUME Reassign PROVE NothingSkipped'
  <2>1. {x \in Messages : committed[x[1]] = 0 /\ x[2] <= Len(log[x[1]])} = {}
    BY DEF NothingSkipped, Messages
  <2> QED
    BY <1>7, <2>1 DEF Reassign, NothingSkipped
<1>8. CASE UNCHANGED vars
  BY <1>8 DEF NothingSkipped, vars
<1> QED
  BY <1>1, <1>2, <1>3, <1>4, <1>5, <1>6, <1>7, <1>8 DEF Next, Step, StopOrCrash, Rebalance

\* "Manual offset commits after successful database writes, ensuring no events
\* are lost": true of a group in which batches do not fail, messages unmarshal
\* and partitions have a committed offset, whatever else goes wrong: crashes,
\* rebalances with batches in flight, commits that fail or come late.
THEOREM NothingLost == NothingToSkip => (Spec => []CommittedIsDurable)
<1> SUFFICES ASSUME NothingToSkip PROVE Spec => []CommittedIsDurable
  OBVIOUS
<1>1. Init => NothingSkipped
  BY DEF NothingToSkip, Init, NothingSkipped
<1>2. Inv /\ Inv' /\ NothingSkipped /\ [Next]_vars => NothingSkipped'
  BY NothingSkippedStep
<1>3. Inv /\ NothingSkipped => CommittedIsDurable
  BY DEF Inv, LostOnlyIfSkipped, NothingSkipped, CommittedIsDurable
<1> QED
  BY <1>1, <1>2, <1>3, Invariance, PTL DEF Spec
=============================================================================
