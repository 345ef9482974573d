---------------------------- MODULE KafkaConsumer ----------------------------
(***************************************************************************)
(* The consumers of internal/kafka/consumer.go: a group of members reads   *)
(* the partitions of one topic, collects batches, hands them to            *)
(* ProcessBatch and commits offsets by hand.  Of ProcessBatch only what    *)
(* matters here is kept: which messages have had their event and delivery  *)
(* rows committed to PostgreSQL when it returns, and whether it fails.     *)
(*                                                                         *)
(* The broker and the client library are external.  What the code relies   *)
(* on: a reader hands out the messages of a partition in order and never   *)
(* goes back by itself; a committed offset covers everything before it;    *)
(* after a rebalance or a restart a partition is read from its committed   *)
(* offset, or from the end of the log if it has none (StartOffset:         *)
(* kafka.LastOffset).                                                      *)
(***************************************************************************)
EXTENDS Integers, Sequences, FiniteSets, FiniteSetsExt

CONSTANTS
    Partitions,
    Members,         \* consumer processes of the group
    Kinds,           \* kinds of published messages: "event", "malformed"
    GroupIsNew,      \* TRUE: partitions may lack a committed offset
    MaxMessages,     \* bound on the messages of a partition
    BatchErrors,     \* TRUE: ProcessBatch may return an error
    MaxRestarts      \* bound on crashes and rebalances

ASSUME ConsumerAssumption ==
    /\ Kinds \subseteq {"event", "malformed"}
    /\ GroupIsNew \in BOOLEAN
    /\ BatchErrors \in BOOLEAN
    /\ {MaxMessages, MaxRestarts} \subseteq Nat

VARIABLES
    log,         \* the partitions: sequences of kinds, offsets from 1
    committed,   \* broker: the next offset to read, 0 if never committed
    assigned,    \* the member each partition is assigned to
    position,    \* reader: the next offset it will fetch
    pc,          \* member: "collect", "init", "deliver" or "commit"
    batch,       \* member: collected messages <<partition, offset>>, in order
    todo,        \* member: those of them not yet initialised
    durable,     \* messages whose event and delivery rows are in PostgreSQL
    skipped,     \* history: messages a commit or a restart may pass over
    restarts     \* crashes and rebalances so far

vars == <<log, committed, assigned, position, pc, batch, todo, durable, skipped, restarts>>

Messages == Partitions \X (1..MaxMessages)

\* The types of the broker's, the readers' and the members' state.
TypeOK ==
    /\ log \in [Partitions -> Seq(Kinds)]
    /\ committed \in [Partitions -> 0..(MaxMessages + 1)]
    /\ assigned \in [Partitions -> Members]
    /\ position \in [Partitions -> 1..(MaxMessages + 1)]
    /\ pc \in [Members -> {"collect", "init", "deliver", "commit"}]
    /\ batch \in [Members -> Seq(Messages)]
    /\ todo \in [Members -> Seq(Messages)]
    /\ durable \subseteq Messages
    /\ skipped \subseteq Messages
    /\ restarts \in 0..MaxRestarts

Init ==
    /\ log = [p \in Partitions |-> <<>>]
    /\ committed \in [Partitions -> IF GroupIsNew THEN {0, 1} ELSE {1}]
    /\ assigned \in [Partitions -> Members]
    /\ position = [p \in Partitions |-> 1]
    /\ pc = [m \in Members |-> "collect"]
    /\ batch = [m \in Members |-> <<>>]
    /\ todo = [m \in Members |-> <<>>]
    /\ durable = {}
    /\ skipped = {}
    /\ restarts = 0

-----------------------------------------------------------------------------

Collected(m) == {batch[m][i] : i \in DOMAIN batch[m]}

Publish(p, kind) ==
    /\ kind \in Kinds
    /\ Len(log[p]) < MaxMessages
    /\ log' = [log EXCEPT ![p] = Append(@, kind)]
    /\ UNCHANGED <<committed, assigned, position, pc, batch, todo, durable, skipped, restarts>>

\* POST /events: a request that passes validation is published.  A rejected
\* request publishes nothing; one whose publication fails may have reached the
\* log or not.
CreateEvent(p) == Publish(p, "event")

\* Some other producer writes what does not unmarshal into an EventMessage.
PublishMalformed(p) == Publish(p, "malformed")

Fetch(m, p) ==
    /\ pc[m] = "collect"
    /\ assigned[p] = m
    /\ position[p] <= Len(log[p])
    /\ position' = [position EXCEPT ![p] = @ + 1]

CollectEvent(m, p) ==
    /\ Fetch(m, p)
    /\ log[p][position[p]] = "event"
    /\ batch' = [batch EXCEPT ![m] = Append(@, <<p, position[p]>>)]
    /\ UNCHANGED <<log, committed, assigned, pc, todo, durable, skipped, restarts>>

\* "Commit bad message to avoid blocking": at once, before the batch.
CollectMalformed(m, p) ==
    /\ Fetch(m, p)
    /\ log[p][position[p]] = "malformed"
    /\ \/ /\ committed' = [committed EXCEPT ![p] = position[p] + 1]
          /\ skipped' = skipped \cup {x \in Collected(m) : x[1] = p}
       \/ UNCHANGED <<committed, skipped>>     \* the commit fails; only logged
    /\ UNCHANGED <<log, assigned, pc, batch, todo, durable, restarts>>

\* collectBatch times out with a non-empty batch: ProcessBatch begins.
BeginBatch(m) ==
    /\ pc[m] = "collect"
    /\ batch[m] # <<>>
    /\ pc' = [pc EXCEPT ![m] = "init"]
    /\ todo' = [todo EXCEPT ![m] = batch[m]]
    /\ UNCHANGED <<log, committed, assigned, position, batch, durable, skipped, restarts>>

\* Faulty variant: only the first message of a batch is initialised.
InitializeFirstOnly(m) ==
    /\ pc[m] = "init"
    /\ todo[m] # <<>>
    /\ durable' = durable \cup {Head(todo[m])}
    /\ todo' = [todo EXCEPT ![m] = <<>>]
    /\ pc' = [pc EXCEPT ![m] = "deliver"]
    /\ UNCHANGED <<log, committed, assigned, position, batch, skipped, restarts>>

\* ProcessBatch initialises the messages in order, one transaction each.
InitializeNext(m) ==
    /\ pc[m] = "init"
    /\ todo[m] # <<>>
    /\ durable' = durable \cup {Head(todo[m])}
    /\ todo' = [todo EXCEPT ![m] = Tail(@)]
    /\ pc' = [pc EXCEPT ![m] = IF Tail(todo[m]) = <<>> THEN "deliver" ELSE "init"]
    /\ UNCHANGED <<log, committed, assigned, position, batch, skipped, restarts>>

\* Claiming, delivering and persisting all went well.
ProcessBatchReturns(m) ==
    /\ pc[m] = "deliver"
    /\ pc' = [pc EXCEPT ![m] = "commit"]
    /\ UNCHANGED <<log, committed, assigned, position, batch, todo, durable, skipped, restarts>>

\* The batch is over; the member collects the next one.  The reader stays
\* where it is.
EndBatch(m) ==
    /\ pc' = [pc EXCEPT ![m] = "collect"]
    /\ batch' = [batch EXCEPT ![m] = <<>>]
    /\ todo' = [todo EXCEPT ![m] = <<>>]
    /\ UNCHANGED <<log, assigned, position, durable, restarts>>

\* ProcessBatch returns an error: loading subscriptions, initialising,
\* claiming or persisting failed.  Nothing is committed.
ProcessBatchFails(m) ==
    /\ pc[m] \in {"init", "deliver"}
    /\ BatchErrors
    /\ skipped' = skipped \cup Collected(m)
    /\ EndBatch(m)
    /\ UNCHANGED committed

\* The offsets the batch covers in partition p.
Offsets(m, p) == {x[2] : x \in {y \in Collected(m) : y[1] = p}}

\* Faulty variant: one offset too many is committed.
CommitMessagesOneMore(m) ==
    /\ pc[m] = "commit"
    /\ committed' = [p \in Partitions |->
                       IF Offsets(m, p) = {} THEN committed[p] ELSE Max(Offsets(m, p)) + 2]
    /\ EndBatch(m)
    /\ UNCHANGED skipped

CommitMessages(m) ==
    /\ pc[m] = "commit"
    /\ committed' = [p \in Partitions |->
                       IF Offsets(m, p) = {} THEN committed[p] ELSE Max(Offsets(m, p)) + 1]
    /\ EndBatch(m)
    /\ UNCHANGED skipped

\* The commit fails or times out; the error is only logged.
CommitFails(m) ==
    /\ pc[m] = "commit"
    /\ EndBatch(m)
    /\ UNCHANGED <<committed, skipped>>

-----------------------------------------------------------------------------
(* Rebalance: partitions are assigned anew and read from the committed     *)
(* offsets; members keep the batches they are working on.                  *)

Resume(p) == IF committed[p] = 0 THEN Len(log[p]) + 1 ELSE committed[p]

Reassign ==
    /\ restarts < MaxRestarts
    /\ restarts' = restarts + 1
    /\ assigned' \in [Partitions -> Members]
    /\ position' = [p \in Partitions |-> Resume(p)]
    /\ skipped' = skipped \cup {x \in Messages : committed[x[1]] = 0 /\ x[2] <= Len(log[x[1]])}
    /\ UNCHANGED <<log, committed, durable>>

\* A member keeps what it has collected so far, also of partitions it loses.
Rebalance ==
    /\ Reassign
    /\ UNCHANGED <<pc, batch, todo>>

\* A member dies, or is stopped, at any point, and joins again.  Stop waits
\* for the loop and closes the reader; a batch that the cancelled context cuts
\* short is given up without a commit.
StopOrCrash(m) ==
    /\ Reassign
    /\ pc' = [pc EXCEPT ![m] = "collect"]
    /\ batch' = [batch EXCEPT ![m] = <<>>]
    /\ todo' = [todo EXCEPT ![m] = <<>>]

-----------------------------------------------------------------------------

Step(m) ==
    \/ \E p \in Partitions : CollectEvent(m, p) \/ CollectMalformed(m, p)
    \/ BeginBatch(m)
    \/ InitializeNext(m)
    \/ ProcessBatchReturns(m)
    \/ CommitMessages(m)

Next ==
    \/ \E p \in Partitions : CreateEvent(p) \/ PublishMalformed(p)
    \/ \E m \in Members : Step(m) \/ ProcessBatchFails(m) \/ CommitFails(m) \/ StopOrCrash(m)
    \/ Rebalance

Spec == Init /\ [][Next]_vars

\* A member's loop goes on, a batch is closed after its timeout.
Fairness == \A m \in Members : WF_vars(Step(m)) /\ WF_vars(BeginBatch(m))

FairSpec == Spec /\ Fairness

-----------------------------------------------------------------------------

IsEvent(p, o) == o \in 1..Len(log[p]) /\ log[p][o] = "event"

\* No accepted event is lost: every event before the committed offset of its
\* partition has its rows in PostgreSQL ("manual offset commits after
\* successful database writes, ensuring no events are lost").
CommittedIsDurable ==
    \A p \in Partitions : \A o \in 1..(committed[p] - 1) :
        IsEvent(p, o) => <<p, o>> \in durable

\* An event is passed over in three ways only: its batch failed, it was
\* collected before a malformed message that was committed at once, or the
\* group restarted before its first commit.  No order of crashes, rebalances,
\* late commits and failed commits adds another.
LostOnlyIfSkipped ==
    \A p \in Partitions : \A o \in 1..(committed[p] - 1) :
        IsEvent(p, o) => <<p, o>> \in durable \cup skipped

\* Why: any other event that the reader has handed out and that is not yet in
\* PostgreSQL is in the batch of the member its partition is assigned to.
HandedOutIsHeld ==
    \A p \in Partitions : \A o \in 1..(position[p] - 1) :
        IsEvent(p, o) /\ <<p, o>> \notin durable \cup skipped
            => <<p, o>> \in Collected(assigned[p])

\* Every published event is eventually initialised, or was passed over in one
\* of these ways.
EventuallyDurableOrSkipped ==
    \A p \in Partitions, o \in 1..MaxMessages :
        IsEvent(p, o) ~> <<p, o>> \in durable \cup skipped

\* Every published event is eventually initialised ("if we crash before
\* commit, messages will be redelivered").
EventuallyDurable ==
    \A p \in Partitions, o \in 1..MaxMessages :
        IsEvent(p, o) ~> <<p, o>> \in durable
=============================================================================
