-------------------------- MODULE DeliveryLifecycle --------------------------
(***************************************************************************)
(* What the delivery runtime promises about each delivery, without         *)
(* workers, leases with deadlines, transactions or clocks: a delivery is   *)
(* created once, taken for an attempt any number of times, every recorded  *)
(* attempt is the next one of its generation and is recorded from a taken  *)
(* delivery, a delivered delivery was accepted by its receiver, and only a *)
(* failed one is opened again, as a new generation.  DeliveryRefinement    *)
(* shows that the runtime implements this.                                 *)
(***************************************************************************)
EXTENDS Integers, Sequences, TLAPS

CONSTANTS
    Deliveries,   \* delivery identifiers
    Budget        \* attempts per generation

VARIABLES
    phase,        \* "absent", "open", "taken", "delivered" or "failed"
    generation,   \* 0 while absent, then counted from 1
    tries,        \* attempts recorded in the current generation
    log,          \* every attempt ever recorded, in order
    accepted      \* <<delivery, generation>> a receiver accepted

lifecycle == <<phase, generation, tries, log, accepted>>

Phases == {"absent", "open", "taken", "delivered", "failed"}

Entries == [generation : Nat \ {0}, number : Nat \ {0}]

Init ==
    /\ phase = [d \in Deliveries |-> "absent"]
    /\ generation = [d \in Deliveries |-> 0]
    /\ tries = [d \in Deliveries |-> 0]
    /\ log = [d \in Deliveries |-> <<>>]
    /\ accepted = {}

\* The deliveries of an event are created together.
Create(D) ==
    /\ \A d \in D : phase[d] = "absent"
    /\ phase' = [d \in Deliveries |-> IF d \in D THEN "open" ELSE phase[d]]
    /\ generation' = [d \in Deliveries |-> IF d \in D THEN 1 ELSE generation[d]]
    /\ UNCHANGED <<tries, log, accepted>>

\* Deliveries are taken for an attempt; one taken before can be taken over.
Take(D) ==
    /\ \A d \in D : phase[d] \in {"open", "taken"}
    /\ phase' = [d \in Deliveries |-> IF d \in D THEN "taken" ELSE phase[d]]
    /\ UNCHANGED <<generation, tries, log, accepted>>

\* A receiver accepts the event, possibly again, possibly for a generation
\* that is no longer the current one.
Accept(d, g) ==
    /\ g \in 1..generation[d]
    /\ accepted' = accepted \cup {<<d, g>>}
    /\ UNCHANGED <<phase, generation, tries, log>>

\* The result of an attempt is recorded.  It leaves the delivery open only
\* if the budget allows a further attempt.
Record(d, p) ==
    /\ phase[d] = "taken"
    /\ p \in {"open", "delivered", "failed"}
    /\ p = "open" => tries[d] + 1 < Budget
    /\ p = "delivered" => <<d, generation[d]>> \in accepted
    /\ phase' = [phase EXCEPT ![d] = p]
    /\ tries' = [tries EXCEPT ![d] = @ + 1]
    /\ log' = [log EXCEPT ![d] =
                 Append(@, [generation |-> generation[d], number |-> tries[d] + 1])]
    /\ UNCHANGED <<generation, accepted>>

\* The rate limiter denied the call: no attempt was made.
Postpone(d) ==
    /\ phase[d] = "taken"
    /\ phase' = [phase EXCEPT ![d] = "open"]
    /\ UNCHANGED <<generation, tries, log, accepted>>

Replay(d) ==
    /\ phase[d] = "failed"
    /\ phase' = [phase EXCEPT ![d] = "open"]
    /\ generation' = [generation EXCEPT ![d] = @ + 1]
    /\ tries' = [tries EXCEPT ![d] = 0]
    /\ UNCHANGED <<log, accepted>>

Next ==
    \/ \E D \in SUBSET Deliveries : Create(D) \/ Take(D)
    \/ \E d \in Deliveries :
         \/ \E g \in 1..generation[d] : Accept(d, g)
         \/ \E p \in {"open", "delivered", "failed"} : Record(d, p)
         \/ Postpone(d)
         \/ Replay(d)

Spec == Init /\ [][Next]_lifecycle

-----------------------------------------------------------------------------
(* What follows from the lifecycle alone. *)

TypeOK ==
    /\ phase \in [Deliveries -> Phases]
    /\ generation \in [Deliveries -> Nat]
    /\ tries \in [Deliveries -> Nat]
    /\ log \in [Deliveries -> Seq(Entries)]
    /\ \A d \in Deliveries : phase[d] = "absent" <=> generation[d] = 0
    /\ \A d \in Deliveries : phase[d] = "absent" => log[d] = <<>> /\ tries[d] = 0

Earlier(a, b) ==
    \/ a.generation < b.generation
    \/ a.generation = b.generation /\ a.number < b.number

\* The attempts of the current generation are 1, 2, ..., tries, and the log
\* is strictly increasing by (generation, number).
History(d) ==
    /\ \A i, j \in 1..Len(log[d]) : i < j => Earlier(log[d][i], log[d][j])
    /\ \A i \in 1..Len(log[d]) :
         /\ log[d][i].generation <= generation[d]
         /\ log[d][i].generation = generation[d] => log[d][i].number <= tries[d]
    /\ \A n \in 1..tries[d] :
         \E i \in 1..Len(log[d]) : log[d][i].generation = generation[d] /\ log[d][i].number = n

HistoryExact == \A d \in Deliveries : History(d)

\* A delivered delivery was accepted by its receiver in its generation.
DeliveredAccepted ==
    \A d \in Deliveries : phase[d] = "delivered" => <<d, generation[d]>> \in accepted

\* No generation records more than Budget attempts, and a delivery that is
\* neither delivered nor failed has one left.
WithinBudget ==
    \A d \in Deliveries :
        /\ tries[d] <= Budget
        /\ phase[d] \in {"open", "taken"} => tries[d] < Budget
        /\ \A i \in 1..Len(log[d]) : log[d][i].number <= Budget

\* The lifecycle keeps its types.
LEMMA LifecycleTypes == TypeOK /\ [Next]_lifecycle => TypeOK'
<1> SUFFICES ASSUME TypeOK, [Next]_lifecycle PROVE TypeOK'
  OBVIOUS
<1> USE DEF TypeOK, Phases
<1>1. ASSUME NEW D \in SUBSET Deliveries, Create(D) PROVE TypeOK'
  BY <1>1 DEF Create
<1>2. ASSUME NEW D \in SUBSET Deliveries, Take(D) PROVE TypeOK'
  BY <1>2, Zenon DEF Take
<1>3. ASSUME NEW d \in Deliveries, NEW g, Accept(d, g) PROVE TypeOK'
  BY <1>3 DEF Accept
<1>4. ASSUME NEW d \in Deliveries, NEW p, Record(d, p) PROVE TypeOK'
  <2>1. generation[d] \in Nat \ {0} /\ tries[d] + 1 \in Nat \ {0}
    BY <1>4 DEF Record
  <2>2. [generation |-> generation[d], number |-> tries[d] + 1] \in Entries
    BY <2>1 DEF Entries
  <2> QED
    BY <1>4, <2>1, <2>2 DEF Record
<1>5. ASSUME NEW d \in Deliveries, Postpone(d) PROVE TypeOK'
  BY <1>5 DEF Postpone
<1>6. ASSUME NEW d \in Deliveries, Replay(d) PROVE TypeOK'
  BY <1>6 DEF Replay
<1>7. CASE UNCHANGED lifecycle
  BY <1>7 DEF lifecycle
<1> QED
  BY <1>1, <1>2, <1>3, <1>4, <1>5, <1>6, <1>7 DEF Next

\* The fields of a log entry are natural numbers.
LEMMA EntryType ==
    ASSUME TypeOK, NEW d \in Deliveries, NEW i \in 1..Len(log[d])
    PROVE  log[d][i].generation \in Nat /\ log[d][i].number \in Nat
<1>1. log[d] \in Seq(Entries)
  BY DEF TypeOK
<1>2. log[d][i] \in Entries
  BY <1>1
<1> QED
  BY <1>2 DEF Entries

\* Recording an attempt extends an exact history by the next attempt.
LEMMA HistoryRecord ==
    ASSUME TypeOK, HistoryExact, NEW d \in Deliveries, NEW p, Record(d, p)
    PROVE  History(d)'
<1> DEFINE h == log[d]
           x == [generation |-> generation[d], number |-> tries[d] + 1]
<1>1. /\ h \in Seq(Entries) /\ generation[d] \in Nat /\ tries[d] \in Nat
      /\ log'[d] = Append(h, x) /\ tries'[d] = tries[d] + 1 /\ generation'[d] = generation[d]
  BY DEF TypeOK, Record
<1>2. /\ Len(Append(h, x)) = Len(h) + 1 /\ Len(h) \in Nat
      /\ \A i \in 1..Len(h) : Append(h, x)[i] = h[i]
      /\ Append(h, x)[Len(h) + 1] = x
  BY <1>1
<1>3. x.generation = generation[d] /\ x.number = tries[d] + 1
  OBVIOUS
<1>4. History(d)
  BY DEF HistoryExact
<1>5. \A i \in 1..Len(h) : Earlier(h[i], x)
  BY <1>1, <1>3, <1>4, EntryType DEF History, Earlier
<1> HIDE DEF x
<1>6. \A i, j \in 1..Len(h) + 1 : i < j => Earlier(Append(h, x)[i], Append(h, x)[j])
  <2> SUFFICES ASSUME NEW i \in 1..Len(h) + 1, NEW j \in 1..Len(h) + 1, i < j
               PROVE  Earlier(Append(h, x)[i], Append(h, x)[j])
    OBVIOUS
  <2>1. i \in 1..Len(h) /\ (j \in 1..Len(h) \/ j = Len(h) + 1)
    BY <1>2
  <2>2. Earlier(h[i], h[j]) \/ j = Len(h) + 1
    BY <1>4, <2>1 DEF History
  <2> QED
    BY <1>2, <1>5, <2>1, <2>2
<1>7. \A i \in 1..Len(h) + 1 :
        /\ Append(h, x)[i].generation <= generation[d]
        /\ Append(h, x)[i].generation = generation[d] => Append(h, x)[i].number <= tries[d] + 1
  <2> SUFFICES ASSUME NEW i \in 1..Len(h) + 1
               PROVE  /\ Append(h, x)[i].generation <= generation[d]
                      /\ Append(h, x)[i].generation = generation[d]
                           => Append(h, x)[i].number <= tries[d] + 1
    OBVIOUS
  <2>1. CASE i \in 1..Len(h)
    BY <1>1, <1>2, <1>4, <2>1, EntryType DEF History
  <2>2. CASE i = Len(h) + 1
    BY <1>1, <1>2, <1>3, <2>2
  <2> QED
    BY <1>2, <2>1, <2>2
<1>8. \A n \in 1..tries[d] + 1 : \E i \in 1..Len(h) + 1 :
        Append(h, x)[i].generation = generation[d] /\ Append(h, x)[i].number = n
  <2> SUFFICES ASSUME NEW n \in 1..tries[d] + 1
               PROVE  \E i \in 1..Len(h) + 1 :
                        Append(h, x)[i].generation = generation[d] /\ Append(h, x)[i].number = n
    OBVIOUS
  <2>1. CASE n \in 1..tries[d]
    <3>1. PICK i \in 1..Len(h) : h[i].generation = generation[d] /\ h[i].number = n
      BY <1>4, <2>1 DEF History
    <3>2. i \in 1..Len(h) + 1
      BY <1>2
    <3> QED
      BY <1>2, <3>1, <3>2
  <2>2. CASE n = tries[d] + 1
    <3>1. Len(h) + 1 \in 1..Len(h) + 1
      BY <1>2
    <3> QED
      BY <1>2, <1>3, <2>2, <3>1
  <2> QED
    BY <1>1, <2>1, <2>2
<1> QED
  BY <1>1, <1>2, <1>6, <1>7, <1>8, Zenon DEF History

\* Every step keeps the histories exact.
LEMMA HistoryStep == TypeOK /\ HistoryExact /\ [Next]_lifecycle => HistoryExact'
<1> SUFFICES ASSUME TypeOK, HistoryExact, [Next]_lifecycle, NEW x \in Deliveries
             PROVE  History(x)'
  BY DEF HistoryExact
<1>0. History(x)
  BY DEF HistoryExact
<1>1. ASSUME log'[x] = log[x], generation'[x] = generation[x], tries'[x] = tries[x]
      PROVE  History(x)'
  BY <1>0, <1>1 DEF History
<1>2. ASSUME NEW D \in SUBSET Deliveries, Create(D) PROVE History(x)'
  <2>1. CASE x \in D
    <3>1. log'[x] = <<>> /\ tries'[x] = 0
      BY <1>2, <2>1 DEF Create, TypeOK
    <3> QED
      BY <3>1 DEF History
  <2>2. CASE x \notin D
    BY <1>1, <1>2, <2>2 DEF Create, TypeOK
  <2> QED
    BY <2>1, <2>2
<1>3. ASSUME NEW D \in SUBSET Deliveries, Take(D) PROVE History(x)'
  BY <1>1, <1>3 DEF Take
<1>4. ASSUME NEW d \in Deliveries, NEW g, Accept(d, g) PROVE History(x)'
  BY <1>1, <1>4 DEF Accept
<1>5. ASSUME NEW d \in Deliveries, NEW p, Record(d, p) PROVE History(x)'
  <2>1. CASE x = d
    BY <1>5, <2>1, HistoryRecord
  <2>2. CASE x # d
    BY <1>1, <1>5, <2>2 DEF Record, TypeOK
  <2> QED
    BY <2>1, <2>2
<1>6. ASSUME NEW d \in Deliveries, Postpone(d) PROVE History(x)'
  BY <1>1, <1>6 DEF Postpone
<1>7. ASSUME NEW d \in Deliveries, Replay(d) PROVE History(x)'
  <2>1. CASE x = d
    <3>1. log'[x] = log[x] /\ tries'[x] = 0 /\ generation'[x] = generation[x] + 1
      BY <1>7, <2>1 DEF Replay, TypeOK
    <3>2. generation[x] \in Nat
      BY DEF TypeOK
    <3>3. \A i \in 1..Len(log[x]) :
            /\ log[x][i].generation <= generation[x] + 1
            /\ log[x][i].generation # generation[x] + 1
      BY <1>0, <3>2, EntryType DEF History
    <3> QED
      BY <1>0, <3>1, <3>3 DEF History
  <2>2. CASE x # d
    BY <1>1, <1>7, <2>2 DEF Replay, TypeOK
  <2> QED
    BY <2>1, <2>2
<1>8. CASE UNCHANGED lifecycle
  BY <1>1, <1>8 DEF lifecycle
<1> QED
  BY <1>2, <1>3, <1>4, <1>5, <1>6, <1>7, <1>8 DEF Next

\* In the lifecycle the history of every delivery is exact: no attempt is
\* missing, recorded twice or recorded out of order.
THEOREM LifecycleHistory == Spec => []HistoryExact
<1>1. Init => TypeOK /\ HistoryExact
  BY DEF Init, TypeOK, HistoryExact, History, Phases
<1>2. TypeOK /\ HistoryExact /\ [Next]_lifecycle => TypeOK' /\ HistoryExact'
  BY LifecycleTypes, HistoryStep
<1> QED
  BY <1>1, <1>2, PTL DEF Spec

\* In the lifecycle a delivered delivery was accepted by its receiver.
THEOREM LifecycleAccepted == Spec => []DeliveredAccepted
<1>1. Init => TypeOK /\ DeliveredAccepted
  BY DEF Init, TypeOK, DeliveredAccepted, Phases
<1>2. TypeOK /\ DeliveredAccepted /\ [Next]_lifecycle => DeliveredAccepted'
  BY Zenon DEF TypeOK, DeliveredAccepted, Next, Create, Take, Accept, Record, Postpone, Replay, lifecycle
<1> QED
  BY <1>1, <1>2, LifecycleTypes, PTL DEF Spec

\* In the lifecycle no generation exceeds its budget, provided the budget
\* allows an attempt at all: Record leaves a delivery open only below it.
THEOREM LifecycleBudget == Budget \in Nat \ {0} => (Spec => []WithinBudget)
<1> SUFFICES ASSUME Budget \in Nat \ {0} PROVE Spec => []WithinBudget
  OBVIOUS
<1>1. Init => TypeOK /\ WithinBudget
  BY DEF Init, TypeOK, WithinBudget, Phases
<1>2. TypeOK /\ WithinBudget /\ [Next]_lifecycle => WithinBudget'
  <2> SUFFICES ASSUME TypeOK, WithinBudget, [Next]_lifecycle PROVE WithinBudget'
    OBVIOUS
  <2>1. ASSUME NEW d \in Deliveries, NEW p, Record(d, p) PROVE WithinBudget'
    <3>1. /\ tries[d] \in Nat /\ tries[d] < Budget /\ log[d] \in Seq(Entries)
          /\ tries'[d] = tries[d] + 1
          /\ log'[d] = Append(log[d], [generation |-> generation[d], number |-> tries[d] + 1])
          /\ phase'[d] = p /\ (p = "open" => tries[d] + 1 < Budget) /\ p # "taken"
      BY <2>1 DEF Record, TypeOK, WithinBudget
    <3>2. tries'[d] <= Budget /\ (phase'[d] \in {"open", "taken"} => tries'[d] < Budget)
      BY <3>1
    <3>3. \A i \in 1..Len(log'[d]) : log'[d][i].number <= Budget
      <4> SUFFICES ASSUME NEW i \in 1..Len(log'[d]) PROVE log'[d][i].number <= Budget
        OBVIOUS
      <4>1. CASE i \in 1..Len(log[d])
        BY <3>1, <4>1 DEF WithinBudget
      <4>2. CASE i = Len(log[d]) + 1
        BY <3>1, <3>2, <4>2
      <4> QED
        BY <3>1, <4>1, <4>2
    <3>4. \A x \in Deliveries \ {d} :
            tries'[x] = tries[x] /\ phase'[x] = phase[x] /\ log'[x] = log[x]
      BY <2>1 DEF Record, TypeOK
    <3> QED
      BY <3>2, <3>3, <3>4 DEF WithinBudget
  <2>2. ASSUME NEW D \in SUBSET Deliveries, Create(D) \/ Take(D) PROVE WithinBudget'
    BY <2>2 DEF Create, Take, TypeOK, WithinBudget
  <2>3. ASSUME NEW d \in Deliveries, Postpone(d) \/ Replay(d) PROVE WithinBudget'
    BY <2>3 DEF Postpone, Replay, TypeOK, WithinBudget
  <2>4. ASSUME NEW d \in Deliveries, NEW g, Accept(d, g) PROVE WithinBudget'
    BY <2>4 DEF Accept, WithinBudget
  <2>5. CASE UNCHANGED lifecycle
    BY <2>5 DEF lifecycle, WithinBudget
  <2> QED
    BY <2>1, <2>2, <2>3, <2>4, <2>5 DEF Next
<1> QED
  BY <1>1, <1>2, LifecycleTypes, PTL DEF Spec
=============================================================================
