------------------------- MODULE DeliveryRefinement --------------------------
(***************************************************************************)
(* The delivery runtime implements the delivery lifecycle.  The lifecycle  *)
(* of a delivery is read off its committed row and its attempt rows: a     *)
(* lease is taken by the claiming UPDATE, an attempt is recorded by the    *)
(* commit of its transaction, and everything workers do in between, what   *)
(* they drop and what they try to persist too late is invisible.           *)
(***************************************************************************)
EXTENDS DeliveryRuntime

PhaseOf(r) ==
    IF      r = Null                THEN "absent"
    ELSE IF r.status = "processing" THEN "taken"
    ELSE IF r.status \in Terminal   THEN r.status
    ELSE "open"

GenerationOf(r) == IF r = Null THEN 0 ELSE r.generation

TriesOf(r) == IF r = Null THEN 0 ELSE r.attempts

Lifecycle == INSTANCE DeliveryLifecycle WITH
    Deliveries <- Ids,
    Budget     <- MaxAttempts,
    phase      <- [d \in Ids |-> PhaseOf(deliveries[d])],
    generation <- [d \in Ids |-> GenerationOf(deliveries[d])],
    tries      <- [d \in Ids |-> TriesOf(deliveries[d])],
    log        <- attempts

\* Every step of the runtime is a step of the delivery lifecycle or invisible
\* to it: no interleaving of claims, takeovers, late outcomes, replays,
\* redeliveries and crashes records an attempt twice or out of order, revives
\* a terminal delivery, or reports a delivery its receiver did not accept.
ImplementsLifecycle == Lifecycle!Spec

-----------------------------------------------------------------------------
(* What the refinement rests on, besides the lease invariant. *)

\* A worker has at most one claim of a row, the row exists, and its
\* generation has not fallen behind the claim's.
ClaimsOfRows ==
    \A w \in Workers : \A c \in claims[w] :
        /\ deliveries[c.id] # Null
        /\ c.row.generation <= deliveries[c.id].generation
        /\ \A x \in claims[w] : x.id = c.id => x = c

\* Outcome o is the result of one exchange for row r.
Follows(o, r) ==
    /\ o.row.generation = r.generation
    /\ o.number = 0 => o.row.status = "throttled" /\ o.row.attempts = r.attempts
    /\ o.number # 0 =>
         /\ o.number = r.attempts + 1
         /\ o.row.attempts = r.attempts + 1
         /\ o.row.status \in {"delivered", "failed", "retrying"}
         /\ o.row.status = "retrying" => r.attempts + 1 < MaxAttempts
    /\ o.row.status = "delivered" => <<o.id, r.generation>> \in accepted

\* What a worker is about to persist follows from the row it claimed.
OutcomeFollows ==
    \A w \in Workers : pc[w] \in {"persist", "commit"} =>
        \E c \in claims[w] : c.id = cur[w].id /\ Follows(cur[w], c.row)

RefineInv == ClaimsOfRows /\ OutcomeFollows
=============================================================================
