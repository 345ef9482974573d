----------------------------- MODULE RetryPoller -----------------------------
(***************************************************************************)
(* The scheduling loop of internal/retry/poller.go: one goroutine (Start)  *)
(* claims batches of due deliveries while it has free slots and starts a   *)
(* goroutine for each; the goroutines report back over the buffered        *)
(* channel batchDone; Stop closes stopCh and waits for the loop and then   *)
(* for the goroutines.  What a batch does with its deliveries is the       *)
(* subject of DeliveryRuntime; here it only takes a while.                 *)
(***************************************************************************)
EXTENDS Integers

CONSTANTS
    MaxConcurrentBatches,
    BatchSize,
    MaxDue,            \* bound on the backlog of claimable deliveries
    MaxArrivals,       \* bound on deliveries becoming due
    MaxClaimErrors     \* bound on failing claims

ASSUME PollerAssumption ==
    /\ MaxConcurrentBatches \in Nat \ {0}
    /\ BatchSize \in Nat \ {0}
    /\ {MaxDue, MaxArrivals, MaxClaimErrors} \subseteq Nat

VARIABLES
    loop,        \* Start: "unstarted", "drain", "claim", "select" or "returned"
    draining, activeBatches,
    ticker,      \* a tick waits in ticker.C
    working,     \* batch goroutines in processRetryBatch
    sending,     \* ... about to send on batchDone
    sent,        \* ... that have sent and have not yet called wg.Done
    batchDone,   \* number of values buffered in batchDone
    stopCh,      \* stopCh is closed
    ctxDone,     \* the context is cancelled
    stopper,     \* Stop: "none", "closed", "waitDone", "waitBatches" or "returned"
    due,         \* claimable deliveries no other transaction has locked
    arrivals, claimErrors

loopVars == <<loop, draining, activeBatches, ticker>>

batchVars == <<working, sending, sent, batchDone>>

stopVars == <<stopCh, ctxDone, stopper>>

envVars == <<due, arrivals, claimErrors>>

vars == <<loopVars, batchVars, stopVars, envVars>>

\* The types of the loop's, the goroutines' and Stop's state.
TypeOK ==
    /\ loop \in {"unstarted", "drain", "claim", "select", "returned"}
    /\ draining \in BOOLEAN
    /\ activeBatches \in Nat
    /\ ticker \in BOOLEAN
    /\ working \in Nat
    /\ sending \in Nat
    /\ sent \in Nat
    /\ batchDone \in Nat
    /\ stopCh \in BOOLEAN
    /\ ctxDone \in BOOLEAN
    /\ stopper \in {"none", "closed", "waitDone", "waitBatches", "returned"}
    /\ due \in Nat
    /\ arrivals \in Nat
    /\ claimErrors \in Nat

Init ==
    /\ loop = "unstarted"
    /\ draining = TRUE
    /\ activeBatches = 0
    /\ ticker = FALSE
    /\ working = 0 /\ sending = 0 /\ sent = 0 /\ batchDone = 0
    /\ stopCh = FALSE
    /\ ctxDone = FALSE
    /\ stopper = "none"
    /\ due \in 0..MaxDue
    /\ arrivals = 0
    /\ claimErrors = 0

-----------------------------------------------------------------------------
(* The loop. *)

Start ==
    /\ loop = "unstarted"
    /\ loop' = "drain"
    /\ UNCHANGED <<draining, activeBatches, ticker, batchVars, stopVars, envVars>>

\* Faulty variant: one batch too many.
MayClaimOneMore == draining /\ activeBatches <= MaxConcurrentBatches

MayClaim == draining /\ activeBatches < MaxConcurrentBatches

\* The condition of the inner loop, and its check for a stop.
DrainOrSelect ==
    /\ loop = "drain"
    /\ loop' = IF ~MayClaim THEN "select"
               ELSE IF ctxDone \/ stopCh THEN "returned" ELSE "claim"
    /\ UNCHANGED <<draining, activeBatches, ticker, batchVars, stopVars, envVars>>

ClaimFails ==
    /\ loop = "claim"
    /\ \/ ctxDone /\ UNCHANGED claimErrors
       \/ claimErrors < MaxClaimErrors /\ claimErrors' = claimErrors + 1
    /\ loop' = "select"
    /\ draining' = FALSE
    /\ UNCHANGED <<activeBatches, ticker, batchVars, stopVars, due, arrivals>>

ClaimIsEmpty ==
    /\ loop = "claim"
    /\ due = 0
    /\ loop' = "select"
    /\ draining' = FALSE
    /\ UNCHANGED <<activeBatches, ticker, batchVars, stopVars, envVars>>

\* The claim gets as many due deliveries as the limit allows; startBatch.
StartBatch ==
    LET n == IF due < BatchSize THEN due ELSE BatchSize
    IN  /\ loop = "claim"
        /\ due > 0
        /\ due' = due - n
        /\ activeBatches' = activeBatches + 1
        /\ working' = working + 1
        /\ draining' = (n = BatchSize)
        /\ loop' = "drain"
        /\ UNCHANGED <<ticker, sending, sent, batchDone, stopVars, arrivals, claimErrors>>

SelectStop ==
    /\ loop = "select"
    /\ ctxDone \/ stopCh
    /\ loop' = "returned"
    /\ UNCHANGED <<draining, activeBatches, ticker, batchVars, stopVars, envVars>>

\* Faulty variant: a tick gives back a slot.
SelectTickFreesSlot ==
    /\ loop = "select"
    /\ ticker
    /\ ticker' = FALSE
    /\ draining' = TRUE
    /\ activeBatches' = activeBatches - 1
    /\ loop' = "drain"
    /\ UNCHANGED <<batchVars, stopVars, envVars>>

SelectTick ==
    /\ loop = "select"
    /\ ticker
    /\ ticker' = FALSE
    /\ draining' = TRUE
    /\ loop' = "drain"
    /\ UNCHANGED <<activeBatches, batchVars, stopVars, envVars>>

\* Faulty variant: batchDone is read but the slot is not given back.
SelectBatchDoneKeepsSlot ==
    /\ loop = "select"
    /\ batchDone > 0
    /\ batchDone' = batchDone - 1
    /\ loop' = "drain"
    /\ UNCHANGED <<draining, activeBatches, ticker, working, sending, sent, stopVars, envVars>>

SelectBatchDone ==
    /\ loop = "select"
    /\ batchDone > 0
    /\ batchDone' = batchDone - 1
    /\ activeBatches' = activeBatches - 1
    /\ loop' = "drain"
    /\ UNCHANGED <<draining, ticker, working, sending, sent, stopVars, envVars>>

-----------------------------------------------------------------------------
(* A batch goroutine: process, then the deferred calls in reverse order. *)

ProcessRetryBatch ==
    /\ working > 0
    /\ working' = working - 1
    /\ sending' = sending + 1
    /\ UNCHANGED <<sent, batchDone, loopVars, stopVars, envVars>>

\* Faulty variant: the channel has no buffer, a send waits for the loop's select.
SendBatchDoneUnbuffered ==
    /\ sending > 0
    /\ batchDone = 0
    /\ loop = "select"
    /\ sending' = sending - 1
    /\ batchDone' = batchDone + 1
    /\ sent' = sent + 1
    /\ UNCHANGED <<working, loopVars, stopVars, envVars>>

\* Blocks while the buffer is full.
SendBatchDone ==
    /\ sending > 0
    /\ batchDone < MaxConcurrentBatches
    /\ sending' = sending - 1
    /\ batchDone' = batchDone + 1
    /\ sent' = sent + 1
    /\ UNCHANGED <<working, loopVars, stopVars, envVars>>

WgDone ==
    /\ sent > 0
    /\ sent' = sent - 1
    /\ UNCHANGED <<working, sending, batchDone, loopVars, stopVars, envVars>>

-----------------------------------------------------------------------------
(* Stop and cancellation. *)

\* stopOnce closes the channel; a later call of Stop finds it closed.
StopBegins ==
    /\ stopper \in {"none", "returned"}
    /\ stopper' = "closed"
    /\ stopCh' = TRUE
    /\ UNCHANGED <<ctxDone, loopVars, batchVars, envVars>>

\* The select with default: Start has run, or Stop returns at once.
StopChecksStarted ==
    /\ stopper = "closed"
    /\ stopper' = IF loop = "unstarted" THEN "returned" ELSE "waitDone"
    /\ UNCHANGED <<stopCh, ctxDone, loopVars, batchVars, envVars>>

\* Faulty variant: Stop does not wait for the loop.
StopSeesDoneEarly ==
    /\ stopper = "waitDone"
    /\ stopper' = "waitBatches"
    /\ UNCHANGED <<stopCh, ctxDone, loopVars, batchVars, envVars>>

StopSeesDone ==
    /\ stopper = "waitDone"
    /\ loop = "returned"
    /\ stopper' = "waitBatches"
    /\ UNCHANGED <<stopCh, ctxDone, loopVars, batchVars, envVars>>

StopReturns ==
    /\ stopper = "waitBatches"
    /\ working + sending + sent = 0
    /\ stopper' = "returned"
    /\ UNCHANGED <<stopCh, ctxDone, loopVars, batchVars, envVars>>

Cancel ==
    /\ ~ctxDone
    /\ ctxDone' = TRUE
    /\ UNCHANGED <<stopCh, stopper, loopVars, batchVars, envVars>>

-----------------------------------------------------------------------------
(* The environment: the ticker, and deliveries that become due. *)

TickerFires ==
    /\ ~ticker
    /\ ticker' = TRUE
    /\ UNCHANGED <<loop, draining, activeBatches, batchVars, stopVars, envVars>>

BecomesDue ==
    /\ arrivals < MaxArrivals
    /\ due < MaxDue
    /\ due' = due + 1
    /\ arrivals' = arrivals + 1
    /\ UNCHANGED <<claimErrors, loopVars, batchVars, stopVars>>

-----------------------------------------------------------------------------

Claim == ClaimIsEmpty \/ StartBatch

Select == SelectStop \/ SelectTick \/ SelectBatchDone

StopSteps == StopChecksStarted \/ StopSeesDone \/ StopReturns

Next ==
    \/ Start \/ DrainOrSelect \/ ClaimFails \/ Claim \/ Select
    \/ ProcessRetryBatch \/ SendBatchDone \/ WgDone
    \/ StopBegins \/ StopSteps \/ Cancel
    \/ TickerFires \/ BecomesDue

Spec == Init /\ [][Next]_vars

-----------------------------------------------------------------------------
(* Properties. *)

\* activeBatches counts exactly the batches whose end the loop has not seen
\* yet, and never exceeds the configured limit.
SlotsAccounted ==
    /\ activeBatches = working + sending + batchDone
    /\ activeBatches <= MaxConcurrentBatches

\* A finished batch never blocks on batchDone, not even after the loop has
\* returned and nobody receives any more; otherwise Stop would wait forever.
SendNeverBlocks == sending > 0 => batchDone < MaxConcurrentBatches

\* When Stop has returned no batch is running and the loop claims nothing
\* any more, also when Stop overtook the start of the loop.
StoppedIsQuiet ==
    stopper = "returned" =>
        /\ working + sending + sent = 0
        /\ loop \in {"unstarted", "drain", "returned"}

\* Why these hold: the loop claims only with a free slot, Stop waits for the
\* goroutines only after the loop has ended, and a loop that starts after Stop
\* has returned still has its first check of stopCh before it.
PollerInv ==
    /\ SlotsAccounted
    /\ loop = "claim" => activeBatches < MaxConcurrentBatches
    /\ loop = "unstarted" => draining /\ activeBatches = 0 /\ sent = 0
    /\ stopper # "none" => stopCh
    /\ stopper = "waitBatches" => loop = "returned"
    /\ StoppedIsQuiet
    /\ stopper = "returned" /\ loop = "drain" => draining /\ activeBatches = 0

\* Stop returns.
StopTerminates == stopper = "closed" ~> stopper = "returned"

\* Due deliveries are claimed: the backlog is worked off as long as the
\* poller is not told to stop, with at most MaxClaimErrors failing claims.
BacklogDrains == due > 0 ~> (due = 0 \/ stopCh \/ ctxDone)
=============================================================================
