---------------------------- MODULE WorkerService ----------------------------
(***************************************************************************)
(* The worker process: cmd/worker/main.go and internal/app/worker.go.  The *)
(* main goroutine opens the resources, starts the parts, waits for a       *)
(* signal and shuts down, twice: run calls Shutdown with a deadline and a  *)
(* deferred Shutdown without one follows.  The parts are the consumer      *)
(* loop, the retry poller (RetryPoller, whose Start, Cancel and Stop are   *)
(* now taken by the process), the retention cleaner, and the metrics       *)
(* server with at most one request in progress.                            *)
(*                                                                         *)
(* What a consumer batch, a retry batch and a cleanup cycle do is modelled *)
(* in DeliveryRuntime and Retention; here they hold database connections   *)
(* for a while.  External: pgxpool's Close waits for connections in use    *)
(* and Acquire fails at once on a cancelled context; http.Server's         *)
(* Shutdown refuses new requests and waits for the one in progress.        *)
(***************************************************************************)
EXTENDS RetryPoller

CONSTANTS RedisURL    \* TRUE: REDIS_URL is set and parses

ASSUME ServiceAssumption == RedisURL \in BOOLEAN

VARIABLES
    main,        \* the next step of run, or "exited"
    calls,       \* calls of Shutdown begun
    pool, redis, \* "none", "open" or "closed"
    metrics,     \* the metrics server: "none", "serving" or "closed"
    request,     \* TRUE: it is answering GET /ready, which pings the database
    ready,       \* healthHandler.ready
    consumer,    \* consumeLoop: "none", "loop", "process" or "returned"
    poller,      \* the go statement of poller.Start has run
    cleaner,     \* Cleaner: "none", "unstarted", "cycle", "select" or "returned"
    cleanerStop  \* Cleaner.stopCh is closed

resources == <<pool, redis>>

server == <<metrics, request, ready>>

parts == <<consumer, poller, cleaner, cleanerStop>>

processVars == <<main, calls, resources, server, parts>>

serviceVars == <<processVars, vars>>

Startup == {"connectDB", "initRateLimiter", "startMetricsServer", "startConsumer",
            "startRetryPoller", "startRetentionCleaner", "setReady"}

Shutdown == {"cancel", "stopConsumer", "stopRetryPoller", "waitRetryPoller", "stopCleaner",
             "waitCleaner", "stopMetrics", "closeRedis", "closePool"}

\* The types of the process's state.
ServiceTypeOK ==
    /\ TypeOK
    /\ main \in Startup \cup {"signal"} \cup Shutdown \cup {"exited"}
    /\ calls \in 0..2
    /\ {pool, redis} \subseteq {"none", "open", "closed"}
    /\ metrics \in {"none", "serving", "closed"}
    /\ {request, ready, poller, cleanerStop} \subseteq BOOLEAN
    /\ consumer \in {"none", "loop", "process", "returned"}
    /\ cleaner \in {"none", "unstarted", "cycle", "select", "returned"}

ServiceInit ==
    /\ Init
    /\ main = "connectDB"
    /\ calls = 0
    /\ pool = "none" /\ redis = "none"
    /\ metrics = "none" /\ request = FALSE
    /\ ready = FALSE
    /\ consumer = "none" /\ poller = FALSE
    /\ cleaner = "none" /\ cleanerStop = FALSE

-----------------------------------------------------------------------------
(* StartWorkerService. *)

ConnectDB ==
    /\ main = "connectDB"
    /\ \/ /\ main' = "initRateLimiter"
          /\ pool' = "open"
          /\ UNCHANGED vars
       \/ /\ main' = "exited"               \* no configuration, or no answer to a ping
          /\ pool' \in {"none", "closed"}
          /\ Cancel
    /\ UNCHANGED <<calls, redis, server, parts>>

\* A Redis client is made, whether Redis answers or not, unless REDIS_URL is
\* empty or does not parse.
InitRateLimiter ==
    /\ main = "initRateLimiter"
    /\ main' = "startMetricsServer"
    /\ redis' = IF RedisURL THEN "open" ELSE "none"
    /\ UNCHANGED <<calls, pool, server, parts, vars>>

\* Faulty variant: a start that fails leaves the pool open.
StartMetricsServerLeaks ==
    /\ main = "startMetricsServer"
    /\ \/ /\ main' = "startConsumer"
          /\ metrics' = "serving"
          /\ UNCHANGED <<resources, vars>>
       \/ /\ main' = "exited"
          /\ redis' = IF redis = "open" THEN "closed" ELSE redis
          /\ Cancel
          /\ UNCHANGED <<pool, metrics>>
    /\ UNCHANGED <<calls, request, ready, parts>>

StartMetricsServer ==
    /\ main = "startMetricsServer"
    /\ \/ /\ main' = "startConsumer"
          /\ metrics' = "serving"
          /\ UNCHANGED <<resources, vars>>
       \/ /\ main' = "exited"               \* the address is taken
          /\ redis' = IF redis = "open" THEN "closed" ELSE redis
          /\ pool' = "closed"
          /\ Cancel
          /\ UNCHANGED metrics
    /\ UNCHANGED <<calls, request, ready, parts>>

\* Consumer.Start adds to the wait group before the goroutine runs.
StartConsumer ==
    /\ main = "startConsumer"
    /\ main' = "startRetryPoller"
    /\ consumer' = "loop"
    /\ UNCHANGED <<calls, resources, server, poller, cleaner, cleanerStop, vars>>

StartRetryPoller ==
    /\ main = "startRetryPoller"
    /\ main' = "startRetentionCleaner"
    /\ poller' = TRUE
    /\ UNCHANGED <<calls, resources, server, consumer, cleaner, cleanerStop, vars>>

StartRetentionCleaner ==
    /\ main = "startRetentionCleaner"
    /\ main' = "setReady"
    /\ cleaner' = "unstarted"
    /\ UNCHANGED <<calls, resources, server, consumer, poller, cleanerStop, vars>>

SetReady ==
    /\ main = "setReady"
    /\ main' = "signal"
    /\ ready' = TRUE
    /\ UNCHANGED <<calls, resources, metrics, request, parts, vars>>

-----------------------------------------------------------------------------
(* Shutdown.  The flag of healthHandler is left as it is. *)

Signal ==
    /\ main = "signal"
    /\ main' = "cancel"
    /\ calls' = 1
    /\ UNCHANGED <<resources, server, parts, vars>>

CancelContext ==
    /\ main = "cancel"
    /\ main' = "stopConsumer"
    /\ IF ctxDone THEN UNCHANGED vars ELSE Cancel
    /\ UNCHANGED <<calls, resources, server, parts>>

\* Faulty variant: the wait group of the consumer is not waited for.
StopConsumerAtOnce ==
    /\ main = "stopConsumer"
    /\ main' = "stopRetryPoller"
    /\ UNCHANGED <<calls, resources, server, parts, vars>>

\* Consumer.Stop waits for the loop; the second call finds stopOnce done.
StopConsumer ==
    /\ main = "stopConsumer"
    /\ consumer = "returned"
    /\ main' = "stopRetryPoller"
    /\ UNCHANGED <<calls, resources, server, parts, vars>>

\* Faulty variant: Stop only closes stopCh and returns.
StopRetryPollerAtOnce ==
    /\ main = "stopRetryPoller"
    /\ main' = "waitRetryPoller"
    /\ stopCh' = TRUE
    /\ stopper' = "returned"
    /\ UNCHANGED <<calls, resources, server, parts, ctxDone, loopVars, batchVars, envVars>>

StopRetryPoller ==
    /\ main = "stopRetryPoller"
    /\ main' = "waitRetryPoller"
    /\ StopBegins
    /\ UNCHANGED <<calls, resources, server, parts>>

RetryPollerStopped ==
    /\ main = "waitRetryPoller"
    /\ stopper = "returned"
    /\ main' = "stopCleaner"
    /\ UNCHANGED <<calls, resources, server, parts, vars>>

StopCleaner ==
    /\ main = "stopCleaner"
    /\ main' = "waitCleaner"
    /\ cleanerStop' = TRUE
    /\ UNCHANGED <<calls, resources, server, consumer, poller, cleaner, vars>>

\* Faulty variant: Stop returns also while a cycle is running.
CleanerStoppedEarly ==
    /\ main = "waitCleaner"
    /\ main' = "stopMetrics"
    /\ UNCHANGED <<calls, resources, server, parts, vars>>

\* Cleaner.Stop does not wait for a goroutine that has not started.
CleanerStopped ==
    /\ main = "waitCleaner"
    /\ cleaner \in {"unstarted", "returned"}
    /\ main' = "stopMetrics"
    /\ UNCHANGED <<calls, resources, server, parts, vars>>

\* The server refuses new requests from now on.
StopMetrics ==
    /\ main = "stopMetrics"
    /\ metrics # "closed"
    /\ metrics' = "closed"
    /\ UNCHANGED <<main, calls, resources, request, ready, parts, vars>>

\* It waits for the request in progress; only the first call has a deadline.
MetricsStopped ==
    /\ main = "stopMetrics"
    /\ metrics = "closed"
    /\ ~request \/ calls = 1
    /\ main' = "closeRedis"
    /\ UNCHANGED <<calls, resources, server, parts, vars>>

CloseRedis ==
    /\ main = "closeRedis"
    /\ main' = "closePool"
    /\ redis' = IF redis = "open" THEN "closed" ELSE redis
    /\ UNCHANGED <<calls, pool, server, parts, vars>>

\* Close rejects new users at once and returns when the last one is gone.
ClosePool ==
    /\ main = "closePool"
    /\ pool = "open"
    /\ pool' = "closed"
    /\ UNCHANGED <<main, calls, redis, server, parts, vars>>

\* Who holds, or is about to acquire, a database connection.
UsesPool ==
    \/ consumer = "process"
    \/ loop = "claim"
    \/ working > 0
    \/ cleaner = "cycle"

ShutdownReturns ==
    /\ main = "closePool"
    /\ pool = "closed"
    /\ ~UsesPool /\ ~request
    /\ main' = IF calls = 1 THEN "cancel" ELSE "exited"
    /\ calls' = IF calls = 1 THEN 2 ELSE calls
    /\ UNCHANGED <<resources, server, parts, vars>>

-----------------------------------------------------------------------------
(* The goroutines, while the process lives. *)

Alive == main # "exited"

\* Faulty variant: the loop does not look at its context.
ConsumerCollectsOn ==
    /\ consumer = "loop"
    /\ consumer' = "process"

\* The loop ends on a cancelled context; a batch collected before that is
\* still processed.
ConsumerCollects ==
    /\ consumer = "loop"
    /\ \/ ctxDone /\ consumer' = "returned"
       \/ ~ctxDone /\ consumer' = "process"

ConsumerProcesses ==
    /\ consumer = "process"
    /\ consumer' = "loop"

ConsumerStep ==
    /\ Alive
    /\ ConsumerCollects \/ ConsumerProcesses
    /\ UNCHANGED <<main, calls, resources, server, poller, cleaner, cleanerStop, vars>>

\* A cycle, without a look at the context or at stopCh before it: on a
\* cancelled context its first statement fails before it gets a connection.
RunAndObserve == cleaner' = IF ctxDone THEN "select" ELSE "cycle"

CleanerStarts ==
    /\ cleaner = "unstarted"
    /\ RunAndObserve

CycleEnds ==
    /\ cleaner = "cycle"
    /\ cleaner' = "select"

CleanerTicks ==
    /\ cleaner = "select"
    /\ RunAndObserve

CleanerReturns ==
    /\ cleaner = "select"
    /\ ctxDone \/ cleanerStop
    /\ cleaner' = "returned"

CleanerStep ==
    /\ Alive
    /\ CleanerStarts \/ CycleEnds \/ CleanerTicks \/ CleanerReturns
    /\ UNCHANGED <<main, calls, resources, server, consumer, poller, cleanerStop, vars>>

\* The steps of the poller that the process does not take itself.
PollerLoop == Start \/ DrainOrSelect \/ Claim \/ Select

PollerBatches == ProcessRetryBatch \/ SendBatchDone \/ WgDone

PollerRuns == PollerLoop \/ ClaimFails \/ PollerBatches \/ StopSteps \/ TickerFires

PollerStep ==
    /\ Alive
    /\ poller
    /\ PollerRuns
    /\ UNCHANGED processVars

DeliveryBecomesDue ==
    /\ Alive
    /\ BecomesDue
    /\ UNCHANGED processVars

\* GET /ready.  A GET /metrics only makes the server's Shutdown wait, too.
RequestArrives ==
    /\ Alive
    /\ metrics = "serving"
    /\ ~request
    /\ request' = TRUE
    /\ UNCHANGED <<main, calls, resources, metrics, ready, parts, vars>>

RequestEnds ==
    /\ Alive
    /\ request
    /\ request' = FALSE
    /\ UNCHANGED <<main, calls, resources, metrics, ready, parts, vars>>

-----------------------------------------------------------------------------

MainStep ==
    \/ ConnectDB \/ InitRateLimiter \/ StartMetricsServer \/ StartConsumer
    \/ StartRetryPoller \/ StartRetentionCleaner \/ SetReady
    \/ CancelContext \/ StopConsumer \/ StopRetryPoller \/ RetryPollerStopped
    \/ StopCleaner \/ CleanerStopped \/ StopMetrics \/ MetricsStopped
    \/ CloseRedis \/ ClosePool \/ ShutdownReturns

ServiceNext ==
    \/ MainStep \/ Signal
    \/ ConsumerStep \/ CleanerStep \/ PollerStep \/ DeliveryBecomesDue
    \/ RequestArrives \/ RequestEnds

ServiceSpec == ServiceInit /\ [][ServiceNext]_serviceVars

\* Goroutines run on, and batches, claims and cycles end: HTTP calls have a
\* timeout and statements the process's context.  Go's select chooses at
\* random among the ready cases, so batchDone is not starved by the ticker.
\* Requests to the metrics server may hang: it has no write timeout, and the
\* ping of /ready has no deadline.
ServiceFairness ==
    /\ WF_serviceVars(MainStep)
    /\ WF_serviceVars(ConsumerStep)
    /\ WF_serviceVars(CleanerStep)
    /\ WF_serviceVars(PollerStep /\ PollerLoop)
    /\ SF_serviceVars(PollerStep /\ SelectBatchDone)
    /\ WF_serviceVars(PollerStep /\ PollerBatches)
    /\ WF_serviceVars(PollerStep /\ StopSteps)
    /\ WF_serviceVars(PollerStep /\ TickerFires)

FairServiceSpec == ServiceSpec /\ ServiceFairness

-----------------------------------------------------------------------------
(* Properties. *)

\* The pool is closed only when no part can use it any more: Shutdown waits
\* for the consumer's batch, the retry batches and the cleanup cycle, and a
\* part that starts late finds the context cancelled.
PoolOutlivesParts == pool = "closed" => ~UsesPool

\* A start that fails leaves nothing open and nothing running, and a process
\* that exits has closed what it opened.
NothingLeftOpen ==
    main = "exited" => pool # "open" /\ redis # "open" /\ ctxDone /\ ~UsesPool

\* After a signal the process exits, unless a request to the metrics server
\* hangs: Shutdown's deadline bounds only the first wait for it, the deferred
\* Shutdown and the closing of the pool wait without one.
ExitsUnlessRequestHangs == <>[]request \/ (main = "cancel" ~> main = "exited")

\* The process uses the poller as RetryPoller assumes: what is proved of that
\* module holds of the poller in the worker.
UsesPollerAsSpecified == Spec
=============================================================================
