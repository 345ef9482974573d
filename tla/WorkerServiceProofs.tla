------------------------- MODULE WorkerServiceProofs ------------------------
(***************************************************************************)
(* Proofs about the retry poller by itself, for every number of slots,     *)
(* batch size and backlog, about the worker process that runs it, and      *)
(* about the projection of an event the worker stores with every outcome.  *)
(***************************************************************************)
EXTENDS WorkerService, EventProjection, TLAPS

(* The retry poller. *)

Inv == TypeOK /\ PollerInv

\* A poller that NewPoller has just made satisfies the types and PollerInv.
LEMMA InitInv == Init => Inv
<1> SUFFICES ASSUME Init PROVE Inv
  OBVIOUS
<1>1. TypeOK
  <2>1. due \in Nat
    BY PollerAssumption DEF Init
  <2>2. 0 \in Nat
    OBVIOUS
  <2> QED
    BY <2>1, <2>2, Zenon DEF Init, TypeOK
<1>2. PollerInv
  <2>1. activeBatches = 0 /\ working = 0 /\ sending = 0 /\ batchDone = 0
    BY Zenon DEF Init
  <2>2. SlotsAccounted
    BY <2>1, PollerAssumption DEF SlotsAccounted
  <2> QED
    BY <2>2, Zenon DEF Init, PollerInv, StoppedIsQuiet
<1> QED
  BY <1>1, <1>2 DEF Inv

\* The steps of the loop.
LEMMA LoopStep ==
    ASSUME Inv, Start \/ DrainOrSelect \/ ClaimFails \/ Claim \/ Select
    PROVE  Inv'
<1> USE PollerAssumption DEF Inv, TypeOK, PollerInv, SlotsAccounted, StoppedIsQuiet,
        batchVars, stopVars, envVars
<1>1. CASE Start
  BY <1>1 DEF Start
<1>2. CASE DrainOrSelect
  <2>1. CASE ~MayClaim
    BY <1>2, <2>1 DEF DrainOrSelect, MayClaim
  <2>2. CASE MayClaim /\ (ctxDone \/ stopCh)
    BY <1>2, <2>2 DEF DrainOrSelect, MayClaim
  <2>3. CASE MayClaim /\ ~(ctxDone \/ stopCh)
    BY <1>2, <2>3 DEF DrainOrSelect, MayClaim
  <2> QED
    BY <2>1, <2>2, <2>3
<1>3. CASE ClaimFails
  <2>1. claimErrors' \in Nat
    BY <1>3 DEF ClaimFails
  <2> QED
    BY <1>3, <2>1, Zenon DEF ClaimFails
<1>4. CASE ClaimIsEmpty
  BY <1>4, Zenon DEF ClaimIsEmpty
<1>5. CASE StartBatch
  BY <1>5 DEF StartBatch
<1>6. CASE SelectStop
  BY <1>6 DEF SelectStop
<1>7. CASE SelectTick
  BY <1>7, Zenon DEF SelectTick
<1>8. CASE SelectBatchDone
  <2>1. activeBatches' \in Nat /\ batchDone' \in Nat
    BY <1>8 DEF SelectBatchDone
  <2>2. SlotsAccounted'
    BY <1>8 DEF SelectBatchDone
  <2> QED
    BY <1>8, <2>1, <2>2, Zenon DEF SelectBatchDone
<1> QED
  BY <1>1, <1>2, <1>3, <1>4, <1>5, <1>6, <1>7, <1>8 DEF Claim, Select

\* The steps of the batch goroutines, of Stop and of the environment.
LEMMA OtherStep ==
    ASSUME Inv,
           \/ ProcessRetryBatch \/ SendBatchDone \/ WgDone
           \/ StopBegins \/ StopSteps \/ Cancel \/ TickerFires \/ BecomesDue
    PROVE  Inv'
<1> USE PollerAssumption DEF Inv, TypeOK, PollerInv, SlotsAccounted, StoppedIsQuiet,
        loopVars, batchVars, stopVars, envVars
<1>1. CASE ProcessRetryBatch
  BY <1>1 DEF ProcessRetryBatch
<1>2. CASE SendBatchDone
  BY <1>2 DEF SendBatchDone
<1>3. CASE WgDone
  BY <1>3 DEF WgDone
<1>4. CASE StopBegins
  BY <1>4 DEF StopBegins
<1>5. CASE StopChecksStarted
  BY <1>5 DEF StopChecksStarted
<1>6. CASE StopSeesDone
  BY <1>6 DEF StopSeesDone
<1>7. CASE StopReturns
  BY <1>7 DEF StopReturns
<1>8. CASE Cancel
  BY <1>8 DEF Cancel
<1>9. CASE TickerFires
  BY <1>9 DEF TickerFires
<1>10. CASE BecomesDue
  BY <1>10 DEF BecomesDue
<1> QED
  BY <1>1, <1>2, <1>3, <1>4, <1>5, <1>6, <1>7, <1>8, <1>9, <1>10, Zenon DEF StopSteps

\* Every step of the poller keeps both.
LEMMA InvStep == Inv /\ [Next]_vars => Inv'
<1> SUFFICES ASSUME Inv, [Next]_vars PROVE Inv'
  OBVIOUS
<1>1. CASE UNCHANGED vars
  BY <1>1 DEF vars, loopVars, batchVars, stopVars, envVars, Inv, TypeOK, PollerInv,
     SlotsAccounted, StoppedIsQuiet
<1> QED
  BY <1>1, LoopStep, OtherStep DEF Next

\* The types and the slot invariant hold in every reachable state.
THEOREM Invariance == Spec => []Inv
BY InitInv, InvStep, PTL DEF Spec

\* The poller never runs more than MaxConcurrentBatches batches and its
\* counter is exact.
THEOREM SlotsExact == Spec => []SlotsAccounted
<1>1. Inv => SlotsAccounted
  BY DEF Inv, PollerInv
<1> QED
  BY <1>1, Invariance, PTL

\* A finished batch never blocks on batchDone, also when the loop is gone.
THEOREM NoBlockedSend == Spec => []SendNeverBlocks
<1>1. Inv => SendNeverBlocks
  BY PollerAssumption DEF Inv, TypeOK, PollerInv, SlotsAccounted, SendNeverBlocks
<1> QED
  BY <1>1, Invariance, PTL

\* After Stop has returned nothing runs and nothing is claimed.
THEOREM QuietAfterStop == Spec => []StoppedIsQuiet
<1>1. Inv => StoppedIsQuiet
  BY DEF Inv, PollerInv
<1> QED
  BY <1>1, Invariance, PTL

-----------------------------------------------------------------------------
(* The process. *)

\* The consumer's loop has ended and is not started again.
ConsumerGone == ctxDone /\ consumer = "returned"

\* Stop of the poller has returned once: no batch runs, and a loop that starts
\* only now has its check of stopCh before its first claim.
PollerGone ==
    /\ stopCh
    /\ working = 0
    /\ loop \in {"unstarted", "drain", "returned"}
    /\ loop # "returned" => draining /\ activeBatches = 0

\* The cleaner runs no cycle, and cannot begin one: the context is cancelled.
CleanerGone == ctxDone /\ cleaner \in {"unstarted", "select", "returned"}

AfterCleaner == {"stopMetrics", "closeRedis", "closePool"}

AfterPoller == {"stopCleaner", "waitCleaner"} \cup AfterCleaner

AfterConsumer == {"stopRetryPoller", "waitRetryPoller"} \cup AfterPoller

NoParts == consumer = "none" /\ ~poller /\ cleaner = "none"

\* The order of startup and shutdown: which part exists, which is gone and
\* what is open, by the next step of the main goroutine.
OrderInv ==
    /\ ~poller => loop = "unstarted"
    /\ consumer = "returned" => ctxDone
    /\ main \in {"connectDB", "initRateLimiter", "startMetricsServer"} => NoParts
    /\ main \in Startup \cup {"signal"} => calls = 0
    /\ main \in Shutdown => calls # 0
    /\ main \in {"connectDB", "initRateLimiter"} => redis = "none"
    /\ main = "connectDB" => pool = "none"
    /\ main \notin {"connectDB", "closePool", "exited"} /\ calls # 2 => pool = "open"
    /\ calls = 2 => pool = "closed"
    /\ main = "closePool" \/ calls = 2 => redis # "open"
    /\ main \in AfterConsumer \/ calls = 2 => ConsumerGone
    /\ main \in AfterPoller \/ calls = 2 => PollerGone
    /\ main \in AfterCleaner \/ calls = 2 => CleanerGone
    /\ main = "exited" => /\ pool # "open" /\ redis # "open" /\ ctxDone
                          /\ NoParts \/ calls = 2

ServiceInv == ServiceTypeOK /\ PollerInv /\ OrderInv

\* Every step of the process is a step of the poller, or leaves it alone.
LEMMA PollerSteps == [ServiceNext]_serviceVars => [Next]_vars
<1> SUFFICES ASSUME [ServiceNext]_serviceVars PROVE [Next]_vars
  OBVIOUS
<1>1. ASSUME ConnectDB \/ StartMetricsServer \/ CancelContext PROVE [Next]_vars
  BY <1>1 DEF ConnectDB, StartMetricsServer, CancelContext, Next
<1>2. CASE StopRetryPoller
  BY <1>2 DEF StopRetryPoller, Next
<1>3. ASSUME \/ InitRateLimiter \/ StartConsumer \/ StartRetryPoller \/ StartRetentionCleaner
             \/ SetReady \/ Signal \/ StopConsumer \/ RetryPollerStopped \/ StopCleaner
             \/ CleanerStopped \/ StopMetrics \/ MetricsStopped \/ CloseRedis \/ ClosePool
             \/ ShutdownReturns
      PROVE  UNCHANGED vars
  BY <1>3 DEF InitRateLimiter, StartConsumer, StartRetryPoller, StartRetentionCleaner, SetReady,
     Signal, StopConsumer, RetryPollerStopped, StopCleaner, CleanerStopped, StopMetrics,
     MetricsStopped, CloseRedis, ClosePool, ShutdownReturns
<1>4. ASSUME ConsumerStep \/ CleanerStep \/ RequestArrives \/ RequestEnds PROVE UNCHANGED vars
  BY <1>4 DEF ConsumerStep, CleanerStep, RequestArrives, RequestEnds
<1>5. ASSUME PollerStep \/ DeliveryBecomesDue PROVE Next
  BY <1>5 DEF PollerStep, DeliveryBecomesDue, PollerRuns, PollerLoop, PollerBatches, Next
<1>6. CASE UNCHANGED serviceVars
  BY <1>6 DEF serviceVars
<1> QED
  BY <1>1, <1>2, <1>3, <1>4, <1>5, <1>6 DEF ServiceNext, MainStep

\* The types of the process's own variables.
LEMMA ServiceTypes == ServiceTypeOK /\ TypeOK' /\ [ServiceNext]_serviceVars => ServiceTypeOK'
<1> SUFFICES ASSUME ServiceTypeOK, TypeOK', [ServiceNext]_serviceVars PROVE ServiceTypeOK'
  OBVIOUS
<1> USE DEF ServiceTypeOK, Startup, Shutdown, resources, server, parts, processVars, serviceVars
<1>1. ASSUME \/ ConnectDB \/ InitRateLimiter \/ StartMetricsServer \/ StartConsumer
             \/ StartRetryPoller \/ StartRetentionCleaner \/ SetReady
      PROVE  ServiceTypeOK'
  BY <1>1, ServiceAssumption, ZenonT(30) DEF ConnectDB, InitRateLimiter, StartMetricsServer,
     StartConsumer, StartRetryPoller, StartRetentionCleaner, SetReady
<1>2. ASSUME \/ CancelContext \/ StopConsumer \/ StopRetryPoller \/ RetryPollerStopped
             \/ StopCleaner \/ CleanerStopped \/ StopMetrics \/ MetricsStopped \/ CloseRedis
             \/ ClosePool
      PROVE  ServiceTypeOK'
  BY <1>2, Zenon DEF CancelContext, StopConsumer, StopRetryPoller, RetryPollerStopped,
     StopCleaner, CleanerStopped, StopMetrics, MetricsStopped, CloseRedis, ClosePool
<1>8. ASSUME Signal \/ ShutdownReturns PROVE ServiceTypeOK'
  <2>1. calls' \in 0..2
    BY <1>8 DEF Signal, ShutdownReturns
  <2> QED
    BY <1>8, <2>1, Zenon DEF Signal, ShutdownReturns
<1>3. CASE ConsumerStep
  BY <1>3 DEF ConsumerStep, ConsumerCollects, ConsumerProcesses
<1>4. CASE CleanerStep
  BY <1>4, Zenon DEF CleanerStep, CleanerStarts, CycleEnds, CleanerTicks, CleanerReturns, RunAndObserve
<1>5. ASSUME PollerStep \/ DeliveryBecomesDue PROVE ServiceTypeOK'
  BY <1>5 DEF PollerStep, DeliveryBecomesDue
<1>6. ASSUME RequestArrives \/ RequestEnds PROVE ServiceTypeOK'
  BY <1>6, ZenonT(30) DEF RequestArrives, RequestEnds
<1>7. CASE UNCHANGED serviceVars
  BY <1>7
<1> QED
  BY <1>1, <1>2, <1>3, <1>4, <1>5, <1>6, <1>7, <1>8 DEF ServiceNext, MainStep

\* The steps of startup keep the order.
LEMMA OrderStartup ==
    ASSUME ServiceInv,
           \/ ConnectDB \/ InitRateLimiter \/ StartMetricsServer \/ StartConsumer
           \/ StartRetryPoller \/ StartRetentionCleaner \/ SetReady \/ Signal
    PROVE  OrderInv'
<1> USE DEF ServiceInv, ServiceTypeOK, OrderInv, Startup, Shutdown, AfterConsumer, AfterPoller,
        AfterCleaner, NoParts, resources, server, parts
<1>1. CASE ConnectDB
  BY <1>1 DEF ConnectDB, Cancel, vars, loopVars, stopVars
<1>2. CASE InitRateLimiter
  BY <1>2 DEF InitRateLimiter, vars, loopVars, stopVars
<1>3. CASE StartMetricsServer
  BY <1>3 DEF StartMetricsServer, Cancel, vars, loopVars, stopVars
<1>4. CASE StartConsumer
  BY <1>4 DEF StartConsumer, vars, loopVars, stopVars
<1>5. CASE StartRetryPoller
  BY <1>5 DEF StartRetryPoller, vars, loopVars, stopVars
<1>6. CASE StartRetentionCleaner
  BY <1>6 DEF StartRetentionCleaner, vars, loopVars, stopVars
<1>7. CASE SetReady
  BY <1>7 DEF SetReady, vars, loopVars, stopVars
<1>8. CASE Signal
  BY <1>8, SMTT(30) DEF Signal, vars, loopVars, stopVars
<1> QED
  BY <1>1, <1>2, <1>3, <1>4, <1>5, <1>6, <1>7, <1>8, ZenonT(30)

\* The steps of both calls of Shutdown keep the order: each waits for the part
\* it names, and what the first call has stopped stays stopped in the second.
LEMMA OrderShutdown ==
    ASSUME ServiceInv,
           \/ CancelContext \/ StopConsumer \/ StopRetryPoller \/ RetryPollerStopped
           \/ StopCleaner \/ CleanerStopped \/ StopMetrics \/ MetricsStopped \/ CloseRedis
           \/ ClosePool \/ ShutdownReturns
    PROVE  OrderInv'
<1> USE DEF ServiceInv, ServiceTypeOK, OrderInv, Startup, Shutdown, AfterConsumer, AfterPoller,
        AfterCleaner, NoParts, ConsumerGone, PollerGone, CleanerGone, resources, server, parts,
        vars, loopVars, batchVars, stopVars
<1>1. CASE CancelContext
  <2>1. /\ main = "cancel" /\ main' = "stopConsumer" /\ ctxDone'
        /\ UNCHANGED <<calls, resources, parts, loop, draining, activeBatches, working, stopCh>>
    BY <1>1, Zenon DEF CancelContext, Cancel
  <2> QED
    BY <2>1
<1>2. CASE StopConsumer
  BY <1>2 DEF StopConsumer
<1>3. CASE StopRetryPoller
  BY <1>3 DEF StopRetryPoller, StopBegins
<1>4. CASE RetryPollerStopped
  BY <1>4 DEF RetryPollerStopped, TypeOK, PollerInv, SlotsAccounted, StoppedIsQuiet
<1>5. CASE StopCleaner
  BY <1>5 DEF StopCleaner
<1>6. CASE CleanerStopped
  BY <1>6 DEF CleanerStopped
<1>7. CASE StopMetrics
  BY <1>7 DEF StopMetrics
<1>8. CASE MetricsStopped
  BY <1>8 DEF MetricsStopped
<1>9. CASE CloseRedis
  BY <1>9 DEF CloseRedis
<1>10. CASE ClosePool
  BY <1>10 DEF ClosePool
<1>11. CASE ShutdownReturns
  BY <1>11 DEF ShutdownReturns
<1> QED
  BY <1>1, <1>2, <1>3, <1>4, <1>5, <1>6, <1>7, <1>8, <1>9, <1>10, <1>11, ZenonT(30)

\* Once gone, the poller stays gone.
LEMMA PollerStaysGone ==
    ASSUME TypeOK, PollerGone, PollerRuns \/ BecomesDue
    PROVE  PollerGone'
<1> USE PollerAssumption DEF TypeOK, PollerGone, loopVars, batchVars, stopVars, envVars
<1>1. CASE Start
  BY <1>1 DEF Start
<1>2. CASE DrainOrSelect
  BY <1>2 DEF DrainOrSelect, MayClaim
<1>3. ASSUME Claim \/ Select \/ ClaimFails PROVE FALSE
  BY <1>3, ZenonT(30) DEF Claim, ClaimIsEmpty, StartBatch, Select, SelectStop, SelectTick, SelectBatchDone,
     ClaimFails
<1>4. ASSUME ProcessRetryBatch \/ SendBatchDone \/ WgDone PROVE PollerGone'
  <2>1. ~ ProcessRetryBatch
    BY DEF ProcessRetryBatch
  <2> QED
    BY <1>4, <2>1, Zenon DEF SendBatchDone, WgDone
<1>5. ASSUME StopSteps PROVE PollerGone'
  BY <1>5, ZenonT(30) DEF StopSteps, StopChecksStarted, StopSeesDone, StopReturns
<1>6. ASSUME TickerFires \/ BecomesDue PROVE PollerGone'
  BY <1>6, ZenonT(30) DEF TickerFires, BecomesDue
<1> QED
  BY <1>1, <1>2, <1>3, <1>4, <1>5, <1>6 DEF PollerRuns, PollerLoop, PollerBatches

\* The goroutines keep the order: what is gone stays gone.
LEMMA OrderGoroutines ==
    ASSUME ServiceInv,
           \/ ConsumerStep \/ CleanerStep \/ PollerStep \/ DeliveryBecomesDue
           \/ RequestArrives \/ RequestEnds \/ UNCHANGED serviceVars
    PROVE  OrderInv'
<1> USE DEF ServiceInv, ServiceTypeOK, OrderInv, NoParts, resources, server, parts
<1>1. CASE ConsumerStep
  BY <1>1 DEF ConsumerStep, ConsumerCollects, ConsumerProcesses, Alive, ConsumerGone, PollerGone,
     CleanerGone, vars, loopVars, batchVars, stopVars
<1>2. CASE CleanerStep
  BY <1>2 DEF CleanerStep, CleanerStarts, CycleEnds, CleanerTicks, CleanerReturns, RunAndObserve,
     Alive, ConsumerGone, PollerGone, CleanerGone, vars, loopVars, batchVars, stopVars
<1>3. ASSUME PollerStep \/ DeliveryBecomesDue PROVE OrderInv'
  <2>1. UNCHANGED processVars /\ UNCHANGED ctxDone
    BY <1>3, ZenonT(30) DEF PollerStep, DeliveryBecomesDue, PollerRuns, PollerLoop, PollerBatches, Start,
       DrainOrSelect, Claim, ClaimIsEmpty, StartBatch, Select, SelectStop, SelectTick,
       SelectBatchDone, ClaimFails, ProcessRetryBatch, SendBatchDone, WgDone, StopSteps,
       StopChecksStarted, StopSeesDone, StopReturns, TickerFires, BecomesDue, stopVars
  <2>2. PollerGone => PollerGone'
    BY <1>3, PollerStaysGone DEF PollerStep, DeliveryBecomesDue
  <2>3. ~poller => loop' = loop
    BY <1>3 DEF PollerStep, DeliveryBecomesDue, BecomesDue, loopVars
  <2> QED
    BY <2>1, <2>2, <2>3, ZenonT(30) DEF processVars, ConsumerGone, CleanerGone
<1>4. ASSUME RequestArrives \/ RequestEnds PROVE OrderInv'
  BY <1>4 DEF RequestArrives, RequestEnds, ConsumerGone, PollerGone, CleanerGone, vars, loopVars,
     batchVars, stopVars
<1>5. CASE UNCHANGED serviceVars
  BY <1>5 DEF serviceVars, processVars, ConsumerGone, PollerGone, CleanerGone, vars, loopVars,
     batchVars, stopVars
<1> QED
  BY <1>1, <1>2, <1>3, <1>4, <1>5, Zenon

\* The invariant of the process.
THEOREM ServiceInvariance == ServiceSpec => []ServiceInv
<1>1. ServiceInit => ServiceInv
  <2> SUFFICES ASSUME ServiceInit PROVE ServiceInv
    OBVIOUS
  <2>1. TypeOK /\ PollerInv
    BY InitInv DEF ServiceInit, Inv
  <2>2. ServiceTypeOK
    <3>1. calls \in 0..2
      BY DEF ServiceInit
    <3> QED
      BY <2>1, <3>1, Zenon DEF ServiceInit, ServiceTypeOK, Startup
  <2>3. OrderInv
    BY DEF ServiceInit, Init, OrderInv, Startup, Shutdown, AfterConsumer, AfterPoller,
       AfterCleaner, NoParts
  <2> QED
    BY <2>1, <2>2, <2>3 DEF ServiceInv
<1>2. ServiceInv /\ [ServiceNext]_serviceVars => ServiceInv'
  <2> SUFFICES ASSUME ServiceInv, [ServiceNext]_serviceVars PROVE ServiceInv'
    OBVIOUS
  <2>1. TypeOK' /\ PollerInv'
    BY PollerSteps, InvStep DEF ServiceInv, ServiceTypeOK, Inv
  <2>2. ServiceTypeOK'
    BY <2>1, ServiceTypes DEF ServiceInv
  <2>3. OrderInv'
    BY OrderStartup, OrderShutdown, OrderGoroutines DEF ServiceNext, MainStep
  <2> QED
    BY <2>1, <2>2, <2>3 DEF ServiceInv
<1> QED
  BY <1>1, <1>2, PTL DEF ServiceSpec

\* The types hold of the process and of the poller in it.
THEOREM ServiceTypeCorrect == ServiceSpec => []ServiceTypeOK
<1>1. ServiceInv => ServiceTypeOK
  BY DEF ServiceInv
<1> QED
  BY <1>1, ServiceInvariance, PTL

\* Whenever the pool is closed, no part holds or is about to acquire a
\* connection: not in a start that failed, not in either call of Shutdown, and
\* not by a poller or a cleaner whose goroutine runs for the first time after
\* it was stopped.
THEOREM PoolOutlives == ServiceSpec => []PoolOutlivesParts
<1>1. ServiceInv => PoolOutlivesParts
  <2> SUFFICES ASSUME ServiceInv, pool = "closed" PROVE ~UsesPool
    BY DEF PoolOutlivesParts
  <2>1. CASE main = "closePool" \/ calls = 2
    <3>1. ConsumerGone /\ PollerGone /\ CleanerGone
      BY <2>1 DEF ServiceInv, OrderInv, AfterConsumer, AfterPoller, AfterCleaner
    <3> QED
      BY <3>1 DEF UsesPool, ConsumerGone, PollerGone, CleanerGone
  <2>2. CASE main = "exited" /\ NoParts
    <3>1. loop = "unstarted" /\ working = 0
      BY <2>2 DEF ServiceInv, ServiceTypeOK, OrderInv, NoParts, PollerInv, SlotsAccounted, TypeOK
    <3> QED
      BY <2>2, <3>1 DEF UsesPool, NoParts
  <2> QED
    BY <2>1, <2>2 DEF ServiceInv, OrderInv
<1> QED
  BY <1>1, ServiceInvariance, PTL

\* A process that has exited, after a failed start or after Shutdown, has
\* closed what it opened and left nothing running.
THEOREM ExitsClean == ServiceSpec => []NothingLeftOpen
<1>1. ServiceInv /\ PoolOutlivesParts => NothingLeftOpen
  <2> SUFFICES ASSUME ServiceInv, PoolOutlivesParts, main = "exited"
               PROVE  pool # "open" /\ redis # "open" /\ ctxDone /\ ~UsesPool
    BY DEF NothingLeftOpen
  <2>1. pool # "open" /\ redis # "open" /\ ctxDone /\ (NoParts \/ calls = 2)
    BY DEF ServiceInv, OrderInv
  <2>2. CASE calls = 2
    BY <2>1, <2>2 DEF ServiceInv, OrderInv, PoolOutlivesParts
  <2>3. CASE NoParts
    <3>1. loop = "unstarted" /\ working = 0
      BY <2>3 DEF ServiceInv, ServiceTypeOK, OrderInv, NoParts, PollerInv, SlotsAccounted, TypeOK
    <3> QED
      BY <2>1, <2>3, <3>1 DEF UsesPool, NoParts
  <2> QED
    BY <2>1, <2>2, <2>3
<1> QED
  BY <1>1, ServiceInvariance, PoolOutlives, PTL

\* The worker process implements the poller's specification: what holds of the
\* poller by itself holds of the poller in the process.
THEOREM PollerRefined == ServiceSpec => UsesPollerAsSpecified
<1>1. ServiceInit => Init
  BY DEF ServiceInit
<1> QED
  BY <1>1, PollerSteps, PTL DEF ServiceSpec, Spec, UsesPollerAsSpecified

-----------------------------------------------------------------------------
(* The projection of an event, computed row by row. *)

\* What the loop relies on in a stored row: only a delivered one has a
\* delivery time.
LEMMA StoredRowType ==
    ASSUME NEW d \in StoredRows
    PROVE  /\ d.status \in Statuses
           /\ d.attempts \in Nat
           /\ d.nextAt \in Nat \cup {Null}
           /\ d.deliveredAt \in Nat \cup {Null}
           /\ d.status = "delivered" <=> d.deliveredAt # Null
<1> USE NullAssumption, MaxAttemptsAssumption, ProjectionAssumption DEF Row, Statuses
<1>1. CASE d = Row("pending", 0, Null, Null)
  BY <1>1
<1>2. CASE d \in {Row("processing", n, t, Null) : n \in 0..(MaxAttempts - 1), t \in Times \cup {Null}}
  BY <1>2
<1>3. CASE d \in {Row(s, n, t, Null) : s \in {"retrying", "throttled"}, n \in 0..(MaxAttempts - 1), t \in Times}
  BY <1>3
<1>4. CASE d \in {Row("delivered", n, Null, t) : n \in 1..MaxAttempts, t \in Times}
  BY <1>4
<1>5. CASE d \in {Row("failed", n, Null, Null) : n \in 1..MaxAttempts}
  BY <1>5
<1> QED
  BY <1>1, <1>2, <1>3, <1>4, <1>5 DEF StoredRows

\* One turn of the switch keeps the precedence of the statuses seen.
LEMMA NextStatusPrecedence ==
    ASSUME NEW S \in SUBSET Statuses, NEW s \in Statuses
    PROVE  NextStatus(ProjectStatus(S), s) = ProjectStatus(S \cup {s})
BY DEF NextStatus, ProjectStatus, Statuses

\* What the accumulator holds between two iterations: the precedence of the
\* statuses, the greatest attempts, the soonest next attempt and the last
\* delivery time of the rows seen.
AccInv ==
    /\ slice \in Seq(StoredRows)
    /\ acc.status = ProjectStatus(StatusesSeen)
    /\ acc.allDelivered <=> StatusesSeen \subseteq {"delivered"}
    /\ IF slice = <<>> THEN acc.attempts = 0 ELSE IsGreatest(acc.attempts, AttemptsSeen)
    /\ IF NextAtsSeen = {} THEN acc.nextAt = Null ELSE IsLeast(acc.nextAt, NextAtsSeen)
    /\ IF DeliveredAtsSeen = {}
         THEN acc.deliveredAt = Null ELSE IsGreatest(acc.deliveredAt, DeliveredAtsSeen)

\* Before the first row.
LEMMA AccInit == ProjectionInit => AccInv
BY DEF ProjectionInit, AccInv, StatusesSeen, NextAtsSeen, DeliveredAtsSeen, ProjectStatus

\* A row more in the slice is a value more in each of the four sets.
LEMMA SeenGrows ==
    ASSUME slice \in Seq(StoredRows), NEW d \in StoredRows, slice' = Append(slice, d)
    PROVE  /\ slice' \in Seq(StoredRows)
           /\ slice' # <<>>
           /\ StatusesSeen' = StatusesSeen \cup {d.status}
           /\ AttemptsSeen' = AttemptsSeen \cup {d.attempts}
           /\ NextAtsSeen' = NextAtsSeen \cup ({d.nextAt} \ {Null})
           /\ DeliveredAtsSeen' = DeliveredAtsSeen \cup ({d.deliveredAt} \ {Null})
<1>1. /\ slice' \in Seq(StoredRows)
      /\ slice' # <<>>
      /\ DOMAIN slice' = DOMAIN slice \cup {Len(slice) + 1}
      /\ slice'[Len(slice) + 1] = d
      /\ \A i \in DOMAIN slice : slice'[i] = slice[i]
  OBVIOUS
<1> QED
  BY <1>1 DEF StatusesSeen, AttemptsSeen, NextAtsSeen, DeliveredAtsSeen

\* The values seen are those of stored rows.
LEMMA SeenType ==
    ASSUME slice \in Seq(StoredRows)
    PROVE  /\ StatusesSeen \subseteq Statuses
           /\ AttemptsSeen \subseteq Nat
           /\ NextAtsSeen \subseteq Nat
           /\ DeliveredAtsSeen \subseteq Nat
           /\ slice = <<>> <=> AttemptsSeen = {}
<1>1. \A i \in DOMAIN slice : slice[i] \in StoredRows
  OBVIOUS
<1>2. slice = <<>> <=> DOMAIN slice = {}
  OBVIOUS
<1> QED
  BY <1>1, <1>2, StoredRowType, Zenon DEF StatusesSeen, AttemptsSeen, NextAtsSeen, DeliveredAtsSeen

\* The two comparisons of the loop body, with no value yet (Null) or one.
LEMMA GreatestStep ==
    ASSUME NEW S \in SUBSET Nat, NEW x, NEW y \in Nat \cup {Null},
           IF S = {} THEN x = Null ELSE IsGreatest(x, S)
    PROVE  LET z == IF y # Null /\ (x = Null \/ y > x) THEN y ELSE x
               T == S \cup ({y} \ {Null})
           IN  IF T = {} THEN z = Null ELSE IsGreatest(z, T)
<1> USE NullAssumption
<1>1. CASE y = Null
  BY <1>1, Zenon
<1>2. CASE y \in Nat /\ S = {}
  BY <1>2 DEF IsGreatest
<1>3. CASE y \in Nat /\ S # {}
  <2>1. x \in Nat /\ x # Null /\ IsGreatest(x, S)
    BY <1>3, Zenon DEF IsGreatest
  <2>2. IsGreatest(IF y > x THEN y ELSE x, S \cup {y})
    BY <1>3, <2>1 DEF IsGreatest
  <2> QED
    BY <1>3, <2>1, <2>2, Zenon
<1> QED
  BY <1>1, <1>2, <1>3

LEMMA LeastStep ==
    ASSUME NEW S \in SUBSET Nat, NEW x, NEW y \in Nat \cup {Null},
           IF S = {} THEN x = Null ELSE IsLeast(x, S)
    PROVE  LET z == IF sooner(x, y) THEN y ELSE x
               T == S \cup ({y} \ {Null})
           IN  IF T = {} THEN z = Null ELSE IsLeast(z, T)
<1> USE NullAssumption DEF sooner
<1>1. CASE y = Null
  BY <1>1, Zenon
<1>2. CASE y \in Nat /\ S = {}
  BY <1>2 DEF IsLeast
<1>3. CASE y \in Nat /\ S # {}
  <2>1. x \in Nat /\ x # Null /\ IsLeast(x, S)
    BY <1>3, Zenon DEF IsLeast
  <2>2. IsLeast(IF y < x THEN y ELSE x, S \cup {y})
    BY <1>3, <2>1 DEF IsLeast
  <2> QED
    BY <1>3, <2>1, <2>2, Zenon
<1> QED
  BY <1>1, <1>2, <1>3

\* The attempts start at 0.
LEMMA MostStep ==
    ASSUME NEW S \in SUBSET Nat, NEW x, NEW y \in Nat,
           IF S = {} THEN x = 0 ELSE IsGreatest(x, S)
    PROVE  IsGreatest(IF y > x THEN y ELSE x, S \cup {y})
<1>1. CASE S = {}
  BY <1>1 DEF IsGreatest
<1>2. CASE S # {}
  <2>1. x \in Nat /\ IsGreatest(x, S)
    BY <1>2, Zenon DEF IsGreatest
  <2> QED
    BY <2>1 DEF IsGreatest
<1> QED
  BY <1>1, <1>2

\* An iteration keeps the accumulator right.
LEMMA AccStep == AccInv /\ [ProjectionNext]_<<slice, acc>> => AccInv'
<1> SUFFICES ASSUME AccInv, [ProjectionNext]_<<slice, acc>> PROVE AccInv'
  OBVIOUS
<1> USE NullAssumption
<1>1. CASE UNCHANGED <<slice, acc>>
  BY <1>1, Zenon DEF AccInv, StatusesSeen, AttemptsSeen, NextAtsSeen, DeliveredAtsSeen
<1>2. CASE ProjectionNext
  <2>1. PICK d \in StoredRows : VisitRow(d)
    BY <1>2 DEF ProjectionNext
  <2> slice \in Seq(StoredRows) /\ slice' = Append(slice, d) /\ Accumulate(d)
    BY <2>1 DEF AccInv, VisitRow
  <2> /\ slice' \in Seq(StoredRows)
      /\ slice' # <<>>
      /\ StatusesSeen' = StatusesSeen \cup {d.status}
      /\ AttemptsSeen' = AttemptsSeen \cup {d.attempts}
      /\ NextAtsSeen' = NextAtsSeen \cup ({d.nextAt} \ {Null})
      /\ DeliveredAtsSeen' = DeliveredAtsSeen \cup ({d.deliveredAt} \ {Null})
    BY SeenGrows
  <2> /\ StatusesSeen \subseteq Statuses
      /\ AttemptsSeen \subseteq Nat
      /\ NextAtsSeen \subseteq Nat
      /\ DeliveredAtsSeen \subseteq Nat
      /\ slice = <<>> <=> AttemptsSeen = {}
    BY SeenType
  <2> /\ d.status \in Statuses
      /\ d.attempts \in Nat
      /\ d.nextAt \in Nat \cup {Null}
      /\ d.deliveredAt \in Nat \cup {Null}
    BY StoredRowType
  <2>2. acc'.status = ProjectStatus(StatusesSeen')
    <3>1. acc'.status = NextStatus(acc.status, d.status)
      BY Zenon DEF Accumulate
    <3> QED
      BY <3>1, NextStatusPrecedence, ZenonT(30) DEF AccInv
  <2>3. acc'.allDelivered <=> StatusesSeen' \subseteq {"delivered"}
    <3>1. acc'.allDelivered = (acc.allDelivered /\ d.status = "delivered")
      BY Zenon DEF Accumulate
    <3> QED
      BY <3>1, Zenon DEF AccInv
  <2>4. IsGreatest(acc'.attempts, AttemptsSeen')
    <3>1. acc'.attempts = IF d.attempts > acc.attempts THEN d.attempts ELSE acc.attempts
      BY Zenon DEF Accumulate
    <3>2. IF AttemptsSeen = {} THEN acc.attempts = 0 ELSE IsGreatest(acc.attempts, AttemptsSeen)
      BY Zenon DEF AccInv
    <3> QED
      BY <3>1, <3>2, MostStep, Zenon
  <2>5. IF NextAtsSeen' = {} THEN acc'.nextAt = Null ELSE IsLeast(acc'.nextAt, NextAtsSeen')
    <3>1. acc'.nextAt = IF sooner(acc.nextAt, d.nextAt) THEN d.nextAt ELSE acc.nextAt
      BY Zenon DEF Accumulate
    <3>2. IF NextAtsSeen = {} THEN acc.nextAt = Null ELSE IsLeast(acc.nextAt, NextAtsSeen)
      BY DEF AccInv
    <3> QED
      BY <3>1, <3>2, LeastStep, Zenon
  <2>6. IF DeliveredAtsSeen' = {}
           THEN acc'.deliveredAt = Null ELSE IsGreatest(acc'.deliveredAt, DeliveredAtsSeen')
    <3>1. acc'.deliveredAt = IF d.deliveredAt # Null
                                /\ (acc.deliveredAt = Null \/ d.deliveredAt > acc.deliveredAt)
                             THEN d.deliveredAt ELSE acc.deliveredAt
      BY Zenon DEF Accumulate
    <3>2. IF DeliveredAtsSeen = {}
            THEN acc.deliveredAt = Null ELSE IsGreatest(acc.deliveredAt, DeliveredAtsSeen)
      BY DEF AccInv
    <3> QED
      BY <3>1, <3>2, GreatestStep, Zenon
  <2> QED
    BY <2>2, <2>3, <2>4, <2>5, <2>6, Zenon DEF AccInv
<1> QED
  BY <1>1, <1>2

\* The invariant of the loop.
THEOREM LoopInvariance == ProjectionSpec => []AccInv
BY AccInit, AccStep, PTL DEF ProjectionSpec

\* For every slice of stored rows, in every order, the status that
\* ProjectEventFromDeliveries returns is the one of highest precedence.
THEOREM PrecedenceKept == ProjectionSpec => []StatusIsPrecedence
<1>1. AccInv => StatusIsPrecedence
  <2> SUFFICES ASSUME AccInv PROVE StatusIsPrecedence
    OBVIOUS
  <2>1. CASE slice = <<>>
    <3>1. ProjectStatus(StatusesSeen) = "delivered"
      BY <2>1 DEF ProjectStatus, StatusesSeen
    <3> QED
      BY <2>1, <3>1, Zenon DEF StatusIsPrecedence, ProjectEventFromDeliveries
  <2>2. CASE slice # <<>> /\ acc.allDelivered
    <3>1. StatusesSeen \subseteq {"delivered"}
      BY <2>2, Zenon DEF AccInv
    <3>2. ProjectStatus(StatusesSeen) = "delivered"
      BY <3>1 DEF ProjectStatus
    <3> QED
      BY <2>2, <3>2, Zenon DEF StatusIsPrecedence, ProjectEventFromDeliveries
  <2>3. CASE slice # <<>> /\ ~acc.allDelivered
    BY <2>3, Zenon DEF AccInv, StatusIsPrecedence, ProjectEventFromDeliveries
  <2> QED
    BY <2>1, <2>2, <2>3
<1> QED
  BY <1>1, LoopInvariance, PTL

\* For every slice, the next attempt that ProjectEventFromDeliveries returns
\* is the soonest of the rows', and the attempts are the most of any row.
THEOREM SoonestKept == ProjectionSpec => []NextIsSoonest
<1>1. AccInv => NextIsSoonest
  <2> SUFFICES ASSUME AccInv PROVE NextIsSoonest
    OBVIOUS
  <2>1. CASE slice = <<>>
    <3>1. NextAtsSeen = {}
      BY <2>1 DEF NextAtsSeen
    <3> QED
      BY <2>1, <3>1, Zenon DEF NextIsSoonest, ProjectEventFromDeliveries
  <2>2. CASE slice # <<>>
    BY <2>2, Zenon DEF AccInv, NextIsSoonest, ProjectEventFromDeliveries
  <2> QED
    BY <2>1, <2>2
<1> QED
  BY <1>1, LoopInvariance, PTL

\* For every slice, ProjectEventFromDeliveries returns a delivery time exactly
\* when every row is delivered, and then it is the last one.
THEOREM DeliveredAtKept == ProjectionSpec => []DeliveredAtIsLast
<1>1. AccInv => DeliveredAtIsLast
  <2> SUFFICES ASSUME AccInv PROVE DeliveredAtIsLast
    OBVIOUS
  <2> slice \in Seq(StoredRows)
    BY DEF AccInv
  <2>1. \A i \in DOMAIN slice : slice[i].status = "delivered" <=> slice[i].deliveredAt # Null
    <3>1. \A i \in DOMAIN slice : slice[i] \in StoredRows
      OBVIOUS
    <3> QED
      BY <3>1, StoredRowType
  <2>2. slice # <<>> => DOMAIN slice # {}
    BY SeenType, Zenon DEF AttemptsSeen
  <2>3. CASE slice = <<>>
    <3>1. Now # Null
      BY ProjectionAssumption, NullAssumption
    <3> QED
      BY <2>3, <3>1, Zenon DEF DeliveredAtIsLast, ProjectEventFromDeliveries
  <2>4. CASE slice # <<>> /\ acc.allDelivered
    <3>1. DeliveredAtsSeen # {}
      BY <2>1, <2>2, <2>4, ZenonT(30) DEF AccInv, StatusesSeen, DeliveredAtsSeen
    <3> QED
      BY <2>4, <3>1, Zenon DEF AccInv, DeliveredAtIsLast, ProjectEventFromDeliveries, IsGreatest, DeliveredAtsSeen
  <2>5. CASE slice # <<>> /\ ~acc.allDelivered
    <3>1. StatusesSeen \subseteq Statuses /\ ~(StatusesSeen \subseteq {"delivered"})
      BY <2>5, SeenType DEF AccInv
    <3>2. ProjectStatus(StatusesSeen) # "delivered"
      BY <3>1 DEF ProjectStatus, Statuses
    <3> QED
      BY <2>5, <3>2 DEF AccInv, DeliveredAtIsLast, ProjectEventFromDeliveries
  <2> QED
    BY <2>3, <2>4, <2>5
<1> QED
  BY <1>1, LoopInvariance, PTL
=============================================================================
