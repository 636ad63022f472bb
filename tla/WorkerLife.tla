----------------------------- MODULE WorkerLife -----------------------------
(***************************************************************************)
(* A worker process from its start to its exit: runtime.ts opens the pool, *)
(* the trace recorder and pg-boss, worker.ts registers the consumers, runs *)
(* the queue diagnostics and answers the readiness probe; on SIGTERM the   *)
(* layers are released in the opposite order, each within a bound:         *)
(* diagnostics and health server, consumers, boss, tracked handlers,       *)
(* traces and analytics, pool.                                             *)
(*                                                                         *)
(* A handler is a job of a plain queue, of a durable queue (tracked twice) *)
(* or the retention sweep, whose parallel delete loops are modelled here.  *)
(* What a durable handler does is LeasedWork; what the recorder does with  *)
(* a span is TraceQueue.                                                   *)
(***************************************************************************)
EXTENDS Naturals, FiniteSets

CONSTANTS
    ConsumerQueues,   \* WORKER_CONSUMER_QUEUES
    WorkerJobs,       \* jobs that may be delivered while the worker lives
    QueueOf,          \* the queue of each job
    DurableJobs,      \* the jobs of the durable queues
    RetentionJob,     \* the job of the retention queue
    SweptTables,      \* the tables runRetention deletes from in parallel
    ExpiredRows,      \* expired rows of each of them
    RetentionBatch    \* RETENTION_DELETE_BATCH_SIZE

ASSUME WorkerAssumption ==
    /\ QueueOf \in [WorkerJobs -> ConsumerQueues]
    /\ DurableJobs \subseteq WorkerJobs /\ RetentionJob \in WorkerJobs \ DurableJobs
    /\ ExpiredRows \in [SweptTables -> Nat] /\ RetentionBatch \in Nat \ {0}

VARIABLES
    wlPhase,       \* how far the start or the release has come
    wlStop,        \* SIGTERM was received
    wlRegistered,  \* registeredQueues
    wlConsuming,   \* the registered consumers fetch jobs
    wlJob,         \* where each job is
    wlSpan,        \* the execution span of each durable job
    wlTraces,      \* the recorder accepts events
    wlTick,        \* a diagnostics tick is in flight
    wlProbe,       \* the last readiness probe
    wlSurvivors,   \* handlers still running when the first settle gave up
    wlDeadline,    \* the deadline of the settle that runs has passed
    wlReported,    \* handlers counted by agent_worker_shutdown_incomplete
    wlSweep        \* per table: the delete loop and the rows it still has to find

workerVars == <<wlPhase, wlStop, wlRegistered, wlConsuming, wlJob, wlSpan, wlTraces,
                wlTick, wlProbe, wlSurvivors, wlDeadline, wlReported, wlSweep>>

WorkerLifeTypeOK ==
    /\ wlPhase \in {"new", "pool", "boss", "registering", "diagnosing", "serving", "closing",
                    "stopping", "settling", "draining", "ending", "exited"}
    /\ {wlStop, wlConsuming, wlTraces, wlTick, wlDeadline} \subseteq BOOLEAN
    /\ wlRegistered \subseteq ConsumerQueues
    /\ wlJob \in [WorkerJobs -> {"waiting", "fetched", "running", "done", "failed", "lost"}]
    /\ wlSpan \in [DurableJobs -> {"none", "recorded", "lost"}]
    /\ wlProbe \in {"none", "asked", "ready", "not ready"}
    /\ wlSurvivors \subseteq WorkerJobs /\ wlReported \subseteq WorkerJobs
    /\ wlSweep \in [SweptTables -> [loop : {"off", "on", "done", "failed"},
                                    rows : Nat]]

WorkerInit ==
    /\ wlPhase = "new" /\ wlStop = FALSE
    /\ wlRegistered = {} /\ wlConsuming = FALSE
    /\ wlJob = [j \in WorkerJobs |-> "waiting"]
    /\ wlSpan = [j \in DurableJobs |-> "none"]
    /\ wlTraces = FALSE /\ wlTick = FALSE /\ wlProbe = "none"
    /\ wlSurvivors = {} /\ wlReported = {} /\ wlDeadline = FALSE
    /\ wlSweep = [t \in SweptTables |-> [loop |-> "off", rows |-> ExpiredRows[t]]]

InFlight == {j \in WorkerJobs : wlJob[j] = "running"}
DurableInFlight == InFlight \cap DurableJobs

jobVars == <<wlJob, wlSpan, wlSweep>>
stopVars == <<wlSurvivors, wlReported, wlDeadline>>

-----------------------------------------------------------------------------
(* Start.  Each layer is acquired uninterruptibly; a failed one releases   *)
(* the layers below it.                                                    *)

(* AgentWorkPoolLive and AgentWorkExecutionsLive: migrations ran, or the   *)
(* pool is ended; the recorder is opened with the tracker.                 *)
OpenPool ==
    /\ wlPhase = "new"
    /\ \/ wlPhase' = "pool" /\ wlTraces' = TRUE
       \/ wlPhase' = "exited" /\ wlTraces' = FALSE
    /\ UNCHANGED <<wlStop, wlRegistered, wlConsuming, jobVars, wlTick, wlProbe, stopVars>>

(* AgentWorkBossLive: pg-boss is started, or stopped again when its start  *)
(* fails, which releases the tracker.                                      *)
createStartedBoss ==
    /\ wlPhase = "pool"
    /\ wlPhase' \in {"boss", "settling"}
    /\ UNCHANGED <<wlStop, wlRegistered, wlConsuming, jobVars, wlTraces, wlTick, wlProbe,
                   stopVars>>

(* The queues exist; when they cannot be made the boss is stopped.         *)
ensureAgentQueues ==
    /\ wlPhase = "boss"
    /\ \/ wlPhase' = "registering" /\ wlConsuming' = TRUE
       \/ wlPhase' = "stopping" /\ wlConsuming' = FALSE
    /\ UNCHANGED <<wlStop, wlRegistered, jobVars, wlTraces, wlTick, wlProbe, stopVars>>

registerQueue(q) ==
    /\ wlPhase = "registering" /\ q \notin wlRegistered
    /\ wlRegistered' = wlRegistered \cup {q}
    /\ wlPhase' = IF wlRegistered' = ConsumerQueues THEN "diagnosing" ELSE wlPhase
    /\ UNCHANGED <<wlStop, wlConsuming, jobVars, wlTraces, wlTick, wlProbe, stopVars>>

(* A registration fails, or the first diagnostics run cannot read a        *)
(* queue's counts: the acquire fails, nothing of AgentWorkerLive is        *)
(* released, and the boss is stopped.                                      *)
StartFails ==
    /\ wlPhase \in {"registering", "diagnosing"}
    /\ wlPhase' = "stopping" /\ wlConsuming' = FALSE
    /\ UNCHANGED <<wlStop, wlRegistered, jobVars, wlTraces, wlTick, wlProbe, stopVars>>

FirstDiagnostics ==
    /\ wlPhase = "diagnosing"
    /\ wlPhase' = "serving"
    /\ UNCHANGED <<wlStop, wlRegistered, wlConsuming, jobVars, wlTraces, wlTick, wlProbe,
                   stopVars>>

-----------------------------------------------------------------------------
(* Service. *)

(* The interval skips its turn while a tick is in flight.                  *)
startPeriodicQueueDiagnostics ==
    /\ \/ wlPhase = "serving" /\ ~wlTick
       \/ wlTick /\ wlPhase # "exited"
    /\ wlTick' = ~wlTick
    /\ UNCHANGED <<wlPhase, wlStop, wlRegistered, wlConsuming, jobVars, wlTraces, wlProbe,
                   stopVars>>

ProbeArrives ==
    /\ wlPhase = "serving" /\ wlProbe # "asked"
    /\ wlProbe' = "asked"
    /\ UNCHANGED <<wlPhase, wlStop, wlRegistered, wlConsuming, jobVars, wlTraces, wlTick,
                   stopVars>>

(* The database answers the ping in time, or not.                          *)
evaluateWorkerReadiness(postgresOk) ==
    IF postgresOk /\ wlRegistered = ConsumerQueues THEN "ready" ELSE "not ready"

ProbeAnswered ==
    /\ wlProbe = "asked"
    /\ \E postgresOk \in BOOLEAN : wlProbe' = evaluateWorkerReadiness(postgresOk)
    /\ UNCHANGED <<wlPhase, wlStop, wlRegistered, wlConsuming, jobVars, wlTraces, wlTick,
                   stopVars>>

FetchJob(j) ==
    /\ wlConsuming /\ QueueOf[j] \in wlRegistered /\ wlJob[j] = "waiting"
    /\ wlJob' = [wlJob EXCEPT ![j] = "fetched"]
    /\ UNCHANGED <<wlPhase, wlStop, wlRegistered, wlConsuming, wlSpan, wlSweep, wlTraces,
                   wlTick, wlProbe, stopVars>>

(* boss.work's handler, tracked for its whole length.  The retention job   *)
(* starts one delete loop per table.                                       *)
StartHandler(j) ==
    /\ wlJob[j] = "fetched"
    /\ wlJob' = [wlJob EXCEPT ![j] = "running"]
    /\ wlSweep' = IF j = RetentionJob
                  THEN [t \in SweptTables |-> [wlSweep[t] EXCEPT !.loop = "on"]]
                  ELSE wlSweep
    /\ UNCHANGED <<wlPhase, wlStop, wlRegistered, wlConsuming, wlSpan, wlTraces, wlTick,
                   wlProbe, stopVars>>

(* A durable handler leaves its execution span with the recorder, which    *)
(* ignores it once it is closed.                                           *)
EndHandler(j) ==
    /\ wlJob[j] = "running" /\ j # RetentionJob /\ wlPhase # "exited"
    /\ wlJob' = [wlJob EXCEPT ![j] = "done"]
    /\ wlSpan' = IF j \in DurableJobs
                 THEN [wlSpan EXCEPT ![j] = IF wlTraces THEN "recorded" ELSE "lost"]
                 ELSE wlSpan
    /\ UNCHANGED <<wlPhase, wlStop, wlRegistered, wlConsuming, wlSweep, wlTraces, wlTick,
                   wlProbe, stopVars>>

-----------------------------------------------------------------------------
(* retention.ts *)

(* A loop ends with the first batch that is not full.                      *)
LoopEnds_FullBatch(batch) == batch <= RetentionBatch

LoopEnds(batch) == batch < RetentionBatch

(* One DELETE of at most a batch of rows.                                  *)
DeleteBatch(t) ==
    LET batch == IF wlSweep[t].rows < RetentionBatch THEN wlSweep[t].rows ELSE RetentionBatch
    IN  /\ wlSweep[t].loop = "on" /\ wlPhase # "exited"
        /\ wlSweep' = [wlSweep EXCEPT
             ![t] = [loop |-> IF LoopEnds(batch) THEN "done" ELSE "on",
                     rows |-> @.rows - batch]]
        /\ UNCHANGED <<wlPhase, wlStop, wlRegistered, wlConsuming, wlJob, wlSpan, wlTraces,
                       wlTick, wlProbe, stopVars>>

(* The statement fails: Promise.all rejects at once and the job with it,   *)
(* the other loops go on unobserved.                                       *)
DeleteFails(t) ==
    /\ wlSweep[t].loop = "on" /\ wlPhase # "exited"
    /\ wlSweep' = [wlSweep EXCEPT ![t].loop = "failed"]
    /\ wlJob' = [wlJob EXCEPT ![RetentionJob] = "failed"]
    /\ UNCHANGED <<wlPhase, wlStop, wlRegistered, wlConsuming, wlSpan, wlTraces, wlTick,
                   wlProbe, stopVars>>

runRetention ==
    /\ wlJob[RetentionJob] = "running" /\ wlPhase # "exited"
    /\ \A t \in SweptTables : wlSweep[t].loop = "done"
    /\ wlJob' = [wlJob EXCEPT ![RetentionJob] = "done"]
    /\ UNCHANGED <<wlPhase, wlStop, wlRegistered, wlConsuming, wlSpan, wlSweep, wlTraces,
                   wlTick, wlProbe, stopVars>>

-----------------------------------------------------------------------------
(* Release. *)

RequestStop ==
    /\ ~wlStop /\ wlPhase # "exited"
    /\ wlStop' = TRUE
    /\ UNCHANGED <<wlPhase, wlRegistered, wlConsuming, jobVars, wlTraces, wlTick, wlProbe,
                   stopVars>>

(* Consumers still fetch while the health server closes.                   *)
ConsumingWhileClosing_Off == FALSE

ConsumingWhileClosing == wlConsuming

(* The interval is cleared and the health server takes no more requests.   *)
(* A tick in flight goes on.                                               *)
StopServing ==
    /\ wlPhase = "serving" /\ wlStop
    /\ wlPhase' = "closing" /\ wlConsuming' = ConsumingWhileClosing
    /\ UNCHANGED <<wlStop, wlRegistered, jobVars, wlTraces, wlTick, wlProbe, stopVars>>

(* health.close() waited for the requests it has; offWork without waiting. *)
stopWorkerConsumers ==
    /\ wlPhase = "closing" /\ wlProbe # "asked"
    /\ wlPhase' = "stopping" /\ wlConsuming' = FALSE
    /\ UNCHANGED <<wlStop, wlRegistered, jobVars, wlTraces, wlTick, wlProbe, stopVars>>

(* boss.stop waits for its workers, at most shutdownDrainTimeoutSeconds,   *)
(* and closes its connection: a fetch still in flight brings no job.       *)
TracesWhileSettling_Closed == FALSE

TracesWhileSettling == wlTraces

stopBoss ==
    /\ wlPhase = "stopping"
    /\ wlPhase' = "settling" /\ wlTraces' = TracesWhileSettling
    /\ wlJob' = [j \in WorkerJobs |-> IF wlJob[j] = "fetched" THEN "lost" ELSE wlJob[j]]
    /\ UNCHANGED <<wlStop, wlRegistered, wlConsuming, wlSpan, wlSweep, wlTick, wlProbe,
                   stopVars>>

(* tracker.settle returns when nothing it watches is in flight, or at its  *)
(* deadline.                                                               *)
SettleReturns_Empty(watched) == watched = {}

SettleReturns(watched) == watched = {} \/ wlDeadline

SettleDeadline ==
    /\ wlPhase \in {"settling", "draining"} /\ ~wlDeadline
    /\ wlDeadline' = TRUE
    /\ UNCHANGED <<wlPhase, wlStop, wlRegistered, wlConsuming, jobVars, wlTraces, wlTick,
                   wlProbe, wlSurvivors, wlReported>>

(* The first settle watches every handler; only then are the traces        *)
(* closed, next to the second settle, which watches the durable ones.      *)
SettleHandlers ==
    /\ wlPhase = "settling" /\ SettleReturns(InFlight)
    /\ wlPhase' = "draining" /\ wlTraces' = FALSE
    /\ wlSurvivors' = InFlight /\ wlDeadline' = FALSE
    /\ UNCHANGED <<wlStop, wlRegistered, wlConsuming, jobVars, wlTick, wlProbe, wlReported>>

(* settle(0): whatever is in flight at the end is counted in the warning.  *)
Pending_DurableOnly == DurableInFlight

Pending == InFlight

SettleDurable ==
    /\ wlPhase = "draining" /\ SettleReturns(DurableInFlight)
    /\ wlPhase' = "ending" /\ wlReported' = Pending
    /\ UNCHANGED <<wlStop, wlRegistered, wlConsuming, jobVars, wlTraces, wlTick, wlProbe,
                   wlSurvivors, wlDeadline>>

PoolEnds ==
    /\ wlPhase = "ending"
    /\ wlPhase' = "exited"
    /\ UNCHANGED <<wlStop, wlRegistered, wlConsuming, jobVars, wlTraces, wlTick, wlProbe,
                   stopVars>>

-----------------------------------------------------------------------------
ReleaseStep == \/ StopServing \/ stopWorkerConsumers \/ stopBoss
               \/ SettleHandlers \/ SettleDurable \/ PoolEnds

WorkerNext ==
    \/ OpenPool \/ createStartedBoss \/ ensureAgentQueues \/ StartFails \/ FirstDiagnostics
    \/ \E q \in ConsumerQueues : registerQueue(q)
    \/ startPeriodicQueueDiagnostics \/ ProbeArrives \/ ProbeAnswered
    \/ \E j \in WorkerJobs : FetchJob(j) \/ StartHandler(j) \/ EndHandler(j)
    \/ \E t \in SweptTables : DeleteBatch(t) \/ DeleteFails(t)
    \/ runRetention
    \/ RequestStop \/ StopServing \/ stopWorkerConsumers \/ stopBoss
    \/ SettleHandlers \/ SettleDeadline \/ SettleDurable \/ PoolEnds

(* Timers fire and the probe is answered (its ping is bounded); a handler  *)
(* need never end.                                                         *)
WorkerFair == WF_workerVars(ReleaseStep) /\ WF_workerVars(SettleDeadline)
              /\ WF_workerVars(ProbeAnswered)

WorkerSpec == WorkerInit /\ [][WorkerNext]_workerVars /\ WorkerFair

-----------------------------------------------------------------------------
(* The readiness probe says ready only while every consumer fetches jobs,  *)
(* also for a probe that was asked before the shutdown began.              *)
ReadyWhileConsuming ==
    [][wlProbe = "asked" /\ wlProbe' = "ready" =>
         wlConsuming /\ wlRegistered = ConsumerQueues]_workerVars

(* An execution span is lost only for a handler that outlived the first    *)
(* settle: one that ended while the worker still waited for it keeps its   *)
(* trace.                                                                  *)
LostSpanOutlived ==
    \A j \in DurableJobs : wlSpan[j] = "lost" => j \in wlSurvivors

(* The pool is ended under a running handler only when the shutdown        *)
(* warning counted it.                                                     *)
OutlivedIsReported ==
    wlPhase \in {"ending", "exited"} => InFlight \subseteq wlReported

(* A retention job that reports success left no expired row behind, also   *)
(* when the last batch was exactly full.                                   *)
RetentionComplete ==
    wlJob[RetentionJob] = "done" => \A t \in SweptTables : wlSweep[t].rows = 0

(* A serving worker that is told to stop exits, whatever its handlers do.  *)
ShutdownEnds == wlStop /\ wlPhase = "serving" ~> wlPhase = "exited"

(* What a worker promises: it is ready while it consumes, it reports every *)
(* handler it leaves behind and loses no other span, and its retention     *)
(* sweep is complete.                                                      *)
WorkerSound ==
  /\ [](WorkerLifeTypeOK /\ LostSpanOutlived /\ OutlivedIsReported /\ RetentionComplete)
  /\ ReadyWhileConsuming

=============================================================================
