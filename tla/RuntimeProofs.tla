---------------------------- MODULE RuntimeProofs ----------------------------
(***************************************************************************)
(* Proofs about the runtime's components: the webhook request              *)
(* (WebhookRequest), one git command (GitProcess), the life of a worker    *)
(* process (WorkerLife) and the shared checkouts (RepositoryView).  Each   *)
(* part gives the inductive invariant of its component, the lemma that one *)
(* step keeps it, and the theorem that the component keeps what it         *)
(* promises.                                                               *)
(***************************************************************************)
EXTENDS WebhookRequest, WorkerLife, GitProcess, RepositoryView, FiniteSetTheorems,
        WellFoundedInduction, TLAPS

-----------------------------------------------------------------------------
(* WebhookRequest *)

WebhookPhases == {"idle", "body", "read", "identity", "submit", "late", "answered", "gone"}

RequestRecord == [phase : WebhookPhases, event : WebhookEvents \cup {"none"},
                  command : IntakeCommands, answer : Answers]

Refusals == {"400", "401", "413", "422", "503 timeout"}

CommentOrReview == {"issue_comment", "pull_request_review_comment", "pull_request_review"}

\* A command of a comment or a review is an order only of somebody who may give it.
Authorized(e, command) ==
    e.name \in CommentOrReview /\ command \in {"slash", "review_approved"}
        => e.allowed /\ e.author # "self"

\* Where the handler of a request is, what its submit did, and what it answered agree.
RequestConsistent(r) ==
    /\ whFiber[r] # "none" =>
         /\ whRequest[r].phase \in {"submit", "late", "answered", "gone"}
         /\ Authorized(whRequest[r].event, whRequest[r].command)
    /\ whRequest[r].phase = "submit" => whFiber[r] # "none"
    /\ r \in whStored => whFiber[r] \in {"success", "failure"}
    /\ whFiber[r] = "success" => r \in whStored
    /\ whRequest[r].answer # "none" => whRequest[r].phase = "answered"
    /\ whRequest[r].answer = "200" => whFiber[r] = "success"
    /\ whRequest[r].answer \in Refusals => whFiber[r] = "none"

WebhookInv ==
    /\ whRequest \in [Requests -> RequestRecord]
    /\ whFiber \in [Requests -> {"none", "running", "success", "failure"}]
    /\ whStored \subseteq Requests
    /\ whIdentity \in {"none", "pending", "known"} /\ whLookup \in BOOLEAN
    /\ CachedLookupIsLive
    /\ \A r \in Requests : RequestConsistent(r)

\* A command that needs the bot's identity is never submitted without it, and one that is
\* submitted is authorized.
LEMMA CommandsTyped ==
  ASSUME NEW e, NEW bot \in BOOLEAN
  PROVE  /\ toIntakeCommand(e, bot) \in IntakeCommands \cup {"auth_required"}
         /\ toIntakeCommand(e, TRUE) # "auth_required"
<1>1. /\ authorize(e, parseGithubPayload(e) = "pull_request_review", bot)
           \in {"ignored", "auth_required", "granted"}
      /\ authorize(e, parseGithubPayload(e) = "pull_request_review", TRUE)
           \in {"ignored", "granted"}
  BY DEF authorize
<1>2. \A p : ciCommand(e, p) \in {"ignored", "ci_refresh", "ci_state"}
  BY DEF ciCommand
<1> QED
  BY <1>1, <1>2 DEF toIntakeCommand, IntakeCommands

LEMMA CommandsAuthorized ==
  ASSUME NEW e, NEW bot \in BOOLEAN
  PROVE  Authorized(e, toIntakeCommand(e, bot))
<1> DEFINE p == parseGithubPayload(e)
           gate == authorize(e, p = "pull_request_review", bot)
<1> SUFFICES ASSUME e.name \in CommentOrReview,
                    toIntakeCommand(e, bot) \in {"slash", "review_approved"}
             PROVE  e.allowed /\ e.author # "self"
  BY DEF Authorized
<1>1. p \in {"ignored", "parse_error", e.name}
  BY DEF parseGithubPayload, CommentOrReview
<1>2. gate = "granted" => e.allowed /\ e.author # "self"
  BY DEF authorize
<1>3. ciCommand(e, p) \notin {"slash", "review_approved"}
  BY DEF ciCommand
<1>4. gate \in {"ignored", "auth_required", "granted"}
  BY DEF authorize
<1> HIDE DEF p, gate
<1>5. CASE p = "pull_request_review"
  BY <1>2, <1>4, <1>5 DEF toIntakeCommand, p, gate
<1>6. CASE p \in {"issue_comment", "pull_request_review_comment"}
  BY <1>2, <1>4, <1>6 DEF toIntakeCommand, p, gate
<1>7. CASE p \in {"ignored", "parse_error"}
  BY <1>3, <1>7 DEF toIntakeCommand, p
<1> QED
  BY <1>1, <1>5, <1>6, <1>7 DEF CommentOrReview

\* A step of one request leaves the others as they were.
LEMMA RequestStep ==
  ASSUME WebhookInv, NEW r \in Requests, NEW new \in RequestRecord,
         whRequest' = [whRequest EXCEPT ![r] = new],
         whFiber' \in [Requests -> {"none", "running", "success", "failure"}],
         \A q \in Requests \ {r} : whFiber'[q] = whFiber[q],
         whStored' \subseteq Requests, \A q \in Requests \ {r} : q \in whStored' <=> q \in whStored,
         RequestConsistent(r)', UNCHANGED <<whIdentity, whLookup>>
  PROVE  WebhookInv'
<1>1. whRequest' \in [Requests -> RequestRecord]
      /\ \A q \in Requests \ {r} : whRequest'[q] = whRequest[q]
  BY DEF WebhookInv
<1>2. \A q \in Requests \ {r} : RequestConsistent(q)'
  BY <1>1 DEF WebhookInv, RequestConsistent
<1> QED
  BY <1>1, <1>2 DEF WebhookInv, CachedLookupIsLive

\* A request that only moves on, with an answer or without.
LEMMA RequestAnswers ==
  ASSUME WebhookInv, NEW r \in Requests, NEW phase \in WebhookPhases, NEW answer \in Answers,
         whRequest' = [whRequest EXCEPT ![r].phase = phase, ![r].answer = answer],
         UNCHANGED <<whFiber, whStored, whIdentity, whLookup>>,
         whFiber[r] # "none" => phase \in {"submit", "late", "answered", "gone"},
         phase = "submit" => whFiber[r] # "none",
         answer # "none" => phase = "answered",
         answer = "200" => whFiber[r] = "success",
         answer \in Refusals => whFiber[r] = "none"
  PROVE  WebhookInv'
<1> DEFINE new == [whRequest[r] EXCEPT !.phase = phase, !.answer = answer]
<1>1. /\ whRequest[r] \in RequestRecord /\ RequestConsistent(r)
      /\ whRequest \in [Requests -> RequestRecord]
  BY DEF WebhookInv
<1>2. /\ new \in RequestRecord /\ new.phase = phase /\ new.answer = answer
      /\ new.event = whRequest[r].event /\ new.command = whRequest[r].command
  BY <1>1 DEF RequestRecord
<1>3. whRequest' = [whRequest EXCEPT ![r] = new]
  BY <1>1 DEF RequestRecord
<1> HIDE DEF new
<1>4. RequestConsistent(r)'
  BY <1>1, <1>2, <1>3 DEF RequestConsistent
<1> QED
  BY <1>2, <1>3, <1>4, RequestStep DEF WebhookInv

\* The handler of one request, up to its submit or a refusal.
LEMMA AdmittedKeeps ==
  ASSUME WebhookInv, NEW r \in Requests, admitted(r)
  PROVE  WebhookInv'
<1> DEFINE e == whRequest[r].event
           early == toIntakeCommand(e, FALSE)
<1>1. /\ whRequest \in [Requests -> RequestRecord] /\ whRequest[r] \in RequestRecord
      /\ whRequest[r].phase = "read" /\ whRequest[r].answer = "none" /\ UNCHANGED whStored
      /\ whFiber[r] = "none" /\ r \notin whStored
      /\ whFiber \in [Requests -> {"none", "running", "success", "failure"}]
  BY DEF WebhookInv, RequestConsistent, admitted, RequestRecord, Answers
<1>2. ASSUME NEW status \in Refusals, whRequest' = Replied(r, status),
             UNCHANGED <<whFiber, whIdentity, whLookup>>
      PROVE  WebhookInv'
  BY <1>1, <1>2 DEF WebhookInv, Replied, RequestRecord, RequestConsistent, Refusals, Answers,
     WebhookPhases, CachedLookupIsLive
<1>3. CASE getAppBotIdentity(r)
  BY <1>1, <1>3 DEF WebhookInv, getAppBotIdentity, RequestRecord, RequestConsistent,
     WebhookPhases, CachedLookupIsLive
<1>4. ASSUME NEW command \in IntakeCommands, Authorized(e, command), SubmitIntake(r, command),
             UNCHANGED <<whIdentity, whLookup>>
      PROVE  WebhookInv'
  BY <1>1, <1>4 DEF WebhookInv, SubmitIntake, RequestRecord, RequestConsistent, Refusals,
     WebhookPhases, CachedLookupIsLive
<1>5. /\ early \in IntakeCommands \cup {"auth_required"} /\ Authorized(e, early)
      /\ toIntakeCommand(e, TRUE) \in IntakeCommands /\ Authorized(e, toIntakeCommand(e, TRUE))
  BY CommandsTyped, CommandsAuthorized
<1> QED
  BY <1>2, <1>3, <1>4, <1>5 DEF admitted, Refusals

\* The answers, the end of a submit, the budget and the connection.
LEMMA AnswersKeep ==
  ASSUME WebhookInv, NEW r \in Requests,
         \/ \E e \in WebhookEvents : ReceiveRequest(r, e)
         \/ readRawBody(r) \/ dispatchGithubEvent(r) \/ LateAnswer(r) \/ SubmitEnds(r)
         \/ ResponseBudgetOver(r) \/ ClientAborts(r)
  PROVE  WebhookInv'
<1>1. /\ whRequest \in [Requests -> RequestRecord] /\ whRequest[r] \in RequestRecord
      /\ whFiber \in [Requests -> {"none", "running", "success", "failure"}]
      /\ RequestConsistent(r) /\ whStored \subseteq Requests
  BY DEF WebhookInv
<1>2. ASSUME NEW e \in WebhookEvents, ReceiveRequest(r, e)
      PROVE  WebhookInv'
  <2> DEFINE new == [whRequest[r] EXCEPT !.phase = "body", !.event = e]
  <2>1. /\ new \in RequestRecord /\ new.phase = "body" /\ new.answer = whRequest[r].answer
        /\ whRequest' = [whRequest EXCEPT ![r] = new]
    BY <1>1, <1>2 DEF RequestRecord, WebhookPhases, ReceiveRequest
  <2> HIDE DEF new
  <2>2. RequestConsistent(r)'
    BY <1>1, <1>2, <2>1 DEF RequestConsistent, ReceiveRequest, Refusals
  <2> QED
    BY <1>1, <1>2, <2>1, <2>2, RequestStep DEF ReceiveRequest
<1>3. ASSUME NEW phase \in {"read", "late", "gone"}, whRequest' = [whRequest EXCEPT ![r].phase = phase]
      PROVE  whRequest' = [whRequest EXCEPT ![r].phase = phase, ![r].answer = whRequest[r].answer]
  BY <1>1, <1>3 DEF RequestRecord
<1>4. CASE readRawBody(r)
  <2>1. /\ whRequest[r].phase = "body" /\ whFiber[r] = "none" /\ whRequest[r].answer = "none"
        /\ UNCHANGED <<whFiber, whStored, whIdentity, whLookup>>
    BY <1>1, <1>4 DEF readRawBody, RequestConsistent
  <2>2. CASE whRequest' = Replied(r, "413")
    BY <2>1, <2>2, RequestAnswers DEF Replied, WebhookPhases, Answers, Refusals
  <2>3. ASSUME NEW phase \in {"read", "gone"}, whRequest' = [whRequest EXCEPT ![r].phase = phase]
        PROVE  WebhookInv'
    BY <1>3, <2>1, <2>3, RequestAnswers DEF WebhookPhases, Answers, Refusals
  <2> QED
    BY <1>4, <2>2, <2>3 DEF readRawBody
<1>5. CASE dispatchGithubEvent(r) \/ LateAnswer(r)
  <2>1. /\ whFiber[r] \in {"success", "failure", "none"}
        /\ UNCHANGED <<whFiber, whStored, whIdentity, whLookup>>
    BY <1>1, <1>5 DEF dispatchGithubEvent, LateAnswer, detachedCommitLanded
  <2>2. \/ whFiber[r] = "success" /\ whRequest' = Replied(r, "200")
        \/ whRequest' = Replied(r, "503 failed")
        \/ whFiber[r] = "none" /\ whRequest' = Replied(r, "503 timeout")
    BY <1>5 DEF dispatchGithubEvent, LateAnswer, FiberAnswer, detachedCommitLanded
  <2> QED
    BY <2>1, <2>2, RequestAnswers DEF Replied, WebhookPhases, Answers, Refusals
<1>6. CASE SubmitEnds(r)
  <2>1. /\ whFiber'[r] \in {"success", "failure"} /\ UNCHANGED <<whRequest, whIdentity, whLookup>>
        /\ whFiber' \in [Requests -> {"none", "running", "success", "failure"}]
        /\ \A q \in Requests \ {r} : whFiber'[q] = whFiber[q]
        /\ whFiber[r] = "running" /\ whStored' \in {whStored, whStored \cup {r}}
        /\ whFiber'[r] = "success" => r \in whStored'
    BY <1>1, <1>6 DEF SubmitEnds
  <2>2. RequestConsistent(r)'
    BY <1>1, <2>1 DEF RequestConsistent, Refusals
  <2>3. whRequest' = [whRequest EXCEPT ![r] = whRequest[r]]
    BY <1>1, <2>1
  <2> QED
    BY <1>1, <2>1, <2>2, <2>3, RequestStep
<1>7. CASE ResponseBudgetOver(r) \/ ClientAborts(r)
  <2>1. /\ whRequest[r].answer = "none"
        /\ UNCHANGED <<whFiber, whStored, whIdentity, whLookup>>
    BY <1>1, <1>7 DEF ResponseBudgetOver, BudgetCovers, ClientAborts, RequestConsistent
  <2>2. PICK phase \in {"late", "gone"} : whRequest' = [whRequest EXCEPT ![r].phase = phase]
    BY <1>7 DEF ResponseBudgetOver, ClientAborts
  <2> QED
    BY <1>3, <2>1, <2>2, RequestAnswers DEF WebhookPhases, Answers, Refusals
<1> QED
  BY <1>2, <1>4, <1>5, <1>6, <1>7

\* The identity arrives, or does not, for every request that waits for it.
LEMMA IdentityKeeps ==
  ASSUME WebhookInv, IdentityResolved \/ IdentityFailed
  PROVE  WebhookInv'
<1>1. \A r \in Requests :
        /\ whRequest[r] \in RequestRecord /\ RequestConsistent(r)
        /\ toIntakeCommand(whRequest[r].event, TRUE) \in IntakeCommands
        /\ Authorized(whRequest[r].event, toIntakeCommand(whRequest[r].event, TRUE))
  BY CommandsTyped, CommandsAuthorized DEF WebhookInv
<1>2. CASE IdentityResolved
  <2>1. ASSUME NEW r \in Requests
        PROVE  whRequest'[r] \in RequestRecord /\ RequestConsistent(r)'
    BY <1>1, <1>2 DEF IdentityResolved, RequestRecord, RequestConsistent, WebhookPhases, Refusals
  <2> QED
    BY <1>2, <2>1 DEF WebhookInv, IdentityResolved, CachedLookupIsLive
<1>3. CASE IdentityFailed
  <2>1. ASSUME NEW r \in Requests
        PROVE  whRequest'[r] \in RequestRecord /\ RequestConsistent(r)'
    BY <1>1, <1>3 DEF IdentityFailed, RequestRecord, RequestConsistent, WebhookPhases, Answers,
       Refusals
  <2> QED
    BY <1>3, <2>1 DEF WebhookInv, IdentityFailed, ForgottenIdentity, CachedLookupIsLive
<1> QED
  BY <1>2, <1>3

\* The answer to GitHub says what became of the delivery, orders come from who may give them,
\* and a failed identity lookup is not kept: for any number of concurrent requests and events.
THEOREM WebhookIsSound == WebhookSpec => []WebhookSound
<1>1. WebhookInit => WebhookInv
  <2> SUFFICES ASSUME WebhookInit PROVE WebhookInv
    OBVIOUS
  <2>1. Idle \in RequestRecord /\ Idle.phase = "idle" /\ Idle.answer = "none"
    BY DEF Idle, RequestRecord, WebhookPhases, Answers, IntakeCommands
  <2>2. whRequest \in [Requests -> RequestRecord] /\ \A r \in Requests : RequestConsistent(r)
    BY <2>1 DEF WebhookInit, RequestConsistent, Refusals
  <2> QED
    BY <2>2 DEF WebhookInit, WebhookInv, CachedLookupIsLive
<1>2. WebhookInv /\ [WebhookNext]_webhookVars => WebhookInv'
  <2> SUFFICES ASSUME WebhookInv, [WebhookNext]_webhookVars
               PROVE  WebhookInv'
    OBVIOUS
  <2>1. CASE UNCHANGED webhookVars
    BY <2>1 DEF webhookVars, WebhookInv, RequestConsistent, CachedLookupIsLive
  <2> QED
    BY <2>1, AdmittedKeeps, AnswersKeep, IdentityKeeps DEF WebhookNext
<1>3. WebhookInv => WebhookSound
  BY DEF WebhookInv, WebhookSound, WebhookTypeOK, RequestRecord, RequestConsistent, WebhookPhases,
     Refusals, AnswerMatchesCommit, OrdersAreAuthorized, Authorized, CommentOrReview
<1> QED
  BY <1>1, <1>2, <1>3, PTL DEF WebhookSpec

-----------------------------------------------------------------------------
(* WorkerLife *)

Before == {"new", "pool", "boss"}
Fetching == {"registering", "diagnosing", "serving", "closing"}
Stopped == {"settling", "draining", "ending", "exited"}

\* Jobs are fetched from the queues to the stop, and nothing fetched survives the boss.
JobsByPhase ==
    /\ wlConsuming <=> wlPhase \in Fetching
    /\ wlPhase \in Before => /\ \A j \in WorkerJobs : wlJob[j] = "waiting"
                             /\ \A t \in SweptTables : wlSweep[t].loop = "off"
    /\ wlPhase \in Stopped => \A j \in WorkerJobs : wlJob[j] # "fetched"
    /\ wlProbe = "asked" => wlPhase \in {"serving", "closing"}

\* The recorder is open until the first settle is over.
TracesByPhase ==
    /\ wlPhase \notin {"new", "draining", "ending", "exited"} => wlTraces
    /\ ~wlTraces => InFlight \subseteq wlSurvivors
    /\ wlPhase \notin {"draining", "ending", "exited"} => \A j \in DurableJobs : wlSpan[j] # "lost"

\* A delete loop that ended found nothing more.
LoopsComplete ==
    /\ \A t \in SweptTables : wlSweep[t].loop = "done" => wlSweep[t].rows = 0
    /\ wlJob[RetentionJob] = "done" => \A t \in SweptTables : wlSweep[t].loop = "done"

WorkerInv ==
    /\ WorkerLifeTypeOK /\ JobsByPhase /\ TracesByPhase /\ LoopsComplete
    /\ LostSpanOutlived /\ OutlivedIsReported

\* The steps that move no job.
LEMMA PhasesKeep ==
  ASSUME WorkerInv,
         \/ OpenPool \/ createStartedBoss \/ ensureAgentQueues \/ StartFails \/ FirstDiagnostics
         \/ \E q \in ConsumerQueues : registerQueue(q)
         \/ startPeriodicQueueDiagnostics \/ ProbeArrives \/ ProbeAnswered
         \/ RequestStop \/ StopServing \/ stopWorkerConsumers \/ SettleDeadline \/ PoolEnds
  PROVE  WorkerInv'
<1>1. UNCHANGED <<wlJob, wlSpan, wlSweep, wlSurvivors, wlReported>>
  BY DEF OpenPool, createStartedBoss, ensureAgentQueues, StartFails, FirstDiagnostics,
     registerQueue, startPeriodicQueueDiagnostics, ProbeArrives, ProbeAnswered, RequestStop,
     StopServing, stopWorkerConsumers, SettleDeadline, PoolEnds, jobVars, stopVars
<1>2. LoopsComplete' /\ LostSpanOutlived'
  BY <1>1 DEF WorkerInv, LoopsComplete, LostSpanOutlived
<1>3. InFlight' = InFlight
  BY <1>1 DEF InFlight
<1>4. wlPhase \in Before => InFlight = {}
  BY DEF WorkerInv, JobsByPhase, InFlight
<1>5. CASE OpenPool \/ createStartedBoss \/ ensureAgentQueues \/ StartFails \/ FirstDiagnostics
           \/ \E q \in ConsumerQueues : registerQueue(q)
  <2>1. WorkerLifeTypeOK'
    BY <1>1, <1>5 DEF WorkerInv, WorkerLifeTypeOK, OpenPool, createStartedBoss, ensureAgentQueues,
       StartFails, FirstDiagnostics, registerQueue, stopVars
  <2>2. JobsByPhase'
    <3>1. CASE OpenPool
      BY <1>1, <3>1 DEF OpenPool, WorkerInv, JobsByPhase, WorkerLifeTypeOK,
         Before, Fetching, Stopped
    <3>2. CASE createStartedBoss
      BY <1>1, <3>2 DEF createStartedBoss, WorkerInv, JobsByPhase, WorkerLifeTypeOK,
         Before, Fetching, Stopped
    <3>3. CASE ensureAgentQueues
      BY <1>1, <3>3 DEF ensureAgentQueues, WorkerInv, JobsByPhase, WorkerLifeTypeOK,
         Before, Fetching, Stopped
    <3>4. CASE StartFails \/ FirstDiagnostics
      BY <1>1, <3>4 DEF StartFails, FirstDiagnostics, WorkerInv, JobsByPhase, WorkerLifeTypeOK,
         Before, Fetching, Stopped
    <3>5. CASE \E q \in ConsumerQueues : registerQueue(q)
      <4>1. /\ UNCHANGED <<wlConsuming, wlProbe>>
            /\ wlPhase = "registering" /\ wlPhase' \in {"registering", "diagnosing"}
        BY <3>5 DEF registerQueue
      <4> QED
        BY <1>1, <4>1 DEF WorkerInv, JobsByPhase, Before, Fetching, Stopped
    <3> QED
      BY <1>5, <3>1, <3>2, <3>3, <3>4, <3>5
  <2>3. TracesByPhase' /\ OutlivedIsReported'
    BY <1>1, <1>3, <1>4, <1>5 DEF WorkerInv, TracesByPhase, OutlivedIsReported, OpenPool,
       createStartedBoss, ensureAgentQueues, StartFails, FirstDiagnostics, registerQueue, Before
  <2> QED
    BY <1>2, <2>1, <2>2, <2>3 DEF WorkerInv
<1>6. CASE startPeriodicQueueDiagnostics \/ ProbeArrives \/ ProbeAnswered \/ RequestStop
  <2>1. UNCHANGED <<wlPhase, wlConsuming, wlTraces, wlDeadline, wlRegistered>>
    BY <1>6 DEF startPeriodicQueueDiagnostics, ProbeArrives, ProbeAnswered, RequestStop, stopVars
  <2>2. /\ wlProbe' \in {"none", "asked", "ready", "not ready"}
        /\ {wlStop', wlTick'} \subseteq BOOLEAN
        /\ wlProbe' = "asked" => wlProbe = "asked" \/ wlPhase = "serving"
    BY <1>6 DEF startPeriodicQueueDiagnostics, ProbeArrives, ProbeAnswered, RequestStop,
       evaluateWorkerReadiness, WorkerInv, WorkerLifeTypeOK
  <2> QED
    BY <1>1, <1>2, <1>3, <2>1, <2>2 DEF WorkerInv, WorkerLifeTypeOK, JobsByPhase, TracesByPhase,
       OutlivedIsReported
<1>7. CASE StopServing \/ stopWorkerConsumers \/ SettleDeadline \/ PoolEnds
  <2>1. WorkerLifeTypeOK'
    BY <1>1, <1>7 DEF WorkerInv, WorkerLifeTypeOK, StopServing, ConsumingWhileClosing,
       stopWorkerConsumers, SettleDeadline, PoolEnds, stopVars
  <2>2. JobsByPhase'
    <3>1. CASE StopServing
      BY <1>1, <3>1 DEF StopServing, ConsumingWhileClosing, WorkerInv, JobsByPhase, WorkerLifeTypeOK,
         Before, Fetching, Stopped
    <3>2. CASE stopWorkerConsumers
      BY <1>1, <3>2 DEF stopWorkerConsumers, WorkerInv, JobsByPhase, WorkerLifeTypeOK,
         Before, Fetching, Stopped
    <3>3. CASE SettleDeadline
      BY <1>1, <3>3 DEF SettleDeadline, WorkerInv, JobsByPhase, WorkerLifeTypeOK,
         Before, Fetching, Stopped
    <3>4. CASE PoolEnds
      BY <1>1, <3>4 DEF PoolEnds, WorkerInv, JobsByPhase, WorkerLifeTypeOK,
         Before, Fetching, Stopped
    <3> QED
      BY <1>7, <3>1, <3>2, <3>3, <3>4
  <2>3. TracesByPhase' /\ OutlivedIsReported'
    BY <1>1, <1>3, <1>7 DEF WorkerInv, TracesByPhase, OutlivedIsReported, StopServing,
       stopWorkerConsumers, SettleDeadline, PoolEnds
  <2> QED
    BY <1>2, <2>1, <2>2, <2>3 DEF WorkerInv
<1> QED
  BY <1>5, <1>6, <1>7

\* The handlers and the retention sweep.
LEMMA HandlersKeep ==
  ASSUME WorkerInv,
         \/ \E j \in WorkerJobs : FetchJob(j) \/ StartHandler(j) \/ EndHandler(j)
         \/ \E t \in SweptTables : DeleteBatch(t) \/ DeleteFails(t)
         \/ runRetention
  PROVE  WorkerInv'
<1>1. /\ UNCHANGED <<wlPhase, wlStop, wlRegistered, wlConsuming, wlTraces, wlTick, wlProbe,
                     wlSurvivors, wlDeadline, wlReported>>
      /\ wlJob \in [WorkerJobs -> {"waiting", "fetched", "running", "done", "failed", "lost"}]
      /\ wlSpan \in [DurableJobs -> {"none", "recorded", "lost"}]
      /\ wlSweep \in [SweptTables -> [loop : {"off", "on", "done", "failed"}, rows : Nat]]
      /\ RetentionJob \in WorkerJobs \ DurableJobs /\ DurableJobs \subseteq WorkerJobs
  BY WorkerAssumption DEF WorkerInv, WorkerLifeTypeOK, FetchJob, StartHandler, EndHandler,
     DeleteBatch, DeleteFails, runRetention, stopVars
<1>2. CASE \E j \in WorkerJobs : FetchJob(j)
  <2>1. PICK j \in WorkerJobs : FetchJob(j)
    BY <1>2
  <2>2. /\ wlJob' = [wlJob EXCEPT ![j] = "fetched"] /\ wlJob[j] = "waiting" /\ wlConsuming
        /\ UNCHANGED <<wlSpan, wlSweep>>
    BY <2>1 DEF FetchJob
  <2>3. InFlight' = InFlight
    BY <1>1, <2>2 DEF InFlight
  <2> QED
    BY <1>1, <2>2, <2>3 DEF WorkerInv, WorkerLifeTypeOK, JobsByPhase, TracesByPhase, LoopsComplete,
       LostSpanOutlived, OutlivedIsReported, Before, Fetching, Stopped
<1>3. CASE \E j \in WorkerJobs : StartHandler(j)
  <2>1. PICK j \in WorkerJobs : StartHandler(j)
    BY <1>3
  <2>2. /\ wlJob' = [wlJob EXCEPT ![j] = "running"] /\ wlJob[j] = "fetched" /\ UNCHANGED wlSpan
        /\ wlSweep' = IF j = RetentionJob
                      THEN [t \in SweptTables |-> [wlSweep[t] EXCEPT !.loop = "on"]]
                      ELSE wlSweep
    BY <2>1 DEF StartHandler
  <2>3. wlPhase \notin Stopped /\ wlPhase \notin Before
    BY <1>1, <2>2 DEF WorkerInv, JobsByPhase
  <2>4. wlTraces
    BY <2>3 DEF WorkerInv, TracesByPhase, Before, Stopped
  <2>5. /\ wlSweep' \in [SweptTables -> [loop : {"off", "on", "done", "failed"}, rows : Nat]]
        /\ LoopsComplete'
    BY <1>1, <2>2 DEF WorkerInv, LoopsComplete
  <2> QED
    BY <1>1, <2>2, <2>3, <2>4, <2>5 DEF WorkerInv, WorkerLifeTypeOK, JobsByPhase, TracesByPhase,
       LostSpanOutlived, OutlivedIsReported, Before, Fetching, Stopped
<1>4. CASE \E j \in WorkerJobs : EndHandler(j)
  <2>1. PICK j \in WorkerJobs : EndHandler(j)
    BY <1>4
  <2>2. /\ wlJob' = [wlJob EXCEPT ![j] = "done"] /\ wlJob[j] = "running" /\ j # RetentionJob
        /\ UNCHANGED wlSweep
        /\ wlSpan' = IF j \in DurableJobs
                     THEN [wlSpan EXCEPT ![j] = IF wlTraces THEN "recorded" ELSE "lost"]
                     ELSE wlSpan
    BY <2>1 DEF EndHandler
  <2>3. InFlight' \subseteq InFlight /\ j \in InFlight
    BY <1>1, <2>2 DEF InFlight
  <2>4. /\ wlSpan' \in [DurableJobs -> {"none", "recorded", "lost"}]
        /\ LostSpanOutlived' /\ TracesByPhase'
    BY <1>1, <2>2, <2>3 DEF WorkerInv, LostSpanOutlived, TracesByPhase, JobsByPhase, Before
  <2> QED
    BY <1>1, <2>2, <2>3, <2>4 DEF WorkerInv, WorkerLifeTypeOK, JobsByPhase, LoopsComplete,
       OutlivedIsReported, Before
<1>5. CASE \E t \in SweptTables : DeleteBatch(t)
  <2>1. PICK t \in SweptTables : DeleteBatch(t)
    BY <1>5
  <2> DEFINE batch == IF wlSweep[t].rows < RetentionBatch THEN wlSweep[t].rows ELSE RetentionBatch
             new == [loop |-> IF LoopEnds(batch) THEN "done" ELSE "on",
                     rows |-> wlSweep[t].rows - batch]
  <2>2. wlSweep[t] \in [loop : {"off", "on", "done", "failed"}, rows : Nat] /\ RetentionBatch \in Nat
    BY <1>1, WorkerAssumption
  <2>3. /\ new \in [loop : {"off", "on", "done", "failed"}, rows : Nat]
        /\ new.loop = "done" => new.rows = 0
    BY <2>2 DEF LoopEnds
  <2>4. wlSweep' = [wlSweep EXCEPT ![t] = new] /\ UNCHANGED <<wlJob, wlSpan>> /\ wlSweep[t].loop = "on"
    BY <2>1 DEF DeleteBatch
  <2> HIDE DEF new
  <2>5. LoopsComplete'
    BY <1>1, <2>3, <2>4 DEF WorkerInv, LoopsComplete
  <2>6. InFlight' = InFlight
    BY <2>4 DEF InFlight
  <2>7. wlSweep' \in [SweptTables -> [loop : {"off", "on", "done", "failed"}, rows : Nat]]
    BY <1>1, <2>3, <2>4
  <2> QED
    BY <1>1, <2>4, <2>5, <2>6, <2>7 DEF WorkerInv, WorkerLifeTypeOK, JobsByPhase, TracesByPhase,
       LostSpanOutlived, OutlivedIsReported
<1>6. CASE (\E t \in SweptTables : DeleteFails(t)) \/ runRetention
  <2>1. PICK s \in {"done", "failed"} : wlJob' = [wlJob EXCEPT ![RetentionJob] = s]
    BY <1>6 DEF DeleteFails, runRetention
  <2>2. UNCHANGED wlSpan
    BY <1>6 DEF DeleteFails, runRetention
  <2>3. InFlight' \subseteq InFlight
    BY <1>1, <2>1 DEF InFlight
  <2>4. wlSweep' \in [SweptTables -> [loop : {"off", "on", "done", "failed"}, rows : Nat]]
    BY <1>1, <1>6 DEF DeleteFails, runRetention
  <2>5. LoopsComplete'
    BY <1>1, <1>6 DEF DeleteFails, runRetention, WorkerInv, LoopsComplete
  <2>6. wlPhase \notin Before
    <3>1. CASE \E t \in SweptTables : DeleteFails(t)
      <4>1. PICK t \in SweptTables : DeleteFails(t)
        BY <3>1
      <4>2. wlSweep[t].loop # "off"
        BY <4>1 DEF DeleteFails
      <4> QED
        BY <4>2 DEF WorkerInv, JobsByPhase
    <3>2. CASE runRetention
      <4>1. wlJob[RetentionJob] # "waiting" /\ RetentionJob \in WorkerJobs
        BY <1>1, <3>2 DEF runRetention
      <4> QED
        BY <4>1 DEF WorkerInv, JobsByPhase
    <3> QED
      BY <1>6, <3>1, <3>2
  <2> QED
    BY <1>1, <2>1, <2>2, <2>3, <2>4, <2>5, <2>6 DEF WorkerInv, WorkerLifeTypeOK, JobsByPhase,
       TracesByPhase, LostSpanOutlived, OutlivedIsReported
<1> QED
  BY <1>2, <1>3, <1>4, <1>5, <1>6

\* The boss stops, and the handlers settle.
LEMMA ReleaseKeeps ==
  ASSUME WorkerInv, stopBoss \/ SettleHandlers \/ SettleDurable
  PROVE  WorkerInv'
<1>1. /\ wlJob \in [WorkerJobs -> {"waiting", "fetched", "running", "done", "failed", "lost"}]
      /\ RetentionJob \in WorkerJobs /\ InFlight \subseteq WorkerJobs
  BY WorkerAssumption DEF WorkerInv, WorkerLifeTypeOK, InFlight
<1>2. CASE stopBoss
  <2>1. wlJob' = [j \in WorkerJobs |-> IF wlJob[j] = "fetched" THEN "lost" ELSE wlJob[j]]
    BY <1>2 DEF stopBoss
  <2>2. InFlight' = InFlight /\ \A j \in WorkerJobs : wlJob'[j] # "fetched"
    BY <1>1, <2>1 DEF InFlight
  <2>3. wlJob' \in [WorkerJobs -> {"waiting", "fetched", "running", "done", "failed", "lost"}]
    BY <1>1, <2>1
  <2>4. LoopsComplete' /\ LostSpanOutlived'
    BY <1>1, <1>2, <2>1 DEF stopBoss, stopVars, WorkerInv, LoopsComplete, LostSpanOutlived
  <2>5. TracesByPhase'
    BY <1>2, <2>2 DEF stopBoss, stopVars, TracesWhileSettling, WorkerInv, TracesByPhase
  <2> QED
    BY <1>2, <2>2, <2>3, <2>4, <2>5 DEF stopBoss, stopVars, TracesWhileSettling, WorkerInv,
       WorkerLifeTypeOK, JobsByPhase, OutlivedIsReported, Before, Fetching, Stopped
<1>3. CASE SettleHandlers
  <2>1. InFlight' = InFlight /\ wlSurvivors' = InFlight /\ UNCHANGED <<wlJob, wlSpan, wlSweep, wlReported>>
    BY <1>3 DEF SettleHandlers, jobVars, InFlight
  <2>2. TracesByPhase' /\ LostSpanOutlived' /\ LoopsComplete'
    BY <1>3, <2>1 DEF SettleHandlers, WorkerInv, TracesByPhase, LostSpanOutlived, LoopsComplete
  <2> QED
    BY <1>1, <1>3, <2>1, <2>2 DEF SettleHandlers, WorkerInv, WorkerLifeTypeOK, JobsByPhase,
       OutlivedIsReported, Before, Fetching, Stopped
<1>4. CASE SettleDurable
  <2>1. InFlight' = InFlight /\ wlReported' = InFlight /\ UNCHANGED <<wlJob, wlSpan, wlSweep, wlSurvivors>>
    BY <1>4 DEF SettleDurable, Pending, jobVars, InFlight
  <2>2. TracesByPhase' /\ LostSpanOutlived' /\ LoopsComplete'
    BY <1>4, <2>1 DEF SettleDurable, WorkerInv, TracesByPhase, LostSpanOutlived, LoopsComplete
  <2> QED
    BY <1>1, <1>4, <2>1, <2>2 DEF SettleDurable, WorkerInv, WorkerLifeTypeOK, JobsByPhase,
       OutlivedIsReported, Before, Fetching, Stopped
<1> QED
  BY <1>2, <1>3, <1>4

\* A worker says ready only while it consumes, leaves no handler unreported and no span of a
\* handler it waited for, and its sweep is complete: for every set of queues, jobs and rows.
THEOREM WorkerIsSound == WorkerSpec => WorkerSound
<1>1. WorkerInit => WorkerInv
  <2> SUFFICES ASSUME WorkerInit PROVE WorkerInv
    OBVIOUS
  <2>1. /\ RetentionJob \in WorkerJobs
        /\ \A j \in WorkerJobs : wlJob[j] = "waiting"
        /\ \A j \in DurableJobs : wlSpan[j] = "none"
        /\ \A t \in SweptTables : wlSweep[t].loop = "off"
        /\ InFlight = {}
    BY WorkerAssumption DEF WorkerInit, InFlight
  <2>2. wlSweep \in [SweptTables -> [loop : {"off", "on", "done", "failed"}, rows : Nat]]
    BY WorkerAssumption DEF WorkerInit
  <2>3. WorkerLifeTypeOK
    BY <2>2 DEF WorkerInit, WorkerLifeTypeOK
  <2>4. JobsByPhase
    BY <2>1 DEF WorkerInit, JobsByPhase, Before, Fetching, Stopped
  <2>5. TracesByPhase /\ LoopsComplete
    BY <2>1 DEF WorkerInit, TracesByPhase, LoopsComplete
  <2>6. LostSpanOutlived /\ OutlivedIsReported
    BY <2>1 DEF WorkerInit, LostSpanOutlived, OutlivedIsReported
  <2> QED
    BY <2>3, <2>4, <2>5, <2>6 DEF WorkerInv
<1>2. WorkerInv /\ [WorkerNext]_workerVars => WorkerInv'
  <2> SUFFICES ASSUME WorkerInv, [WorkerNext]_workerVars
               PROVE  WorkerInv'
    OBVIOUS
  <2>1. CASE UNCHANGED workerVars
    BY <2>1 DEF workerVars, WorkerInv, WorkerLifeTypeOK, JobsByPhase, TracesByPhase, LoopsComplete,
       LostSpanOutlived, OutlivedIsReported, InFlight
  <2> QED
    BY <2>1, PhasesKeep, HandlersKeep, ReleaseKeeps DEF WorkerNext
<1>3. WorkerInv =>
        WorkerLifeTypeOK /\ LostSpanOutlived /\ OutlivedIsReported /\ RetentionComplete
  BY DEF WorkerInv, LoopsComplete, RetentionComplete
<1>4. WorkerInv /\ [WorkerNext]_workerVars =>
        [wlProbe = "asked" /\ wlProbe' = "ready" =>
           wlConsuming /\ wlRegistered = ConsumerQueues]_workerVars
  <2> SUFFICES ASSUME WorkerInv, WorkerNext, wlProbe = "asked", wlProbe' = "ready"
               PROVE  wlConsuming /\ wlRegistered = ConsumerQueues
    OBVIOUS
  <2>1. ProbeAnswered
    BY DEF WorkerNext, OpenPool, createStartedBoss, ensureAgentQueues, StartFails, FirstDiagnostics,
       registerQueue, startPeriodicQueueDiagnostics, ProbeArrives, FetchJob, StartHandler, EndHandler,
       DeleteBatch, DeleteFails, runRetention, RequestStop, StopServing, stopWorkerConsumers,
       stopBoss, SettleHandlers, SettleDeadline, SettleDurable, PoolEnds
  <2> QED
    BY <2>1 DEF ProbeAnswered, evaluateWorkerReadiness, WorkerInv, JobsByPhase, Fetching
<1> QED
  BY <1>1, <1>2, <1>3, <1>4, PTL DEF WorkerSpec, WorkerSound, ReadyWhileConsuming

-----------------------------------------------------------------------------
(* GitProcess *)

GitCalls ==
    [spawned : BOOLEAN, spawnError : BOOLEAN, exited : BOOLEAN, closed : BOOLEAN,
     timedOut : BOOLEAN, limited : BOOLEAN, killed : BOOLEAN, late : BOOLEAN,
     settled : BOOLEAN, term : {"new", "idle", "running", "complete", "failed"},
     timers : SUBSET {"timeout", "watch", "confirm", "assume_exit"}]

GitWorlds ==
    [leader : Lives, helper : Lives,
     kind : [group : BOOLEAN, pipes : BOOLEAN, reachable : BOOLEAN]]

\* Nothing of the group that a signal could reach runs on.  A leader that is not running forks
\* no more, so this is stable.
Quiet(w) ==
    /\ w.leader # "running"
    /\ ~(w.kind.group /\ w.kind.reachable /\ w.helper = "running")

\* Which timer is armed in which state of the termination, what each says of the group, and
\* why the termination began.
CallConsistent(c, w) ==
    /\ c.term = "new" => c = NewCall
    /\ ~c.spawned => /\ w.leader = "none" /\ w.helper = "none"
                     /\ c.term \in {"new", "idle"} /\ c.timers = {}
    /\ c.settled => /\ c.timers = {} /\ c.term # "running"
                    /\ c.term # "failed" => Quiet(w)
    /\ "timeout" \in c.timers => c.term = "idle"
    /\ "assume_exit" \in c.timers => c.term = "complete"
    /\ c.timers \cap {"watch", "confirm"} # {} => c.term = "running"
    /\ "confirm" \in c.timers \/ c.term = "complete" => Quiet(w)
    /\ c.term \in {"running", "complete"} => c.timedOut \/ c.limited \/ c.closed
    /\ c.spawned /\ c.closed => c.exited
    /\ c.settled /\ c.spawned /\ c.term = "idle" => c.closed

GitInv == gpCall \in GitCalls /\ gpWorld \in GitWorlds /\ CallConsistent(gpCall, gpWorld)

\* A group that gives no answer, or whose members cannot be signalled, is quiet.
LEMMA UnansweredIsQuiet ==
  ASSUME NEW w \in GitWorlds, signalGroup(w) # "delivered"
  PROVE  Quiet(w)
BY DEF GitWorlds, signalGroup, GroupAnswers, Reachable, HelperInGroup, Present, Quiet

\* SIGTERM and SIGKILL start nothing, and SIGKILL leaves the group quiet.
LEMMA SignalsQuiet ==
  ASSUME NEW w \in GitWorlds
  PROVE  /\ AfterKill(w) \in GitWorlds /\ Quiet(AfterKill(w))
         /\ \A v \in AfterTerm(w) : v \in GitWorlds
<1>1. \A l \in Lives : Hit(l) \in Lives /\ Hit(l) # "running"
  BY DEF Hit, Lives
<1>2. AfterKill(w) \in GitWorlds /\ Quiet(AfterKill(w))
  BY <1>1 DEF AfterKill, GitWorlds, Quiet
<1>3. ASSUME NEW v \in AfterTerm(w)
      PROVE  v \in GitWorlds
  <2> DEFINE Leaders == {w.leader, Hit(w.leader)}
             Helpers == {w.helper} \cup (IF w.kind.group /\ w.kind.reachable
                                        THEN {Hit(w.helper)} ELSE {})
  <2>1. Leaders \subseteq Lives /\ Helpers \subseteq Lives
    BY <1>1 DEF GitWorlds
  <2>2. PICK lives \in Leaders \X Helpers : v = [w EXCEPT !.leader = lives[1], !.helper = lives[2]]
    BY <1>3 DEF AfterTerm
  <2> HIDE DEF Leaders, Helpers
  <2>3. lives[1] \in Lives /\ lives[2] \in Lives
    BY <2>1, <2>2
  <2> QED
    BY <2>2, <2>3 DEF GitWorlds
<1> QED
  BY <1>2, <1>3

\* maybeSettle settles no call of a group that is not quiet.
LEMMA SettlesQuietly ==
  ASSUME NEW c \in GitCalls, NEW w \in GitWorlds, CallConsistent(c, w),
         c.term = "idle" /\ SettleDue(c) => Quiet(w)
  PROVE  maybeSettle(c) \in GitCalls /\ CallConsistent(maybeSettle(c), w)
<1>1. CASE ~c.settled /\ SettleDue(c)
  <2> DEFINE d == settle(c)
  <2>1. /\ d \in GitCalls
        /\ d.settled = TRUE /\ d.timers = {} /\ d.spawned = c.spawned /\ d.term = c.term
        /\ d.timedOut = c.timedOut /\ d.limited = c.limited /\ d.closed = c.closed
        /\ d.exited = c.exited
    BY DEF GitCalls, settle
  <2>2. c.term \notin {"new", "running"}
    BY <1>1 DEF SettleDue, CallConsistent, NewCall
  <2>3. c.term # "failed" => Quiet(w)
    BY <1>1, <2>2 DEF CallConsistent, GitCalls
  <2>4. c.spawned /\ c.term = "idle" => c.closed
    BY <1>1 DEF SettleDue
  <2> HIDE DEF d
  <2>5. CallConsistent(d, w)
    BY <2>1, <2>2, <2>3, <2>4 DEF CallConsistent
  <2> QED
    BY <1>1, <2>1, <2>5 DEF maybeSettle, d
<1>2. CASE ~(~c.settled /\ SettleDue(c))
  BY <1>2 DEF maybeSettle
<1> QED
  BY <1>1, <1>2

\* finishTermination: a complete one leaves a quiet group.
LEMMA FinishesQuietly ==
  ASSUME NEW c \in GitCalls, NEW w \in GitWorlds, NEW outcome \in {"complete", "failed"},
         c.spawned, ~c.settled, c.closed => c.exited,
         outcome = "complete" => Quiet(w) /\ (c.timedOut \/ c.limited \/ c.closed)
  PROVE  /\ finishTermination(c, outcome) \in GitCalls
         /\ CallConsistent(finishTermination(c, outcome), w)
<1> DEFINE d == [c EXCEPT !.term = outcome,
                          !.timers = IF outcome = "complete" /\ ~c.exited
                                     THEN {"assume_exit"} ELSE {}]
<1>1. /\ d \in GitCalls
      /\ d.term = outcome /\ d.timers = IF outcome = "complete" /\ ~c.exited
                                        THEN {"assume_exit"} ELSE {}
      /\ d.spawned = c.spawned /\ d.settled = c.settled /\ d.timedOut = c.timedOut
      /\ d.limited = c.limited /\ d.closed = c.closed /\ d.exited = c.exited
  BY DEF GitCalls
<1>2. finishTermination(c, outcome) = maybeSettle(d)
  BY DEF finishTermination
<1> HIDE DEF d
<1>3. CallConsistent(d, w)
  BY <1>1 DEF CallConsistent
<1> QED
  BY <1>1, <1>2, <1>3, SettlesQuietly

\* terminate, in any state its callers reach.
LEMMA TerminateKeeps ==
  ASSUME NEW c \in GitCalls, gpWorld \in GitWorlds, CallConsistent(c, gpWorld),
         c.timedOut \/ c.limited \/ c.closed, terminate(c)
  PROVE  GitInv'
<1>1. CASE ~c.spawned \/ c.term # "idle" \/ c.settled
  BY <1>1 DEF terminate, GitInv
<1>2. CASE c.spawned /\ c.term = "idle" /\ ~c.settled
  <2>1. c.closed => c.exited
    BY <1>2 DEF CallConsistent
  <2>2. CASE /\ signalGroup(gpWorld) = "gone"
             /\ gpCall' = finishTermination(c, "complete") /\ UNCHANGED gpWorld
    BY <1>2, <2>1, <2>2, FinishesQuietly, UnansweredIsQuiet DEF GitInv
  <2>3. CASE /\ signalGroup(gpWorld) = "error"
             /\ gpCall' = finishTermination(c, "failed") /\ UNCHANGED gpWorld
    BY <1>2, <2>1, <2>3, FinishesQuietly DEF GitInv
  <2>4. CASE /\ gpCall' = [c EXCEPT !.term = "running", !.timers = {"watch"},
                                    !.killed = c.timedOut \/ c.limited]
             /\ gpWorld' \in AfterTerm(gpWorld)
    <3>1. gpWorld' \in GitWorlds
      BY <2>4, SignalsQuiet
    <3>2. /\ gpCall' \in GitCalls
          /\ gpCall'.term = "running" /\ gpCall'.timers = {"watch"}
          /\ gpCall'.spawned = c.spawned /\ gpCall'.settled = c.settled
          /\ gpCall'.timedOut = c.timedOut /\ gpCall'.limited = c.limited
          /\ gpCall'.closed = c.closed /\ gpCall'.exited = c.exited
      BY <2>4 DEF GitCalls
    <3> QED
      BY <1>2, <2>1, <3>1, <3>2 DEF GitInv, CallConsistent
  <2> QED
    BY <1>2, <2>2, <2>3, <2>4 DEF terminate
<1> QED
  BY <1>1, <1>2

\* The processes go their own way.
LEMMA ProcessesKeep ==
  ASSUME GitInv,
         \/ \E started \in BOOLEAN, kind \in HelperKinds : runGitProcess(started, kind)
         \/ LeaderForks \/ LeaderEnds \/ HelperEnds
  PROVE  GitInv'
<1>1. CASE \E started \in BOOLEAN, kind \in HelperKinds : runGitProcess(started, kind)
  <2>1. PICK started \in BOOLEAN, kind \in HelperKinds : runGitProcess(started, kind)
    BY <1>1
  <2>2. /\ gpCall' \in GitCalls
        /\ gpCall'.term = "idle" /\ gpCall'.spawned = started /\ gpCall'.settled = FALSE
        /\ gpCall'.timers = IF started THEN {"timeout"} ELSE {}
        /\ gpCall'.closed = FALSE
    BY <2>1 DEF runGitProcess, NewCall, GitCalls
  <2>3. gpWorld' \in GitWorlds /\ (~started => gpWorld'.leader = "none" /\ gpWorld'.helper = "none")
    BY <2>1, GitProcessAssumption DEF runGitProcess, GitWorlds, Lives
  <2> QED
    BY <2>2, <2>3 DEF GitInv, CallConsistent
<1>2. CASE LeaderForks
  <2>1. /\ gpWorld' \in GitWorlds /\ UNCHANGED gpCall /\ gpWorld.leader = "running"
    BY <1>2 DEF LeaderForks, GitInv, GitWorlds, Lives
  <2> QED
    BY <2>1 DEF GitInv, CallConsistent, Quiet
<1>3. CASE LeaderEnds \/ HelperEnds
  <2>1. /\ gpWorld' \in GitWorlds /\ UNCHANGED gpCall
        /\ gpWorld.leader # "none" \/ gpWorld.helper # "none"
        /\ Quiet(gpWorld) => Quiet(gpWorld')
    BY <1>3 DEF LeaderEnds, HelperEnds, GitInv, GitWorlds, Lives, Present, Quiet
  <2> QED
    BY <2>1 DEF GitInv, CallConsistent
<1> QED
  BY <1>1, <1>2, <1>3

\* The watch on the group, the escalation to SIGKILL and the last confirmation.
LEMMA TimersKeep ==
  ASSUME GitInv, watchGrace \/ confirmGone \/ DeadlinePasses \/ ExitAssumed
  PROVE  GitInv'
<1>1. gpCall \in GitCalls /\ gpWorld \in GitWorlds /\ CallConsistent(gpCall, gpWorld)
  BY DEF GitInv
<1>2. CASE watchGrace \/ confirmGone
  <2>1. /\ gpCall.term = "running" /\ gpCall.spawned /\ ~gpCall.settled
        /\ gpCall.closed => gpCall.exited
        /\ gpCall.timedOut \/ gpCall.limited \/ gpCall.closed
    BY <1>1, <1>2 DEF watchGrace, confirmGone, CallConsistent
  <2>2. CASE /\ gpCall' = finishTermination(gpCall, "failed") /\ UNCHANGED gpWorld
    BY <1>1, <2>1, <2>2, FinishesQuietly DEF GitInv
  <2>3. CASE /\ gpCall' = finishTermination(gpCall, "complete") /\ UNCHANGED gpWorld
             /\ Quiet(gpWorld)
    BY <1>1, <2>1, <2>3, FinishesQuietly DEF GitInv
  <2>4. CASE escalate(gpCall)
    <3>1. gpWorld' \in GitWorlds /\ Quiet(gpWorld')
      BY <1>1, <2>4, SignalsQuiet DEF escalate, EscalatedWorld
    <3>2. /\ gpCall' \in GitCalls /\ gpCall'.timers = {"confirm"}
          /\ gpCall'.term = gpCall.term /\ gpCall'.spawned = gpCall.spawned
          /\ gpCall'.settled = gpCall.settled /\ gpCall'.timedOut = gpCall.timedOut
          /\ gpCall'.limited = gpCall.limited /\ gpCall'.closed = gpCall.closed
          /\ gpCall'.exited = gpCall.exited
      BY <1>1, <2>4 DEF escalate, GitCalls
    <3> QED
      BY <2>1, <3>1, <3>2 DEF GitInv, CallConsistent
  <2>5. signalGroup(gpWorld) = "gone" \/ "confirm" \in gpCall.timers => Quiet(gpWorld)
    BY <1>1, UnansweredIsQuiet DEF CallConsistent
  <2> QED
    BY <1>2, <2>2, <2>3, <2>4, <2>5 DEF watchGrace, confirmGone
<1>3. CASE DeadlinePasses
  <2>1. /\ gpCall' \in GitCalls /\ UNCHANGED gpWorld
        /\ gpCall'.term = gpCall.term /\ gpCall'.spawned = gpCall.spawned
        /\ gpCall'.settled = gpCall.settled /\ gpCall'.timedOut = gpCall.timedOut
        /\ gpCall'.limited = gpCall.limited /\ gpCall'.closed = gpCall.closed
        /\ gpCall'.exited = gpCall.exited /\ gpCall'.timers = gpCall.timers
        /\ gpCall.term = "running"
    BY <1>1, <1>3 DEF DeadlinePasses, GitCalls, CallConsistent
  <2> QED
    BY <1>1, <2>1 DEF GitInv, CallConsistent
<1>4. CASE ExitAssumed
  <2> DEFINE d == [gpCall EXCEPT !.exited = TRUE, !.timers = {}]
  <2>1. /\ d \in GitCalls /\ d.exited = TRUE /\ d.timers = {}
        /\ d.term = gpCall.term /\ d.spawned = gpCall.spawned /\ d.settled = gpCall.settled
        /\ d.timedOut = gpCall.timedOut /\ d.limited = gpCall.limited /\ d.closed = gpCall.closed
    BY <1>1 DEF GitCalls
  <2>2. gpCall' = maybeSettle(d) /\ UNCHANGED gpWorld /\ gpCall.term = "complete"
    BY <1>1, <1>4 DEF ExitAssumed, CallConsistent
  <2> HIDE DEF d
  <2>3. CallConsistent(d, gpWorld)
    BY <1>1, <2>1, <2>2 DEF CallConsistent
  <2> QED
    BY <1>1, <2>1, <2>2, <2>3, SettlesQuietly DEF GitInv
<1> QED
  BY <1>2, <1>3, <1>4

\* The events of the child, the timeout and the output limit.
LEMMA EventsKeep ==
  ASSUME GitInv, CallTimesOut \/ OutputOverflows \/ SpawnFails \/ onExit \/ onClose
  PROVE  GitInv'
<1>1. gpCall \in GitCalls /\ gpWorld \in GitWorlds /\ CallConsistent(gpCall, gpWorld)
  BY DEF GitInv
<1>2. CASE CallTimesOut
  <2> DEFINE d == [gpCall EXCEPT !.timers = @ \ {"timeout"},
                                 !.timedOut = gpCall.term = "idle" /\ ~gpCall.settled]
  <2>1. terminate(d) /\ gpCall.term = "idle" /\ ~gpCall.settled
    BY <1>1, <1>2 DEF CallTimesOut, TimeoutArmed, CallConsistent
  <2>2. /\ d \in GitCalls /\ d.timedOut = TRUE /\ d.timers = gpCall.timers \ {"timeout"}
        /\ d.term = gpCall.term /\ d.spawned = gpCall.spawned /\ d.settled = gpCall.settled
        /\ d.exited = gpCall.exited /\ d.limited = gpCall.limited /\ d.closed = gpCall.closed
    BY <1>1, <2>1 DEF GitCalls
  <2> HIDE DEF d
  <2>3. CallConsistent(d, gpWorld)
    BY <1>1, <2>1, <2>2 DEF CallConsistent
  <2> QED
    BY <1>1, <2>1, <2>2, <2>3, TerminateKeeps
<1>3. CASE OutputOverflows
  <2> DEFINE d == [gpCall EXCEPT !.limited = TRUE]
  <2>1. terminate(d) /\ ~gpCall.settled /\ PipesHeld(gpWorld)
    BY <1>3 DEF OutputOverflows
  <2>2. gpCall.spawned /\ gpCall.term # "new"
    BY <1>1, <2>1 DEF PipesHeld, Present, CallConsistent, NewCall
  <2>3. /\ d \in GitCalls /\ d.limited = TRUE /\ d.timers = gpCall.timers
        /\ d.term = gpCall.term /\ d.spawned = gpCall.spawned /\ d.settled = gpCall.settled
        /\ d.exited = gpCall.exited /\ d.timedOut = gpCall.timedOut /\ d.closed = gpCall.closed
    BY <1>1 DEF GitCalls
  <2> HIDE DEF d
  <2>4. CallConsistent(d, gpWorld)
    BY <1>1, <2>1, <2>2, <2>3 DEF CallConsistent
  <2> QED
    BY <1>1, <2>1, <2>3, <2>4, TerminateKeeps
<1>4. CASE SpawnFails
  <2> DEFINE d == [gpCall EXCEPT !.spawnError = TRUE, !.closed = TRUE]
  <2>1. gpCall' = maybeSettle(d) /\ UNCHANGED gpWorld /\ gpCall.term = "idle" /\ ~gpCall.spawned
    BY <1>4 DEF SpawnFails
  <2>2. /\ d \in GitCalls /\ d.closed = TRUE /\ d.timers = gpCall.timers
        /\ d.term = gpCall.term /\ d.spawned = gpCall.spawned /\ d.settled = gpCall.settled
        /\ d.exited = gpCall.exited /\ d.timedOut = gpCall.timedOut /\ d.limited = gpCall.limited
    BY <1>1 DEF GitCalls
  <2> HIDE DEF d
  <2>3. CallConsistent(d, gpWorld) /\ Quiet(gpWorld)
    BY <1>1, <2>1, <2>2 DEF CallConsistent, Quiet
  <2> QED
    BY <1>1, <2>1, <2>2, <2>3, SettlesQuietly DEF GitInv
<1>5. CASE onExit
  <2> DEFINE d == [gpCall EXCEPT !.exited = TRUE]
  <2>1. gpCall' = maybeSettle(d) /\ UNCHANGED gpWorld /\ gpCall.spawned /\ ~gpCall.exited
    BY <1>5 DEF onExit
  <2>2. /\ d \in GitCalls /\ d.exited = TRUE /\ d.timers = gpCall.timers
        /\ d.term = gpCall.term /\ d.spawned = gpCall.spawned /\ d.settled = gpCall.settled
        /\ d.closed = gpCall.closed /\ d.timedOut = gpCall.timedOut /\ d.limited = gpCall.limited
    BY <1>1 DEF GitCalls
  <2>3. gpCall.term # "new" /\ ~gpCall.closed
    BY <1>1, <2>1 DEF CallConsistent, NewCall
  <2> HIDE DEF d
  <2>4. CallConsistent(d, gpWorld) /\ ~(d.term = "idle" /\ SettleDue(d))
    BY <1>1, <2>1, <2>2, <2>3 DEF CallConsistent, SettleDue
  <2> QED
    BY <1>1, <2>1, <2>2, <2>4, SettlesQuietly DEF GitInv
<1>6. CASE onClose
  <2> DEFINE d == [gpCall EXCEPT !.closed = TRUE]
  <2>1. /\ gpCall.spawned /\ gpCall.exited
        /\ \/ LeftoverProbed /\ terminate(d)
           \/ ~LeftoverProbed /\ gpCall' = maybeSettle(d) /\ UNCHANGED gpWorld
    BY <1>6 DEF onClose
  <2>2. /\ d \in GitCalls /\ d.closed = TRUE /\ d.timers = gpCall.timers
        /\ d.term = gpCall.term /\ d.spawned = gpCall.spawned /\ d.settled = gpCall.settled
        /\ d.exited = gpCall.exited /\ d.timedOut = gpCall.timedOut /\ d.limited = gpCall.limited
    BY <1>1 DEF GitCalls
  <2>3. gpCall.term # "new"
    BY <1>1, <2>1 DEF CallConsistent, NewCall
  <2> HIDE DEF d
  <2>4. CallConsistent(d, gpWorld)
    BY <1>1, <2>1, <2>2, <2>3 DEF CallConsistent
  <2>5. ~LeftoverProbed /\ d.term = "idle" => Quiet(gpWorld)
    BY <1>1, <2>2, UnansweredIsQuiet DEF LeftoverProbed, CallConsistent
  <2> QED
    BY <1>1, <2>1, <2>2, <2>4, <2>5, SettlesQuietly, TerminateKeeps DEF GitInv
<1> QED
  BY <1>2, <1>3, <1>4, <1>5, <1>6

\* A settled git call leaves nothing of its group running that a signal could reach, and a
\* success holds all of its output: for every helper, and every order of timers and events.
THEOREM GitIsSound == GitProcessSpec => []GitSound
<1>1. GitProcessInit => GitInv
  <2> SUFFICES ASSUME GitProcessInit PROVE GitInv
    OBVIOUS
  <2>1. NewCall \in GitCalls /\ NewCall.spawned = FALSE /\ NewCall.settled = FALSE
        /\ NewCall.timers = {} /\ NewCall.term = "new" /\ NewCall.closed = FALSE
    BY DEF NewCall, GitCalls
  <2> QED
    BY <2>1 DEF GitProcessInit, GitInv, GitWorlds, Lives, CallConsistent
<1>2. GitInv /\ [GitProcessNext]_gitProcessVars => GitInv'
  <2> SUFFICES ASSUME GitInv, [GitProcessNext]_gitProcessVars
               PROVE  GitInv'
    OBVIOUS
  <2>1. CASE UNCHANGED gitProcessVars
    BY <2>1 DEF gitProcessVars, GitInv, CallConsistent, Quiet
  <2> QED
    BY <2>1, ProcessesKeep, TimersKeep, EventsKeep DEF GitProcessNext
<1>3. GitInv => GitSound
  <2> SUFFICES ASSUME GitInv PROVE GitSound
    OBVIOUS
  <2>1. GitProcessTypeOK
    BY DEF GitInv, GitCalls, GitWorlds, GitProcessTypeOK
  <2>2. NoOrphanInGroup
    BY DEF GitInv, CallConsistent, Quiet, NoOrphanInGroup, HelperInGroup
  <2>3. gpCall.settled => gpCall.term \in {"idle", "complete", "failed"}
    BY DEF GitInv, GitCalls, CallConsistent, NewCall
  <2>4. SuccessIsWhole
    BY <2>3 DEF GitInv, CallConsistent, SuccessIsWhole
  <2> QED
    BY <2>1, <2>2, <2>4 DEF GitSound
<1> QED
  BY <1>1, <1>2, <1>3, PTL DEF GitProcessSpec

-----------------------------------------------------------------------------
(* RepositoryView *)

Rooted == {"mark", "credentials", "fetch", "sparse", "checkout", "policy", "hand"}
PastListing == Stages \ {"none", "list"}
Pinned == {"policy", "hand"}

\* The executions that hold a reference to an entry, whatever they do with it.
Holders(p, h) == {u \in Viewers : /\ HostOf[u] = p
                                  /\ rvViewer[u].pc \in {"waiting", "using", "failing"}
                                  /\ rvViewer[u].head = h}

\* A cache entry counts its holders; a preparation runs only for somebody who waits; a timer
\* runs only for a view; nothing of a dead process is left.
EntrySound(p, h) ==
    LET entry == rvEntry[p][h] IN
    /\ IsFiniteSet(Holders(p, h)) /\ entry.refcount = Cardinality(Holders(p, h))
    /\ entry.stage # "none" => entry.view = 0 /\ h <= rvHead /\ ViewWaiting(p, h) # {}
    /\ entry.root # 0 <=> entry.stage \in Rooted
    /\ entry.timer => entry.view # 0
    /\ ~rvAlive[p] => entry = EmptyEntry

ViewerSound(u) ==
    /\ rvViewer[u].pc \in {"waiting", "using", "failing"} => rvViewer[u].head \in ViewHeads
    /\ rvViewer[u].pc = "using" => rvEntry[HostOf[u]][rvViewer[u].head].view # 0

\* What the head an entry is for, the head listed and the head checked out have to do with
\* each other, stage by stage: listing and fetching may each see a later head, the check
\* lets through only a checkout of the entry's own.
HeadsSound(p, h) ==
    LET entry == rvEntry[p][h] IN
    /\ entry.stage \in PastListing => h <= entry.listed /\ entry.listed <= rvHead
    /\ entry.root # 0 => rvRoot[entry.root].files = entry.listed
    /\ entry.stage = "checkout" => entry.listed <= rvRoot[entry.root].tree
    /\ entry.stage \in Pinned => rvRoot[entry.root].tree = h /\ entry.listed = h
    /\ entry.view # 0 => rvRoot[entry.view].tree = h /\ rvRoot[entry.view].files = h

Uses(p, h, r) == r \in {rvEntry[p][h].root, rvEntry[p][h].view}

\* A root in use is there and belongs to one entry of its owner.
RootSound(r) ==
    /\ \A p \in Hosts, h \in ViewHeads :
          Uses(p, h, r) => rvRoot[r].state = "live" /\ rvRoot[r].owner = p
    /\ \A p \in Hosts, h, k \in ViewHeads : Uses(p, h, r) /\ Uses(p, k, r) => h = k
    /\ rvRoot[r].state = "unused" => ~rvRoot[r].aged /\ ~rvRoot[r].token
    /\ rvRoot[r].state = "live" /\ rvRoot[r].aged /\ rvAlive[rvRoot[r].owner]
          => rvRoot[r].marker # "none"

\* A sweep removes only what a dead process left.
SweepSound(p) ==
    rvSweep[p] # 0 => /\ rvRoot[rvSweep[p]].state # "unused"
                      /\ ~rvAlive[rvRoot[rvSweep[p]].owner]

ViewInv ==
    /\ RepositoryViewTypeOK
    /\ TokenOnlyInPreparation
    /\ \A p \in Hosts, h \in ViewHeads : EntrySound(p, h) /\ HeadsSound(p, h)
    /\ \A u \in Viewers : ViewerSound(u)
    /\ \A r \in RootIds : RootSound(r)
    /\ \A p \in Hosts : SweepSound(p)

\* A nonempty set of numbers has a least element.
LEMMA LeastExists ==
  ASSUME NEW T, T \subseteq Nat, T # {}
  PROVE  \E x \in T : \A y \in T : x <= y
<1>1. \E R : IsWellFoundedOn(R, Nat) /\ \A x, y \in Nat : <<y, x>> \in R <=> y < x
  <2>1. \A x, y \in Nat : <<y, x>> \in OpToRel(<, Nat) <=> y < x
    BY DEF OpToRel
  <2> QED BY <2>1, NatLessThanWellFounded
<1>2. PICK R : IsWellFoundedOn(R, Nat) /\ \A x, y \in Nat : <<y, x>> \in R <=> y < x
  BY <1>1
<1>3. PICK x \in T : \A y \in T : ~(<<y, x>> \in R)
  BY <1>2, WFMin
<1>4. \A y \in T : ~(y < x)
  BY <1>2, <1>3
<1>5. \A y \in T : x <= y
  BY <1>4
<1> QED BY <1>5

\* An entry's fields, one by one.
LEMMA EntryFields ==
  ASSUME RepositoryViewTypeOK, NEW p \in Hosts, NEW h \in ViewHeads
  PROVE  LET entry == rvEntry[p][h] IN
         /\ rvEntry[p] \in [ViewHeads -> CacheEntry] /\ entry \in CacheEntry
         /\ entry.refcount \in Nat /\ entry.stage \in Stages /\ entry.listed \in 0 .. MaxViewHeads
         /\ entry.root \in 0 .. MaxRoots /\ entry.view \in 0 .. MaxRoots /\ entry.timer \in BOOLEAN
<1>1. rvEntry[p] \in [ViewHeads -> CacheEntry] /\ rvEntry[p][h] \in CacheEntry
  BY DEF RepositoryViewTypeOK
<1> QED BY <1>1 DEF CacheEntry

\* Setting one entry leaves the others.
LEMMA OneEntry ==
  ASSUME RepositoryViewTypeOK, NEW p \in Hosts, NEW h \in ViewHeads, NEW e, SetEntry(p, h, e)
  PROVE  /\ rvEntry'[p][h] = e
         /\ \A q \in Hosts, k \in ViewHeads :
               <<q, k>> # <<p, h>> => rvEntry'[q][k] = rvEntry[q][k]
         /\ e \in CacheEntry => rvEntry' \in [Hosts -> [ViewHeads -> CacheEntry]]
<1>1. /\ rvEntry \in [Hosts -> [ViewHeads -> CacheEntry]]
      /\ rvEntry' = [rvEntry EXCEPT ![p] = [rvEntry[p] EXCEPT ![h] = e]]
  BY DEF SetEntry, RepositoryViewTypeOK
<1>2. rvEntry[p] \in [ViewHeads -> CacheEntry]
  BY <1>1
<1>3. rvEntry'[p] = [rvEntry[p] EXCEPT ![h] = e]
  BY <1>1
<1>4. rvEntry'[p][h] = e
  BY <1>2, <1>3
<1>5. ASSUME NEW q \in Hosts, NEW k \in ViewHeads, <<q, k>> # <<p, h>>
      PROVE  rvEntry'[q][k] = rvEntry[q][k]
  <2>1. CASE q = p
    BY <1>2, <1>3, <1>5, <2>1
  <2>2. CASE q # p
    BY <1>1, <2>2
  <2> QED BY <2>1, <2>2
<1>6. e \in CacheEntry => rvEntry' \in [Hosts -> [ViewHeads -> CacheEntry]]
  <2>1. e \in CacheEntry => [rvEntry[p] EXCEPT ![h] = e] \in [ViewHeads -> CacheEntry]
    BY <1>2
  <2> QED BY <1>1, <2>1
<1> QED BY <1>4, <1>5, <1>6

\* References: what an entry counts and what its viewers rest on.
Refs == /\ RepositoryViewTypeOK
        /\ \A p \in Hosts, h \in ViewHeads : EntrySound(p, h)
        /\ \A u \in Viewers : ViewerSound(u)

\* A step that moves no entry, no viewer and no process keeps the references.
LEMMA RefsRest ==
  ASSUME Refs, UNCHANGED <<rvAlive, rvEntry, rvViewer>>, rvHead <= rvHead', RepositoryViewTypeOK'
  PROVE  Refs'
<1>1. rvHead \in Int /\ rvHead' \in Int /\ \A h \in ViewHeads : h \in Int
  BY DEF Refs, RepositoryViewTypeOK, ViewHeads, RepositoryViewAssumption
<1>2. \A p, h : Holders(p, h)' = Holders(p, h) /\ ViewWaiting(p, h)' = ViewWaiting(p, h)
  BY DEF Holders, ViewWaiting
<1>3. \A p \in Hosts, h \in ViewHeads : EntrySound(p, h)'
  BY <1>1, <1>2 DEF Refs, EntrySound
<1> QED BY <1>3 DEF Refs, ViewerSound

\* From one stage of a preparation to the next.
Advances(p, h, e) ==
    LET entry == rvEntry[p][h] IN
    /\ rvAlive[p] /\ entry.stage # "none"
    /\ e \in CacheEntry /\ e.stage # "none"
    /\ e.refcount = entry.refcount /\ e.timer = entry.timer /\ e.view = entry.view
    /\ e.root # 0 <=> e.stage \in Rooted
    /\ SetEntry(p, h, e)
    /\ UNCHANGED <<rvHead, rvAlive, rvViewer>>

LEMMA AdvanceKeepsRefs ==
  ASSUME Refs, NEW p \in Hosts, NEW h \in ViewHeads, NEW e, Advances(p, h, e),
         RepositoryViewTypeOK'
  PROVE  Refs'
<1>1. /\ rvEntry'[p][h] = e
      /\ \A q \in Hosts, k \in ViewHeads :
            <<q, k>> # <<p, h>> => rvEntry'[q][k] = rvEntry[q][k]
  BY OneEntry DEF Refs, Advances
<1>2. \A q, k : Holders(q, k)' = Holders(q, k) /\ ViewWaiting(q, k)' = ViewWaiting(q, k)
  BY DEF Holders, ViewWaiting, Advances
<1>3. ASSUME NEW q \in Hosts, NEW k \in ViewHeads
      PROVE  EntrySound(q, k)'
  <2>1. EntrySound(q, k)
    BY DEF Refs
  <2>2. CASE <<q, k>> # <<p, h>>
    BY <1>1, <1>2, <2>1, <2>2 DEF EntrySound, Advances
  <2>3. CASE q = p /\ k = h
    BY <1>1, <1>2, <2>1, <2>3 DEF EntrySound, Advances
  <2> QED BY <2>2, <2>3
<1>4. ASSUME NEW u \in Viewers
      PROVE  ViewerSound(u)'
  <2>1. ViewerSound(u) /\ HostOf[u] \in Hosts /\ rvViewer' = rvViewer
    BY RepositoryViewAssumption DEF Refs, Advances
  <2>2. rvViewer[u].head \in ViewHeads
          => rvEntry'[HostOf[u]][rvViewer[u].head].view = rvEntry[HostOf[u]][rvViewer[u].head].view
    BY <1>1, <2>1 DEF Advances
  <2> QED BY <2>1, <2>2 DEF ViewerSound
<1> QED BY <1>3, <1>4 DEF Refs

\* The end of a preparation: its viewers stop waiting, to use the view or to give up.
Settles(p, h, e, pc) ==
    LET entry == rvEntry[p][h] IN
    /\ rvAlive[p] /\ entry.stage # "none"
    /\ e \in CacheEntry /\ e.stage = "none" /\ e.root = 0
    /\ e.refcount = entry.refcount /\ e.timer = entry.timer
    /\ pc \in {"using", "failing"} /\ (pc = "using" => e.view # 0)
    /\ SetEntry(p, h, e)
    /\ rvViewer' = [u \in Viewers |->
                      IF u \in ViewWaiting(p, h)
                      THEN [rvViewer[u] EXCEPT !.pc = pc] ELSE rvViewer[u]]
    /\ UNCHANGED <<rvHead, rvAlive>>

LEMMA SettleKeepsRefs ==
  ASSUME Refs, NEW p \in Hosts, NEW h \in ViewHeads, NEW e, NEW pc, Settles(p, h, e, pc),
         RepositoryViewTypeOK'
  PROVE  Refs'
<1>1. /\ rvEntry'[p][h] = e
      /\ \A q \in Hosts, k \in ViewHeads :
            <<q, k>> # <<p, h>> => rvEntry'[q][k] = rvEntry[q][k]
  BY OneEntry DEF Refs, Settles
<1>2. ASSUME NEW u \in Viewers
      PROVE  /\ rvViewer'[u].head = rvViewer[u].head
             /\ u \in ViewWaiting(p, h) => rvViewer'[u].pc = pc
             /\ u \notin ViewWaiting(p, h) => rvViewer'[u] = rvViewer[u]
  BY <1>2 DEF Settles, Refs, RepositoryViewTypeOK
<1>3. \A u \in ViewWaiting(p, h) :
        u \in Viewers /\ rvViewer[u].pc = "waiting" /\ HostOf[u] = p /\ rvViewer[u].head = h
  BY DEF ViewWaiting
<1>4. pc \in {"using", "failing"} /\ rvEntry[p][h].view = 0
  BY DEF Settles, Refs, EntrySound
<1>5. \A q \in Hosts, k \in ViewHeads : Holders(q, k)' = Holders(q, k)
  BY <1>2, <1>3, <1>4 DEF Holders
<1>6. \A q \in Hosts, k \in ViewHeads :
        <<q, k>> # <<p, h>> => ViewWaiting(q, k)' = ViewWaiting(q, k)
  BY <1>2, <1>3, <1>4 DEF ViewWaiting
<1>7. ASSUME NEW q \in Hosts, NEW k \in ViewHeads
      PROVE  EntrySound(q, k)'
  <2>1. EntrySound(q, k)
    BY DEF Refs
  <2>2. CASE <<q, k>> # <<p, h>>
    BY <1>1, <1>5, <1>6, <2>1, <2>2 DEF EntrySound, Settles
  <2>3. CASE q = p /\ k = h
    BY <1>1, <1>4, <1>5, <2>1, <2>3 DEF EntrySound, Settles, Rooted
  <2> QED BY <2>2, <2>3
<1>8. ASSUME NEW u \in Viewers
      PROVE  ViewerSound(u)'
  <2>1. ViewerSound(u) /\ HostOf[u] \in Hosts
    BY RepositoryViewAssumption DEF Refs
  <2>2. CASE u \in ViewWaiting(p, h)
    <3>1. HostOf[u] = p /\ rvViewer'[u].head = h /\ rvViewer'[u].pc = pc
      BY <1>2, <1>3, <2>2
    <3>2. pc = "using" => rvEntry'[p][h].view # 0
      BY <1>1 DEF Settles
    <3> QED BY <3>1, <3>2 DEF ViewerSound
  <2>3. CASE u \notin ViewWaiting(p, h)
    BY <1>1, <1>2, <1>4, <2>1, <2>3 DEF ViewerSound
  <2> QED BY <2>2, <2>3
<1> QED BY <1>7, <1>8 DEF Refs

\* One more holder: the entry is joined, or its preparation is started.
LEMMA AcquireKeepsRefs ==
  ASSUME Refs, NEW u \in Viewers, acquirePrRepositoryView(u), RepositoryViewTypeOK'
  PROVE  Refs'
<1> DEFINE p == HostOf[u]
<1>1. PICK h \in 1 .. rvHead :
        LET entry == Acquired(rvEntry[p][h]) IN
        /\ SetEntry(p, h, IF entry.view = 0 /\ entry.stage = "none"
                          THEN [entry EXCEPT !.stage = "list"] ELSE entry)
        /\ rvViewer' = [rvViewer EXCEPT
             ![u] = [pc |-> IF entry.view # 0 THEN "using" ELSE "waiting",
                     head |-> h, views |-> @.views + 1]]
  BY DEF acquirePrRepositoryView
<1> DEFINE old == rvEntry[p][h]
           e == IF Acquired(old).view = 0 /\ Acquired(old).stage = "none"
                THEN [Acquired(old) EXCEPT !.stage = "list"] ELSE Acquired(old)
<1>2. /\ p \in Hosts /\ h \in ViewHeads /\ h <= rvHead /\ rvAlive[p] /\ rvViewer[u].pc = "idle"
      /\ rvHead' = rvHead /\ rvAlive' = rvAlive
  BY RepositoryViewAssumption DEF Refs, RepositoryViewTypeOK, ViewHeads, acquirePrRepositoryView
<1>3. /\ old \in CacheEntry /\ old.refcount \in Nat /\ EntrySound(p, h)
  BY <1>2, EntryFields DEF Refs
<1>4. /\ e.refcount = old.refcount + 1 /\ e.root = old.root /\ e.view = old.view
      /\ e.timer = FALSE
      /\ e.stage = IF old.view = 0 /\ old.stage = "none" THEN "list" ELSE old.stage
  BY <1>3 DEF Acquired, CacheEntry
<1>5. SetEntry(p, h, e)
  BY <1>1
<1>6. /\ rvEntry'[p][h] = e
      /\ \A q \in Hosts, k \in ViewHeads :
            <<q, k>> # <<p, h>> => rvEntry'[q][k] = rvEntry[q][k]
  BY <1>2, <1>5, OneEntry DEF Refs
<1>7. Acquired(old).view = old.view
  BY <1>3 DEF Acquired, CacheEntry
<1>8. /\ rvViewer'[u].head = h
      /\ rvViewer'[u].pc = IF old.view # 0 THEN "using" ELSE "waiting"
      /\ \A v \in Viewers : v # u => rvViewer'[v] = rvViewer[v]
  BY <1>1, <1>7 DEF Refs, RepositoryViewTypeOK
<1> HIDE DEF old, e
<1>9. /\ u \notin Holders(p, h) /\ Holders(p, h)' = Holders(p, h) \cup {u}
      /\ \A q \in Hosts, k \in ViewHeads :
            <<q, k>> # <<p, h>> => Holders(q, k)' = Holders(q, k)
  BY <1>2, <1>8 DEF Holders
<1>10. /\ \A q \in Hosts, k \in ViewHeads : ViewWaiting(q, k) \subseteq ViewWaiting(q, k)'
       /\ old.view = 0 => u \in ViewWaiting(p, h)'
  BY <1>2, <1>8 DEF ViewWaiting
<1>11. EntrySound(p, h)'
  <2>1. IsFiniteSet(Holders(p, h)') /\ Cardinality(Holders(p, h)') = Cardinality(Holders(p, h)) + 1
    BY <1>3, <1>9, FS_AddElement DEF EntrySound
  <2>2. e.refcount = Cardinality(Holders(p, h)')
    BY <1>3, <1>4, <2>1 DEF EntrySound, old
  <2>3. e.stage # "none" => e.view = 0 /\ h <= rvHead /\ ViewWaiting(p, h)' # {}
    BY <1>2, <1>3, <1>4, <1>10 DEF EntrySound, old
  <2>4. e.root # 0 <=> e.stage \in Rooted
    BY <1>3, <1>4 DEF EntrySound, Rooted, old
  <2> QED BY <1>2, <1>4, <1>6, <2>1, <2>2, <2>3, <2>4 DEF EntrySound
<1>12. ASSUME NEW q \in Hosts, NEW k \in ViewHeads, <<q, k>> # <<p, h>>
       PROVE  EntrySound(q, k)'
  <2>1. EntrySound(q, k) /\ Holders(q, k)' = Holders(q, k) /\ rvEntry'[q][k] = rvEntry[q][k]
    BY <1>6, <1>9, <1>12 DEF Refs
  <2>2. ViewWaiting(q, k) # {} => ViewWaiting(q, k)' # {}
    BY <1>10
  <2> QED BY <1>2, <2>1, <2>2 DEF EntrySound
<1>13. ASSUME NEW v \in Viewers
       PROVE  ViewerSound(v)'
  <2>1. ViewerSound(v) /\ HostOf[v] \in Hosts
    BY RepositoryViewAssumption DEF Refs
  <2>2. CASE v = u
    BY <1>2, <1>4, <1>6, <1>8, <2>2 DEF ViewerSound
  <2>3. CASE v # u
    <3>1. rvViewer[v].head \in ViewHeads
            => rvEntry'[HostOf[v]][rvViewer[v].head].view = rvEntry[HostOf[v]][rvViewer[v].head].view
      BY <1>4, <1>6, <2>1 DEF old
    <3> QED BY <1>8, <2>1, <2>3, <3>1 DEF ViewerSound
  <2> QED BY <2>2, <2>3
<1> QED BY <1>2, <1>11, <1>12, <1>13 DEF Refs

\* What giving a reference back leaves of an entry.
LEMMA ReleasedFields ==
  ASSUME NEW old \in CacheEntry, old.refcount > 0, old.root = 0 \/ old.refcount > 1
  PROVE  LET e == Released(old) IN
         /\ e \in CacheEntry /\ e.refcount = old.refcount - 1
         /\ e.root = old.root
         /\ e.refcount > 0 => e = [old EXCEPT !.refcount = @ - 1]
         /\ e.refcount = 0 /\ old.view = 0 => e = EmptyEntry
         /\ e.refcount = 0 /\ old.view # 0 => e.timer
         /\ e.view = old.view /\ (e.stage = old.stage \/ e = EmptyEntry)
<1> DEFINE rest == [old EXCEPT !.refcount = @ - 1]
<1>0. old.refcount - 1 \in Nat
  BY DEF CacheEntry
<1>1. /\ rest \in CacheEntry /\ rest.refcount = old.refcount - 1 /\ rest.root = old.root
      /\ rest.view = old.view /\ rest.stage = old.stage
  BY <1>0 DEF CacheEntry
<1> DEFINE t == [rest EXCEPT !.timer = TRUE]
<1>8. /\ t \in CacheEntry /\ t.refcount = rest.refcount /\ t.root = rest.root
       /\ t.view = rest.view /\ t.stage = rest.stage /\ t.timer
  <2> HIDE DEF rest
  <2> QED BY <1>1 DEF CacheEntry
<1>2. /\ EmptyEntry \in CacheEntry /\ EmptyEntry.refcount = 0 /\ EmptyEntry.root = 0
      /\ EmptyEntry.view = 0
  BY RepositoryViewAssumption DEF EmptyEntry, CacheEntry, Stages
<1>3. Released(old) = IF rest.refcount > 0 THEN rest
                      ELSE IF rest.view = 0 THEN EmptyEntry ELSE t
  BY DEF Released
<1>4. old.refcount \in Nat
  BY DEF CacheEntry
<1> HIDE DEF rest, t
<1>5. CASE rest.refcount > 0
  BY <1>1, <1>3, <1>5 DEF rest
<1>6. CASE ~(rest.refcount > 0) /\ rest.view = 0
  BY <1>1, <1>2, <1>3, <1>4, <1>6
<1>7. CASE ~(rest.refcount > 0) /\ rest.view # 0
  BY <1>1, <1>8, <1>3, <1>4, <1>7
<1> QED BY <1>5, <1>6, <1>7

\* One holder less: the last one leaves a view to its timer, and nothing else behind.
LEMMA ReleaseKeepsRefs ==
  ASSUME Refs, NEW u \in Viewers, releasePrRepositoryView(u), RepositoryViewTypeOK'
  PROVE  Refs'
<1>0. PICK h \in ViewHeads : h = rvViewer[u].head
  BY DEF releasePrRepositoryView, Refs, ViewerSound
<1> DEFINE p == HostOf[u]
           old == rvEntry[p][h]
           e == Released(old)
<1>1. /\ rvViewer[u].pc \in {"using", "failing"} /\ rvAlive[p] /\ SetEntry(p, h, e)
      /\ rvViewer' = [rvViewer EXCEPT ![u].pc = "idle"]
      /\ rvHead' = rvHead /\ rvAlive' = rvAlive
  BY <1>0 DEF releasePrRepositoryView
<1>2. p \in Hosts
  BY RepositoryViewAssumption
<1>3. old \in CacheEntry /\ old.refcount \in Nat /\ EntrySound(p, h)
  BY <1>2, EntryFields DEF Refs
<1>4. /\ rvEntry'[p][h] = e
      /\ \A q \in Hosts, k \in ViewHeads :
            <<q, k>> # <<p, h>> => rvEntry'[q][k] = rvEntry[q][k]
  BY <1>1, <1>2, OneEntry DEF Refs
<1>5. /\ rvViewer'[u].head = h /\ rvViewer'[u].pc = "idle"
      /\ \A v \in Viewers : v # u => rvViewer'[v] = rvViewer[v]
  BY <1>0, <1>1 DEF Refs, RepositoryViewTypeOK
<1>6. /\ u \in Holders(p, h) /\ Holders(p, h)' = Holders(p, h) \ {u}
      /\ \A q \in Hosts, k \in ViewHeads :
            <<q, k>> # <<p, h>> => Holders(q, k)' = Holders(q, k)
  BY <1>0, <1>1, <1>2, <1>5 DEF Holders
<1>7. \A q \in Hosts, k \in ViewHeads :
        ViewWaiting(q, k)' = ViewWaiting(q, k) /\ ViewWaiting(q, k) \subseteq Holders(q, k)'
  BY <1>1, <1>5 DEF ViewWaiting, Holders
<1>8. /\ IsFiniteSet(Holders(p, h)') /\ Cardinality(Holders(p, h)') = old.refcount - 1
      /\ Cardinality(Holders(p, h)') \in Nat
  BY <1>3, <1>6, FS_RemoveElement, FS_CardinalityType DEF EntrySound
<1>9. Cardinality(Holders(p, h)') = 0 => Holders(p, h)' = {}
  BY <1>8, FS_EmptySet
<1>10. old.refcount > 0 /\ (old.root = 0 \/ old.refcount > 1)
  <2>1. old.root # 0 => ViewWaiting(p, h) # {}
    BY <1>3 DEF EntrySound, Rooted
  <2>2. old.root # 0 => Holders(p, h)' # {}
    BY <1>2, <1>7, <2>1
  <2> QED BY <1>3, <1>8, <1>9, <2>2
<1>11. /\ e \in CacheEntry /\ e.refcount = old.refcount - 1 /\ e.root = old.root
       /\ e.refcount > 0 => e = [old EXCEPT !.refcount = @ - 1]
       /\ e.refcount = 0 /\ old.view = 0 => e = EmptyEntry
       /\ e.refcount = 0 /\ old.view # 0 => e.timer
       /\ e.view = old.view /\ (e.stage = old.stage \/ e = EmptyEntry)
  BY <1>3, <1>10, ReleasedFields
<1>12. e.timer => old.timer \/ old.view # 0
  BY <1>3, <1>8, <1>11 DEF CacheEntry, EmptyEntry
<1>13. EmptyEntry.stage = "none" /\ EmptyEntry.root = 0
  BY DEF EmptyEntry
<1> HIDE DEF e
<1>14. EntrySound(p, h)'
  <2>1. e.stage # "none" => e.view = 0 /\ h <= rvHead /\ ViewWaiting(p, h)' # {}
    BY <1>2, <1>3, <1>7, <1>11, <1>13 DEF EntrySound
  <2>2. e.root # 0 <=> e.stage \in Rooted
    BY <1>3, <1>11, <1>13 DEF EntrySound, Rooted
  <2>3. e.timer => e.view # 0
    BY <1>3, <1>11, <1>12 DEF EntrySound
  <2> QED BY <1>1, <1>4, <1>8, <1>11, <2>1, <2>2, <2>3 DEF EntrySound
<1>15. ASSUME NEW q \in Hosts, NEW k \in ViewHeads, <<q, k>> # <<p, h>>
       PROVE  EntrySound(q, k)'
  <2>1. EntrySound(q, k) /\ Holders(q, k)' = Holders(q, k) /\ rvEntry'[q][k] = rvEntry[q][k]
    BY <1>4, <1>6, <1>15 DEF Refs
  <2> QED BY <1>1, <1>7, <2>1 DEF EntrySound
<1>16. ASSUME NEW v \in Viewers
       PROVE  ViewerSound(v)'
  <2>1. ViewerSound(v) /\ HostOf[v] \in Hosts
    BY RepositoryViewAssumption DEF Refs
  <2>2. CASE v = u
    BY <1>5, <2>2 DEF ViewerSound
  <2>3. CASE v # u
    <3>1. rvViewer[v].head \in ViewHeads
            => rvEntry'[HostOf[v]][rvViewer[v].head].view = rvEntry[HostOf[v]][rvViewer[v].head].view
      BY <1>4, <1>11, <2>1
    <3> QED BY <1>5, <2>1, <2>3, <3>1 DEF ViewerSound
  <2> QED BY <2>2, <2>3
<1> QED BY <1>14, <1>15, <1>16 DEF Refs

\* A timer that fires finds no holder and no preparation.
LEMMA TimerKeepsRefs ==
  ASSUME Refs, NEW p \in Hosts, NEW h \in ViewHeads, ReleaseTimerFires(p, h),
         RepositoryViewTypeOK'
  PROVE  Refs'
<1>1. /\ rvEntry[p][h].timer /\ rvEntry[p][h].refcount = 0 /\ SetEntry(p, h, EmptyEntry)
      /\ UNCHANGED <<rvHead, rvAlive, rvViewer>>
  BY DEF ReleaseTimerFires
<1>2. /\ rvEntry'[p][h] = EmptyEntry
      /\ \A q \in Hosts, k \in ViewHeads :
            <<q, k>> # <<p, h>> => rvEntry'[q][k] = rvEntry[q][k]
  BY <1>1, OneEntry DEF Refs
<1>3. EntrySound(p, h)
  BY DEF Refs
<1>4. Holders(p, h) = {}
  BY <1>1, <1>3, FS_EmptySet DEF EntrySound
<1>5. \A q, k : Holders(q, k)' = Holders(q, k) /\ ViewWaiting(q, k)' = ViewWaiting(q, k)
  BY <1>1 DEF Holders, ViewWaiting
<1>6. EntrySound(p, h)'
  <2>1. IsFiniteSet(Holders(p, h)') /\ Cardinality(Holders(p, h)') = 0
    BY <1>4, <1>5, FS_EmptySet
  <2> QED BY <1>2, <2>1 DEF EntrySound, EmptyEntry, Rooted
<1>7. \A q \in Hosts, k \in ViewHeads : <<q, k>> # <<p, h>> => EntrySound(q, k)'
  BY <1>1, <1>2, <1>5 DEF Refs, EntrySound
<1>8. ASSUME NEW v \in Viewers
      PROVE  ViewerSound(v)'
  <2>1. ViewerSound(v) /\ HostOf[v] \in Hosts /\ v \notin Holders(p, h) /\ rvViewer' = rvViewer
    BY <1>1, <1>4, RepositoryViewAssumption DEF Refs
  <2> QED BY <1>2, <2>1 DEF ViewerSound, Holders
<1> QED BY <1>6, <1>7, <1>8 DEF Refs

\* A dead process leaves no entry and no holder.
LEMMA DeathKeepsRefs ==
  ASSUME Refs, NEW p \in Hosts, HostDies(p), RepositoryViewTypeOK'
  PROVE  Refs'
<1>1. /\ rvAlive' = [rvAlive EXCEPT ![p] = FALSE] /\ rvHead' = rvHead
      /\ \A q \in Hosts : rvEntry'[q] = IF q = p THEN [h \in ViewHeads |-> EmptyEntry] ELSE rvEntry[q]
      /\ \A u \in Viewers :
            /\ rvViewer'[u].head = rvViewer[u].head
            /\ HostOf[u] = p => rvViewer'[u].pc = "done"
            /\ HostOf[u] # p => rvViewer'[u] = rvViewer[u]
  BY DEF HostDies, Refs, RepositoryViewTypeOK
<1>2. \A h \in ViewHeads : Holders(p, h)' = {}
  BY <1>1 DEF Holders
<1>3. \A q \in Hosts, h \in ViewHeads :
        q # p => Holders(q, h)' = Holders(q, h) /\ ViewWaiting(q, h)' = ViewWaiting(q, h)
  BY <1>1 DEF Holders, ViewWaiting
<1>4. ASSUME NEW q \in Hosts, NEW h \in ViewHeads
      PROVE  EntrySound(q, h)'
  <2>1. EntrySound(q, h) /\ rvAlive \in [Hosts -> BOOLEAN]
    BY DEF Refs, RepositoryViewTypeOK
  <2>2. CASE q = p
    <3>1. rvEntry'[q][h] = EmptyEntry
      BY <1>1, <2>2
    <3> QED BY <1>2, <2>2, <3>1, FS_EmptySet DEF EntrySound, EmptyEntry, Rooted
  <2>3. CASE q # p
    BY <1>1, <1>3, <2>1, <2>3 DEF EntrySound
  <2> QED BY <2>2, <2>3
<1>5. ASSUME NEW v \in Viewers
      PROVE  ViewerSound(v)'
  <2>1. ViewerSound(v) /\ HostOf[v] \in Hosts
    BY RepositoryViewAssumption DEF Refs
  <2> QED BY <1>1, <2>1 DEF ViewerSound
<1> QED BY <1>4, <1>5 DEF Refs

\* A step of one entry of a running process, with at most one root, r, of its own.
RootStep(p, h, e, r) ==
    LET old == rvEntry[p][h] IN
    /\ rvAlive[p] /\ e \in CacheEntry /\ SetEntry(p, h, e)
    /\ UNCHANGED <<rvHead, rvAlive, rvSweep>>
    /\ \A s \in RootIds : s # r => rvRoot'[s] = rvRoot[s]
    /\ \A s \in RootIds : s # r /\ s \in {e.root, e.view} => Uses(p, h, s)
    /\ \A s \in RootIds : s # r /\ old.root = s => e.root = s
    /\ r \in RootIds =>
         /\ rvRoot[r].state = "unused" \/ Uses(p, h, r)
         /\ rvRoot'[r].owner = p /\ rvRoot'[r].state # "unused"
         /\ r \in {e.root, e.view} => rvRoot'[r].state = "live"
         /\ rvRoot'[r].token => e.root = r
         /\ rvRoot'[r].state = "live" /\ rvRoot'[r].aged => rvRoot'[r].marker # "none"

\* Such a step keeps what holds of the roots, of every other entry and of the sweeps.
LEMMA RootStepKeeps ==
  ASSUME ViewInv, NEW p \in Hosts, NEW h \in ViewHeads, NEW e, NEW r, RootStep(p, h, e, r)
  PROVE  /\ \A q \in Hosts, k \in ViewHeads : <<q, k>> # <<p, h>> => HeadsSound(q, k)'
         /\ \A s \in RootIds : RootSound(s)'
         /\ \A q \in Hosts : SweepSound(q)'
         /\ TokenOnlyInPreparation'
<1> USE DEF RootStep
<1>1. /\ rvEntry'[p][h] = e
      /\ \A q \in Hosts, k \in ViewHeads :
            <<q, k>> # <<p, h>> => rvEntry'[q][k] = rvEntry[q][k]
  BY OneEntry DEF ViewInv
<1>2. /\ \A s \in RootIds : s # r => rvRoot'[s] = rvRoot[s]
      /\ rvHead' = rvHead /\ rvAlive' = rvAlive /\ rvSweep' = rvSweep /\ rvAlive[p]
  OBVIOUS
<1>3. ASSUME NEW q \in Hosts, NEW k \in ViewHeads, <<q, k>> # <<p, h>>, r \in RootIds
      PROVE  ~Uses(q, k, r)
  BY <1>3 DEF ViewInv, RootSound
<1>4. 0 \notin RootIds /\ \A n \in 0 .. MaxRoots : n # 0 => n \in RootIds
  BY RepositoryViewAssumption DEF RootIds
<1>5. ASSUME NEW q \in Hosts, NEW k \in ViewHeads, <<q, k>> # <<p, h>>
      PROVE  HeadsSound(q, k)'
  <2> DEFINE entry == rvEntry[q][k]
  <2>1. /\ HeadsSound(q, k) /\ EntrySound(q, k)
        /\ entry.root \in 0 .. MaxRoots /\ entry.view \in 0 .. MaxRoots /\ entry.stage \in Stages
    BY EntryFields DEF ViewInv
  <2>2. rvEntry'[q][k] = entry
    BY <1>1, <1>5
  <2>3. entry.root # 0 => rvRoot'[entry.root] = rvRoot[entry.root]
    BY <1>2, <1>3, <1>4, <1>5, <2>1 DEF Uses
  <2>4. entry.view # 0 => rvRoot'[entry.view] = rvRoot[entry.view]
    BY <1>2, <1>3, <1>4, <1>5, <2>1 DEF Uses
  <2>5. entry.stage \in Rooted => entry.root # 0
    BY <2>1 DEF EntrySound
  <2> HIDE DEF entry
  <2> QED BY <1>2, <2>1, <2>2, <2>3, <2>4, <2>5 DEF HeadsSound, entry, Rooted, Pinned
<1>6. ASSUME NEW s \in RootIds, s # r, NEW q \in Hosts, NEW k \in ViewHeads, Uses(q, k, s)'
      PROVE  Uses(q, k, s)
  BY <1>1, <1>6 DEF Uses
<1>7. ASSUME NEW q \in Hosts, NEW k \in ViewHeads, r \in RootIds, Uses(q, k, r)'
      PROVE  q = p /\ k = h /\ r \in {e.root, e.view}
  BY <1>1, <1>3, <1>7 DEF Uses
<1>8. ASSUME NEW s \in RootIds
      PROVE  RootSound(s)'
  <2>1. RootSound(s)
    BY DEF ViewInv
  <2>2. CASE s # r
    <3>1. rvRoot'[s] = rvRoot[s]
      BY <1>2, <2>2
    <3> QED BY <1>2, <1>6, <2>1, <2>2, <3>1 DEF RootSound
  <2>3. CASE s = r
    BY <1>2, <1>7, <2>3 DEF RootSound
  <2> QED BY <2>2, <2>3
<1>9. ASSUME NEW q \in Hosts
      PROVE  SweepSound(q)'
  <2>1. SweepSound(q) /\ rvSweep[q] \in 0 .. MaxRoots
    BY DEF ViewInv, RepositoryViewTypeOK
  <2>2. rvSweep[q] # 0 => rvSweep[q] \in RootIds
    BY <1>4, <2>1
  <2>3. r \in RootIds /\ Uses(p, h, r) => rvRoot[r].owner = p
    BY DEF ViewInv, RootSound
  <2>4. rvSweep[q] # 0 => rvSweep[q] # r
    BY <1>2, <2>1, <2>2, <2>3 DEF SweepSound
  <2> QED BY <1>2, <2>1, <2>2, <2>4 DEF SweepSound
<1>10. TokenOnlyInPreparation'
  <2>1. ASSUME NEW s \in RootIds, rvRoot'[s].token, rvAlive'[rvRoot'[s].owner]
        PROVE  \E k \in ViewHeads : rvEntry'[rvRoot'[s].owner][k].root = s
    <3>1. CASE s = r
      BY <1>1, <2>1, <3>1
    <3>2. CASE s # r
      <4>1. rvRoot'[s] = rvRoot[s] /\ rvRoot[s].owner \in Hosts
        BY <1>2, <3>2 DEF ViewInv, RepositoryViewTypeOK, WorkspaceRoot
      <4>2. PICK k \in ViewHeads : rvEntry[rvRoot[s].owner][k].root = s
        BY <1>2, <2>1, <4>1 DEF ViewInv, TokenOnlyInPreparation
      <4>3. rvEntry'[rvRoot[s].owner][k].root = s
        BY <1>1, <3>2, <4>1, <4>2
      <4> QED BY <4>1, <4>3
    <3> QED BY <3>1, <3>2
  <2> QED BY <2>1 DEF TokenOnlyInPreparation
<1> QED BY <1>5, <1>8, <1>9, <1>10

\* A step that leaves the entries alone, and of the roots what the entries rest on.
LEMMA RootsRest ==
  ASSUME ViewInv, UNCHANGED <<rvAlive, rvEntry>>, rvHead <= rvHead', RepositoryViewTypeOK',
         \A s \in RootIds : /\ rvRoot'[s].owner = rvRoot[s].owner
                            /\ rvRoot'[s].state = rvRoot[s].state
                            /\ rvRoot'[s].tree = rvRoot[s].tree
                            /\ rvRoot'[s].files = rvRoot[s].files
                            /\ rvRoot'[s].token = rvRoot[s].token
                            /\ rvRoot'[s].aged => rvRoot[s].aged \/ rvRoot[s].state = "live"
                            /\ rvRoot'[s].aged /\ rvRoot'[s].marker = "none"
                                 => ~rvAlive[rvRoot[s].owner] \/ rvRoot[s] = rvRoot'[s]
  PROVE  /\ \A q \in Hosts, k \in ViewHeads : HeadsSound(q, k)'
         /\ \A s \in RootIds : RootSound(s)'
         /\ TokenOnlyInPreparation'
<1>1. 0 \notin RootIds /\ \A n \in 0 .. MaxRoots : n # 0 => n \in RootIds
  BY RepositoryViewAssumption DEF RootIds
<1>2. rvHead \in Int /\ rvHead' \in Int
  BY RepositoryViewAssumption DEF ViewInv, RepositoryViewTypeOK, ViewHeads
<1>3. ASSUME NEW q \in Hosts, NEW k \in ViewHeads
      PROVE  HeadsSound(q, k)'
  <2> DEFINE entry == rvEntry[q][k]
  <2>1. /\ HeadsSound(q, k) /\ EntrySound(q, k)
        /\ entry.root \in 0 .. MaxRoots /\ entry.view \in 0 .. MaxRoots /\ entry.stage \in Stages
        /\ entry.listed \in 0 .. MaxViewHeads
    BY EntryFields DEF ViewInv
  <2>2. entry.listed \in Int
    BY <2>1, RepositoryViewAssumption
  <2>3. entry.stage \in Rooted => entry.root # 0
    BY <2>1 DEF EntrySound
  <2>4. entry.root # 0 => /\ rvRoot'[entry.root].tree = rvRoot[entry.root].tree
                          /\ rvRoot'[entry.root].files = rvRoot[entry.root].files
    BY <1>1, <2>1
  <2>5. entry.view # 0 => /\ rvRoot'[entry.view].tree = rvRoot[entry.view].tree
                          /\ rvRoot'[entry.view].files = rvRoot[entry.view].files
    BY <1>1, <2>1
  <2>6. rvEntry'[q][k] = entry
    OBVIOUS
  <2> HIDE DEF entry
  <2> QED BY <1>2, <2>1, <2>2, <2>3, <2>4, <2>5, <2>6 DEF HeadsSound, entry, Rooted, Pinned
<1>4. ASSUME NEW s \in RootIds
      PROVE  RootSound(s)'
  <2>1. RootSound(s) /\ \A q, k : Uses(q, k, s)' = Uses(q, k, s)
    BY DEF ViewInv, Uses
  <2> QED BY <2>1 DEF RootSound
<1>5. TokenOnlyInPreparation'
  BY DEF ViewInv, TokenOnlyInPreparation
<1> QED BY <1>3, <1>4, <1>5

\* The parts of the invariant together again.
LEMMA EntryStepKeeps ==
  ASSUME ViewInv, Refs', NEW p \in Hosts, NEW h \in ViewHeads, NEW e, NEW r,
         RootStep(p, h, e, r), HeadsSound(p, h)'
  PROVE  ViewInv'
<1>1. \A q \in Hosts, k \in ViewHeads : HeadsSound(q, k)'
  BY RootStepKeeps
<1> QED BY <1>1, RootStepKeeps DEF ViewInv, Refs

\* A preparation that has its root goes on in it.
StepsOn(p, h, s, w) ==
    LET old == rvEntry[p][h] IN
    /\ rvAlive[p] /\ old.stage \in Rooted /\ s \in Rooted
    /\ SetEntry(p, h, [old EXCEPT !.stage = s])
    /\ w \in WorkspaceRoot /\ rvRoot' = [rvRoot EXCEPT ![old.root] = w]
    /\ w.state = rvRoot[old.root].state /\ w.owner = rvRoot[old.root].owner
    /\ w.files = rvRoot[old.root].files
    /\ w.aged => w.marker # "none"
    /\ s = "checkout" => old.listed <= w.tree
    /\ s \in Pinned => w.tree = h /\ old.listed = h
    /\ UNCHANGED <<rvHead, rvAlive, rvViewer, rvSweep>>

LEMMA StepsOnKeeps ==
  ASSUME ViewInv, NEW p \in Hosts, NEW h \in ViewHeads, NEW s, NEW w, StepsOn(p, h, s, w)
  PROVE  ViewInv'
<1> DEFINE old == rvEntry[p][h]
           r == old.root
           e == [old EXCEPT !.stage = s]
<1>1. /\ RepositoryViewTypeOK /\ old \in CacheEntry /\ EntrySound(p, h) /\ HeadsSound(p, h)
      /\ old.root \in 0 .. MaxRoots /\ old.listed \in 0 .. MaxViewHeads
      /\ Rooted \subseteq Stages /\ "none" \notin Rooted
  BY EntryFields DEF ViewInv, Rooted, Stages
<1>2. old.stage \in Rooted /\ s \in Rooted
  BY DEF StepsOn
<1>3. /\ e \in CacheEntry /\ e.stage = s /\ e.root = r /\ e.view = old.view
      /\ e.listed = old.listed /\ e.refcount = old.refcount /\ e.timer = old.timer
  BY <1>1, <1>2 DEF CacheEntry
<1>4. r # 0 /\ r \in RootIds /\ old.view = 0
  BY <1>1, <1>2 DEF EntrySound, RootIds, Rooted
<1>5. /\ rvRoot'[r] = w /\ \A t \in RootIds : t # r => rvRoot'[t] = rvRoot[t]
      /\ rvRoot' \in [RootIds -> WorkspaceRoot]
  BY <1>4 DEF StepsOn, ViewInv, RepositoryViewTypeOK
<1>6. Uses(p, h, r) /\ rvRoot[r].state = "live" /\ rvRoot[r].owner = p
  BY <1>4 DEF Uses, ViewInv, RootSound
<1>7. SetEntry(p, h, e) /\ rvAlive[p] /\ UNCHANGED <<rvHead, rvAlive, rvViewer, rvSweep>>
  BY DEF StepsOn
<1>8. w.state = "live" /\ w.owner = p /\ w.files = old.listed /\ (w.aged => w.marker # "none")
  BY <1>1, <1>4, <1>6 DEF StepsOn, HeadsSound
<1>9. (s = "checkout" => old.listed <= w.tree) /\ (s \in Pinned => w.tree = h /\ old.listed = h)
  BY DEF StepsOn
<1>10. rvEntry'[p][h] = e /\ rvEntry' \in [Hosts -> [ViewHeads -> CacheEntry]]
  BY <1>1, <1>3, <1>7, OneEntry
<1> HIDE DEF e, r, old
<1>11. Advances(p, h, e)
  BY <1>1, <1>2, <1>3, <1>4, <1>7 DEF Advances, old, r
<1>12. RepositoryViewTypeOK'
  BY <1>1, <1>5, <1>7, <1>10 DEF RepositoryViewTypeOK
<1>13. Refs'
  BY <1>11, <1>12, AdvanceKeepsRefs DEF ViewInv, Refs
<1>14. RootStep(p, h, e, r)
  BY <1>3, <1>4, <1>5, <1>6, <1>7, <1>8 DEF RootStep, Uses, old, r
<1>15. HeadsSound(p, h)'
  <2>1. old.listed <= rvHead /\ h <= old.listed
    BY <1>1, <1>2 DEF HeadsSound, PastListing, Rooted, Stages, old
  <2> QED BY <1>3, <1>4, <1>5, <1>7, <1>8, <1>9, <1>10, <2>1 DEF HeadsSound
<1> QED BY <1>13, <1>14, <1>15, EntryStepKeeps

\* The steps that go on in the preparation's root.
LEMMA RootedSteps ==
  ASSUME ViewInv, NEW p \in Hosts, NEW h \in ViewHeads,
         \/ writeWorkspaceOwnerMarker(p, h)
         \/ createGitCredentialFiles(p, h)
         \/ fetchPrHead(p, h)
         \/ CheckoutHead(p, h) /\ HeadMatches(p, h)
         \/ readBasePolicySnapshot(p, h)
  PROVE  ViewInv'
<1> DEFINE old == rvEntry[p][h]
           root == rvRoot[old.root]
<1>1. /\ RepositoryViewTypeOK /\ EntrySound(p, h) /\ HeadsSound(p, h)
      /\ old.root \in 0 .. MaxRoots /\ old.listed \in 0 .. MaxViewHeads
      /\ rvHead \in ViewHeads /\ rvRoot \in [RootIds -> WorkspaceRoot]
  BY EntryFields DEF ViewInv, RepositoryViewTypeOK
<1>2. ASSUME rvAlive[p], old.stage \in Rooted
      PROVE  /\ old.root \in RootIds /\ root \in WorkspaceRoot /\ root.state = "live"
             /\ root.owner = p /\ (root.aged => root.marker # "none")
             /\ rvRoot = [rvRoot EXCEPT ![old.root] = root]
             /\ h <= old.listed /\ old.listed <= rvHead
  <2>1. old.root # 0 /\ old.root \in RootIds
    BY <1>1, <1>2 DEF EntrySound, RootIds
  <2>2. Uses(p, h, old.root) /\ RootSound(old.root)
    BY <2>1 DEF Uses, ViewInv
  <2>3. root.state = "live" /\ root.owner = p /\ (root.aged => root.marker # "none")
    BY <1>2, <2>1, <2>2 DEF RootSound
  <2>4. h <= old.listed /\ old.listed <= rvHead
    BY <1>1, <1>2 DEF HeadsSound, PastListing, Rooted, Stages
  <2> QED BY <1>1, <2>1, <2>3, <2>4
<1>3. CASE writeWorkspaceOwnerMarker(p, h)
  <2>1. rvAlive[p] /\ old.stage = "mark"
    BY <1>3 DEF writeWorkspaceOwnerMarker, Preparing
  <2> DEFINE w == Marked(root)
  <2>2. old.root \in RootIds /\ root \in WorkspaceRoot
    BY <1>2, <2>1 DEF Rooted
  <2>3. /\ w \in WorkspaceRoot /\ w.state = root.state /\ w.owner = root.owner
        /\ w.files = root.files /\ ~w.aged
    BY <2>2 DEF Marked, WorkspaceRoot
  <2>4. rvRoot' = [rvRoot EXCEPT ![old.root] = w]
    BY <1>3 DEF writeWorkspaceOwnerMarker
  <2> HIDE DEF w
  <2>5. StepsOn(p, h, "credentials", w)
    BY <1>3, <2>1, <2>3, <2>4 DEF StepsOn, Rooted, Pinned, writeWorkspaceOwnerMarker
  <2> QED BY <2>5, StepsOnKeeps
<1>4. CASE createGitCredentialFiles(p, h)
  <2>1. rvAlive[p] /\ old.stage = "credentials"
    BY <1>4 DEF createGitCredentialFiles, Preparing
  <2> DEFINE w == [root EXCEPT !.token = TRUE]
  <2>2. /\ old.root \in RootIds /\ root \in WorkspaceRoot
        /\ (root.aged => root.marker # "none")
    BY <1>2, <2>1 DEF Rooted
  <2>3. /\ w \in WorkspaceRoot /\ w.state = root.state /\ w.owner = root.owner
        /\ w.files = root.files /\ w.aged = root.aged /\ w.marker = root.marker
    BY <2>2 DEF WorkspaceRoot
  <2>4. rvRoot' = [rvRoot EXCEPT ![old.root] = w]
    BY <1>4 DEF createGitCredentialFiles
  <2> HIDE DEF w
  <2>5. StepsOn(p, h, "fetch", w)
    BY <1>4, <2>1, <2>2, <2>3, <2>4 DEF StepsOn, Rooted, Pinned, createGitCredentialFiles
  <2> QED BY <2>5, StepsOnKeeps
<1>5. CASE fetchPrHead(p, h)
  <2>1. rvAlive[p] /\ old.stage \in {"fetch", "sparse"}
    BY <1>5 DEF fetchPrHead, Preparing
  <2>2. /\ old.root \in RootIds /\ root \in WorkspaceRoot
        /\ (root.aged => root.marker # "none") /\ old.listed <= rvHead
        /\ rvRoot = [rvRoot EXCEPT ![old.root] = root]
    BY <1>2, <2>1 DEF Rooted
  <2>3. CASE sparseFallback(p, h)
    <3>1. rvRoot' = [rvRoot EXCEPT ![old.root] = root]
      BY <2>2, <2>3 DEF sparseFallback
    <3>2. StepsOn(p, h, "sparse", root)
      BY <1>5, <2>1, <2>2, <2>3, <3>1 DEF StepsOn, Rooted, Pinned, fetchPrHead, sparseFallback
    <3> QED BY <3>2, StepsOnKeeps
  <2>4. CASE ~sparseFallback(p, h)
    <3> DEFINE w == [root EXCEPT !.tree = rvHead]
    <3>1. /\ w \in WorkspaceRoot /\ w.state = root.state /\ w.owner = root.owner
          /\ w.files = root.files /\ w.aged = root.aged /\ w.marker = root.marker
          /\ w.tree = rvHead
      BY <1>1, <2>2 DEF WorkspaceRoot, ViewHeads
    <3>2. rvRoot' = [rvRoot EXCEPT ![old.root] = w]
      BY <1>5, <2>4 DEF fetchPrHead
    <3>3. SetEntry(p, h, [old EXCEPT !.stage = "checkout"])
      BY <1>5, <2>4 DEF fetchPrHead
    <3> HIDE DEF w
    <3>4. StepsOn(p, h, "checkout", w)
      BY <1>5, <2>1, <2>2, <3>1, <3>2, <3>3 DEF StepsOn, Rooted, Pinned, fetchPrHead
    <3> QED BY <3>4, StepsOnKeeps
  <2> QED BY <2>3, <2>4
<1>6. CASE CheckoutHead(p, h) /\ HeadMatches(p, h)
  <2>1. rvAlive[p] /\ old.stage = "checkout"
    BY <1>6 DEF CheckoutHead, Preparing
  <2>2. /\ old.root \in RootIds /\ root \in WorkspaceRoot
        /\ (root.aged => root.marker # "none") /\ h <= old.listed
        /\ rvRoot = [rvRoot EXCEPT ![old.root] = root]
    BY <1>2, <2>1 DEF Rooted
  <2>3. root.tree = h /\ old.listed <= root.tree
    BY <1>1, <1>6, <2>1 DEF HeadMatches, HeadsSound
  <2>4. old.listed = h
    BY <1>1, <2>2, <2>3, RepositoryViewAssumption DEF ViewHeads
  <2>5. /\ SetEntry(p, h, [old EXCEPT !.stage = "policy"])
        /\ UNCHANGED <<rvHead, rvAlive, rvRoot, rvViewer, rvSweep>>
    BY <1>6 DEF CheckoutHead
  <2>6. StepsOn(p, h, "policy", root)
    BY <2>1, <2>2, <2>3, <2>4, <2>5 DEF StepsOn, Rooted
  <2> QED BY <2>6, StepsOnKeeps
<1>7. CASE readBasePolicySnapshot(p, h)
  <2>1. rvAlive[p] /\ old.stage = "policy"
    BY <1>7 DEF readBasePolicySnapshot, Preparing
  <2>2. /\ old.root \in RootIds /\ root \in WorkspaceRoot
        /\ (root.aged => root.marker # "none")
        /\ rvRoot = [rvRoot EXCEPT ![old.root] = root]
    BY <1>2, <2>1 DEF Rooted
  <2>3. root.tree = h /\ old.listed = h
    BY <1>1, <2>1 DEF HeadsSound, Pinned
  <2>4. StepsOn(p, h, "hand", root)
    BY <1>7, <2>1, <2>2, <2>3 DEF StepsOn, Rooted, readBasePolicySnapshot
  <2> QED BY <2>4, StepsOnKeeps
<1> QED BY <1>3, <1>4, <1>5, <1>6, <1>7

\* The listing: of a head that is the entry's own or a later one.
LEMMA ListingKeeps ==
  ASSUME ViewInv, NEW p \in Hosts, NEW h \in ViewHeads, resolveCanonicalFileList(p, h)
  PROVE  ViewInv'
<1> DEFINE old == rvEntry[p][h]
           e == [old EXCEPT !.stage = "allocate", !.listed = rvHead]
<1>1. /\ RepositoryViewTypeOK /\ old \in CacheEntry /\ EntrySound(p, h) /\ rvHead \in ViewHeads
      /\ rvHead \in 0 .. MaxViewHeads
  BY EntryFields, RepositoryViewAssumption DEF ViewInv, RepositoryViewTypeOK, ViewHeads
<1>2. /\ rvAlive[p] /\ old.stage = "list" /\ SetEntry(p, h, e)
      /\ UNCHANGED <<rvHead, rvAlive, rvRoot, rvViewer, rvSweep>>
  BY DEF resolveCanonicalFileList, Preparing
<1>3. /\ e \in CacheEntry /\ e.stage = "allocate" /\ e.root = old.root /\ e.view = old.view
      /\ e.listed = rvHead /\ e.refcount = old.refcount /\ e.timer = old.timer
  BY <1>1 DEF CacheEntry, Stages
<1>4. old.root = 0 /\ old.view = 0 /\ h <= rvHead
  BY <1>1, <1>2 DEF EntrySound, Rooted
<1>5. rvEntry'[p][h] = e /\ rvEntry' \in [Hosts -> [ViewHeads -> CacheEntry]]
  BY <1>1, <1>2, <1>3, OneEntry
<1> HIDE DEF e
<1>6. Advances(p, h, e)
  BY <1>2, <1>3, <1>4 DEF Advances, Rooted
<1>7. RepositoryViewTypeOK'
  BY <1>1, <1>2, <1>5 DEF RepositoryViewTypeOK
<1>8. Refs'
  BY <1>6, <1>7, AdvanceKeepsRefs DEF ViewInv, Refs
<1>9. RootStep(p, h, e, 0)
  BY <1>2, <1>3, <1>4 DEF RootStep, RootIds
<1>10. HeadsSound(p, h)'
  BY <1>1, <1>2, <1>3, <1>4, <1>5 DEF HeadsSound, PastListing, Pinned, ViewHeads
<1> QED BY <1>8, <1>9, <1>10, EntryStepKeeps

\* The root allocated was nobody's.
LEMMA AllocationKeeps ==
  ASSUME ViewInv, NEW p \in Hosts, NEW h \in ViewHeads, allocateWorkspaceResource(p, h)
  PROVE  ViewInv'
<1> DEFINE old == rvEntry[p][h]
           r == CHOOSE r \in UnusedRoots : \A q \in UnusedRoots : r <= q
           e == [old EXCEPT !.stage = "mark", !.root = r]
<1>1. r \in UnusedRoots
  <2>0. UnusedRoots # {}
    BY DEF allocateWorkspaceResource
  <2>1. UnusedRoots \subseteq Nat
    BY DEF UnusedRoots, RootIds
  <2>2. \E x \in UnusedRoots : \A y \in UnusedRoots : x <= y
    BY <2>0, <2>1, LeastExists
  <2> QED BY <2>2
<1> HIDE DEF r
<1>2. r \in RootIds /\ r \in 0 .. MaxRoots /\ r # 0 /\ rvRoot[r].state = "unused"
  BY <1>1 DEF UnusedRoots, RootIds
<1>3. /\ RepositoryViewTypeOK /\ old \in CacheEntry /\ EntrySound(p, h) /\ HeadsSound(p, h)
      /\ old.listed \in 0 .. MaxViewHeads /\ rvRoot \in [RootIds -> WorkspaceRoot]
      /\ RootSound(r)
  BY <1>2, EntryFields DEF ViewInv, RepositoryViewTypeOK
<1>4. /\ rvAlive[p] /\ old.stage = "allocate" /\ SetEntry(p, h, e)
      /\ rvRoot' = [rvRoot EXCEPT ![r].state = "live", ![r].owner = p, ![r].files = old.listed]
      /\ UNCHANGED <<rvHead, rvAlive, rvViewer, rvSweep>>
  BY DEF allocateWorkspaceResource, Preparing, r
<1>5. /\ e \in CacheEntry /\ e.stage = "mark" /\ e.root = r /\ e.view = old.view
      /\ e.listed = old.listed /\ e.refcount = old.refcount /\ e.timer = old.timer
  BY <1>2, <1>3 DEF CacheEntry, Stages
<1>6. old.root = 0 /\ old.view = 0
  BY <1>3, <1>4 DEF EntrySound, Rooted
<1>7. rvEntry'[p][h] = e /\ rvEntry' \in [Hosts -> [ViewHeads -> CacheEntry]]
  BY <1>3, <1>4, <1>5, OneEntry
<1> DEFINE w == [rvRoot[r] EXCEPT !.state = "live", !.owner = p, !.files = old.listed]
<1>8. /\ w \in WorkspaceRoot /\ w.state = "live" /\ w.owner = p /\ w.files = old.listed
      /\ ~w.aged /\ ~w.token
  BY <1>2, <1>3 DEF WorkspaceRoot, RootSound
<1>9. rvRoot' = [rvRoot EXCEPT ![r] = w]
  BY <1>2, <1>3, <1>4
<1> HIDE DEF e, w
<1>10. /\ rvRoot'[r] = w /\ \A t \in RootIds : t # r => rvRoot'[t] = rvRoot[t]
       /\ rvRoot' \in [RootIds -> WorkspaceRoot]
  BY <1>2, <1>3, <1>8, <1>9
<1>11. Advances(p, h, e)
  BY <1>2, <1>4, <1>5, <1>6 DEF Advances, Rooted
<1>12. RepositoryViewTypeOK'
  BY <1>3, <1>4, <1>7, <1>10 DEF RepositoryViewTypeOK
<1>13. Refs'
  BY <1>11, <1>12, AdvanceKeepsRefs DEF ViewInv, Refs
<1>14. RootStep(p, h, e, r)
  <2>1. \A s \in RootIds : s # r => old.root # s /\ s \notin {e.root, e.view}
    BY <1>5, <1>6 DEF RootIds
  <2> QED BY <1>2, <1>4, <1>5, <1>8, <1>10, <2>1 DEF RootStep
<1>15. HeadsSound(p, h)'
  BY <1>2, <1>3, <1>4, <1>5, <1>6, <1>7, <1>8, <1>10
     DEF HeadsSound, PastListing, Pinned, Stages
<1> QED BY <1>13, <1>14, <1>15, EntryStepKeeps

\* A root's record once it is released.
LEMMA ReleasedRootFields ==
  ASSUME NEW root \in WorkspaceRoot
  PROVE  /\ ReleasedRoot(root) \in WorkspaceRoot /\ ReleasedRoot(root).state = "removed"
         /\ ReleasedRoot(root).owner = root.owner /\ ~ReleasedRoot(root).token
  BY DEF ReleasedRoot, WorkspaceRoot

\* Moving the viewers of one entry keeps their type.
LEMMA ViewersTyped ==
  ASSUME RepositoryViewTypeOK, NEW S, NEW pc \in {"using", "failing", "done"},
         rvViewer' = [u \in Viewers |-> IF u \in S THEN [rvViewer[u] EXCEPT !.pc = pc]
                                        ELSE rvViewer[u]]
  PROVE  rvViewer' \in [Viewers -> [pc : {"idle", "waiting", "using", "failing", "done"},
                                    head : 0 .. MaxViewHeads, views : 0 .. MaxViews]]
  BY DEF RepositoryViewTypeOK

\* A preparation that fails releases its root, and nobody uses the entry.
LEMMA FailureKeeps ==
  ASSUME ViewInv, NEW p \in Hosts, NEW h \in ViewHeads, PreparationFails(p, h), rvAlive[p],
         rvEntry[p][h].stage # "none"
  PROVE  ViewInv'
<1> DEFINE old == rvEntry[p][h]
           r == old.root
           e == [old EXCEPT !.stage = "none", !.listed = 0, !.root = 0]
<1>1. /\ RepositoryViewTypeOK /\ old \in CacheEntry /\ EntrySound(p, h)
      /\ old.root \in 0 .. MaxRoots /\ rvRoot \in [RootIds -> WorkspaceRoot]
      /\ 0 \in 0 .. MaxRoots /\ 0 \in 0 .. MaxViewHeads
  BY EntryFields, RepositoryViewAssumption DEF ViewInv, RepositoryViewTypeOK
<1>2. /\ SetEntry(p, h, e) /\ UNCHANGED <<rvHead, rvAlive, rvSweep>>
      /\ rvRoot' = IF r = 0 THEN rvRoot ELSE [rvRoot EXCEPT ![r] = ReleasedRoot(rvRoot[r])]
      /\ rvViewer' = [u \in Viewers |-> IF u \in ViewWaiting(p, h)
                                        THEN [rvViewer[u] EXCEPT !.pc = "failing"] ELSE rvViewer[u]]
  BY DEF PreparationFails
<1>3. /\ e \in CacheEntry /\ e.stage = "none" /\ e.root = 0 /\ e.view = old.view
      /\ e.listed = 0 /\ e.refcount = old.refcount /\ e.timer = old.timer
  BY <1>1 DEF CacheEntry, Stages
<1>4. old.view = 0
  BY <1>1 DEF EntrySound
<1>5. rvEntry'[p][h] = e /\ rvEntry' \in [Hosts -> [ViewHeads -> CacheEntry]]
  BY <1>1, <1>2, <1>3, OneEntry
<1>6. r # 0 => /\ r \in RootIds /\ Uses(p, h, r) /\ rvRoot[r].owner = p
               /\ rvRoot[r] \in WorkspaceRoot
  BY <1>1 DEF RootIds, Uses, ViewInv, RootSound
<1> HIDE DEF e, r
<1>7. rvRoot' \in [RootIds -> WorkspaceRoot]
  <2>1. r # 0 => ReleasedRoot(rvRoot[r]) \in WorkspaceRoot
    BY <1>6, ReleasedRootFields
  <2> QED BY <1>1, <1>2, <2>1
<1>8. Settles(p, h, e, "failing")
  BY <1>2, <1>3 DEF Settles
<1>9. RepositoryViewTypeOK'
  BY <1>1, <1>2, <1>5, <1>7, ViewersTyped DEF RepositoryViewTypeOK
<1>10. Refs'
  BY <1>8, <1>9, SettleKeepsRefs DEF ViewInv, Refs
<1>11. RootStep(p, h, e, r)
  <2>1. \A t \in RootIds : t # r => rvRoot'[t] = rvRoot[t]
    BY <1>1, <1>2
  <2>2. r \in RootIds => r # 0
    BY DEF RootIds
  <2>3. r \in RootIds => rvRoot'[r] = ReleasedRoot(rvRoot[r])
    BY <1>1, <1>2, <2>2
  <2>4. r \in RootIds => /\ rvRoot'[r].state = "removed" /\ rvRoot'[r].owner = p
                         /\ ~rvRoot'[r].token
    BY <1>6, <2>2, <2>3, ReleasedRootFields
  <2>5. \A t \in RootIds : t \notin {e.root, e.view}
    BY <1>3, <1>4 DEF RootIds
  <2>6. SetEntry(p, h, e) /\ e \in CacheEntry /\ UNCHANGED <<rvHead, rvAlive, rvSweep>>
    BY <1>2, <1>3
  <2>7. \A s \in RootIds : s # r => old.root # s
    BY DEF r
  <2> HIDE DEF old
  <2> QED BY <1>6, <2>1, <2>2, <2>4, <2>5, <2>6, <2>7 DEF RootStep, old
<1>12. HeadsSound(p, h)'
  BY <1>3, <1>4, <1>5 DEF HeadsSound, PastListing, Pinned
<1> QED BY <1>10, <1>11, <1>12, EntryStepKeeps

\* The view handed out is the root of the preparation, of the entry's head, without a token.
LEMMA ReadyKeeps ==
  ASSUME ViewInv, NEW p \in Hosts, NEW h \in ViewHeads, ViewReady(p, h)
  PROVE  ViewInv'
<1> DEFINE old == rvEntry[p][h]
           r == old.root
           e == [old EXCEPT !.stage = "none", !.listed = 0, !.root = 0, !.view = r]
<1>1. /\ RepositoryViewTypeOK /\ old \in CacheEntry /\ EntrySound(p, h) /\ HeadsSound(p, h)
      /\ old.root \in 0 .. MaxRoots /\ rvRoot \in [RootIds -> WorkspaceRoot]
      /\ 0 \in 0 .. MaxRoots /\ 0 \in 0 .. MaxViewHeads
  BY EntryFields, RepositoryViewAssumption DEF ViewInv, RepositoryViewTypeOK
<1>2. /\ rvAlive[p] /\ old.stage = "hand"
      /\ SetEntry(p, h, e) /\ UNCHANGED <<rvHead, rvAlive, rvSweep>>
      /\ rvRoot' = [rvRoot EXCEPT ![r] = HandedRoot(rvRoot[r])]
      /\ rvViewer' = [u \in Viewers |-> IF u \in ViewWaiting(p, h)
                                        THEN [rvViewer[u] EXCEPT !.pc = "using"] ELSE rvViewer[u]]
  BY DEF ViewReady, Preparing
<1>3. /\ e \in CacheEntry /\ e.stage = "none" /\ e.root = 0 /\ e.view = r
      /\ e.listed = 0 /\ e.refcount = old.refcount /\ e.timer = old.timer
  BY <1>1 DEF CacheEntry, Stages
<1>4. r # 0
  BY <1>1, <1>2 DEF EntrySound, Rooted
<1>5. rvEntry'[p][h] = e /\ rvEntry' \in [Hosts -> [ViewHeads -> CacheEntry]]
  BY <1>1, <1>2, <1>3, OneEntry
<1>6. /\ r \in RootIds /\ Uses(p, h, r) /\ rvRoot[r].owner = p /\ rvRoot[r].state = "live"
      /\ rvRoot[r] \in WorkspaceRoot /\ RootSound(r)
  BY <1>1, <1>4 DEF RootIds, Uses, ViewInv, RootSound
<1>7. rvRoot[r].tree = h /\ rvRoot[r].files = h
  BY <1>1, <1>2, <1>4 DEF HeadsSound, Pinned
<1> DEFINE w == HandedRoot(rvRoot[r])
<1>8. /\ w \in WorkspaceRoot /\ w.state = "live" /\ w.owner = p /\ ~w.token
      /\ w.tree = h /\ w.files = h /\ w.aged = rvRoot[r].aged /\ w.marker = rvRoot[r].marker
  BY <1>6, <1>7 DEF HandedRoot, WorkspaceRoot
<1> HIDE DEF e, r, w
<1>9. /\ rvRoot'[r] = w /\ \A t \in RootIds : t # r => rvRoot'[t] = rvRoot[t]
      /\ rvRoot' \in [RootIds -> WorkspaceRoot]
  BY <1>1, <1>2, <1>6, <1>8 DEF w
<1>10. Settles(p, h, e, "using")
  BY <1>2, <1>3, <1>4 DEF Settles
<1>11. RepositoryViewTypeOK'
  BY <1>1, <1>2, <1>5, <1>9, ViewersTyped DEF RepositoryViewTypeOK
<1>12. Refs'
  BY <1>10, <1>11, SettleKeepsRefs DEF ViewInv, Refs
<1>13. RootStep(p, h, e, r)
  <2>1. \A s \in RootIds : s # r => old.root # s /\ s \notin {e.root, e.view}
    BY <1>3 DEF r, RootIds
  <2>2. w.aged => w.marker # "none"
    BY <1>2, <1>6, <1>8 DEF RootSound
  <2> QED BY <1>2, <1>3, <1>6, <1>8, <1>9, <2>1, <2>2 DEF RootStep
<1>14. HeadsSound(p, h)'
  BY <1>3, <1>5, <1>8, <1>9 DEF HeadsSound, PastListing, Pinned
<1> QED BY <1>12, <1>13, <1>14, EntryStepKeeps

\* Taking a view, giving it back and its timer.
LEMMA AcquireKeeps ==
  ASSUME ViewInv, NEW u \in Viewers, acquirePrRepositoryView(u)
  PROVE  ViewInv'
<1> DEFINE p == HostOf[u]
<1>1. PICK h \in 1 .. rvHead :
        LET entry == Acquired(rvEntry[p][h]) IN
        /\ SetEntry(p, h, IF entry.view = 0 /\ entry.stage = "none"
                          THEN [entry EXCEPT !.stage = "list"] ELSE entry)
        /\ rvViewer' = [rvViewer EXCEPT
             ![u] = [pc |-> IF entry.view # 0 THEN "using" ELSE "waiting",
                     head |-> h, views |-> @.views + 1]]
  BY DEF acquirePrRepositoryView
<1> DEFINE old == rvEntry[p][h]
           e == IF Acquired(old).view = 0 /\ Acquired(old).stage = "none"
                THEN [Acquired(old) EXCEPT !.stage = "list"] ELSE Acquired(old)
           pc == IF Acquired(old).view # 0 THEN "using" ELSE "waiting"
<1>2. /\ p \in Hosts /\ h \in ViewHeads /\ h \in 0 .. MaxViewHeads /\ rvAlive[p]
      /\ rvViewer[u].views + 1 \in 0 .. MaxViews
      /\ UNCHANGED <<rvHead, rvAlive, rvRoot, rvSweep>>
  <2>1. rvViewer[u].views \in 0 .. MaxViews /\ rvViewer[u].views < MaxViews
    BY DEF ViewInv, RepositoryViewTypeOK, acquirePrRepositoryView
  <2>2. rvHead \in 1 .. MaxViewHeads /\ MaxViewHeads \in Nat /\ MaxViews \in Nat
    BY RepositoryViewAssumption DEF ViewInv, RepositoryViewTypeOK, ViewHeads
  <2>3. h \in ViewHeads /\ h \in 0 .. MaxViewHeads /\ rvViewer[u].views + 1 \in 0 .. MaxViews
    BY <2>1, <2>2 DEF ViewHeads
  <2> QED BY <2>3, RepositoryViewAssumption DEF acquirePrRepositoryView
<1>3. /\ RepositoryViewTypeOK /\ old \in CacheEntry /\ EntrySound(p, h) /\ HeadsSound(p, h)
      /\ old.root \in 0 .. MaxRoots /\ old.view \in 0 .. MaxRoots /\ old.refcount + 1 \in Nat
  BY <1>2, EntryFields DEF ViewInv
<1>4. /\ e \in CacheEntry /\ e.root = old.root /\ e.view = old.view /\ e.listed = old.listed
      /\ e.stage # old.stage => e.stage = "list"
  <2> DEFINE a == Acquired(old)
  <2>1. /\ a \in CacheEntry /\ a.root = old.root /\ a.view = old.view /\ a.listed = old.listed
        /\ a.stage = old.stage
    BY <1>3 DEF Acquired, CacheEntry
  <2> HIDE DEF a, old
  <2>2. LET b == [a EXCEPT !.stage = "list"] IN
        /\ b \in CacheEntry /\ b.root = a.root /\ b.view = a.view /\ b.listed = a.listed
        /\ b.stage = "list"
    BY <2>1 DEF CacheEntry, Stages
  <2> QED BY <2>1, <2>2 DEF a
<1>5. SetEntry(p, h, e)
  BY <1>1
<1>6. rvEntry'[p][h] = e /\ rvEntry' \in [Hosts -> [ViewHeads -> CacheEntry]]
  BY <1>2, <1>3, <1>4, <1>5, OneEntry
<1>7. rvViewer' = [rvViewer EXCEPT ![u] = [pc |-> pc, head |-> h, views |-> rvViewer[u].views + 1]]
  BY <1>1
<1>8. pc \in {"using", "waiting"}
  OBVIOUS
<1> HIDE DEF e, pc
<1>9. RepositoryViewTypeOK'
  BY <1>2, <1>3, <1>6, <1>7, <1>8 DEF RepositoryViewTypeOK
<1>10. Refs'
  BY <1>9, AcquireKeepsRefs DEF ViewInv, Refs
<1>11. RootStep(p, h, e, 0)
  BY <1>2, <1>4, <1>5 DEF RootStep, Uses, RootIds
<1>12. HeadsSound(p, h)'
  BY <1>2, <1>3, <1>4, <1>6 DEF HeadsSound, PastListing, Pinned
<1> QED BY <1>2, <1>10, <1>11, <1>12, EntryStepKeeps

LEMMA GiveBackKeeps ==
  ASSUME ViewInv, NEW u \in Viewers, releasePrRepositoryView(u)
  PROVE  ViewInv'
<1>0. PICK h \in ViewHeads : h = rvViewer[u].head
  BY DEF releasePrRepositoryView, ViewInv, ViewerSound
<1> DEFINE p == HostOf[u]
           old == rvEntry[p][h]
           e == Released(old)
<1>1. /\ rvViewer[u].pc \in {"using", "failing"} /\ rvAlive[p] /\ SetEntry(p, h, e)
      /\ rvViewer' = [rvViewer EXCEPT ![u].pc = "idle"]
      /\ UNCHANGED <<rvHead, rvAlive, rvRoot, rvSweep>>
  BY <1>0 DEF releasePrRepositoryView
<1>2. p \in Hosts
  BY RepositoryViewAssumption
<1>3. /\ RepositoryViewTypeOK /\ old \in CacheEntry /\ EntrySound(p, h) /\ HeadsSound(p, h)
      /\ old.refcount \in Nat
  BY <1>2, EntryFields DEF ViewInv
<1>4. old.refcount > 0 /\ (old.root = 0 \/ old.refcount > 1)
  <2>1. u \in Holders(p, h)
    BY <1>0, <1>1 DEF Holders
  <2>2. /\ IsFiniteSet(Holders(p, h) \ {u}) /\ Cardinality(Holders(p, h) \ {u}) = old.refcount - 1
        /\ Cardinality(Holders(p, h) \ {u}) \in Nat
    BY <1>3, <2>1, FS_RemoveElement, FS_CardinalityType DEF EntrySound
  <2>3. old.root # 0 => ViewWaiting(p, h) # {}
    BY <1>3 DEF EntrySound, Rooted
  <2>4. ViewWaiting(p, h) \subseteq Holders(p, h) \ {u}
    BY <1>1 DEF ViewWaiting, Holders
  <2>5. old.root # 0 => Cardinality(Holders(p, h) \ {u}) # 0
    BY <2>2, <2>3, <2>4, FS_EmptySet
  <2> QED BY <1>3, <2>2, <2>5
<1>5. /\ e \in CacheEntry /\ e.root = old.root
      /\ e.refcount > 0 => e = [old EXCEPT !.refcount = @ - 1]
      /\ e.view = old.view /\ (e.stage = old.stage \/ e = EmptyEntry)
      /\ e.refcount = old.refcount - 1
      /\ e.refcount = 0 /\ old.view = 0 => e = EmptyEntry
      /\ e.refcount = 0 /\ old.view # 0 => e.timer
  BY <1>3, <1>4, ReleasedFields
<1>6. EmptyEntry.stage = "none" /\ EmptyEntry.root = 0
  BY DEF EmptyEntry
<1>7. e.listed = old.listed \/ e = EmptyEntry
  <2> DEFINE rest == [old EXCEPT !.refcount = @ - 1]
  <2>1. rest.listed = old.listed /\ [rest EXCEPT !.timer = TRUE].listed = old.listed
    BY <1>3 DEF CacheEntry
  <2>2. e = rest \/ e = EmptyEntry \/ e = [rest EXCEPT !.timer = TRUE]
    BY DEF Released
  <2> QED BY <2>1, <2>2
<1>8. rvEntry'[p][h] = e /\ rvEntry' \in [Hosts -> [ViewHeads -> CacheEntry]]
  BY <1>1, <1>2, <1>3, <1>5, OneEntry
<1> HIDE DEF e
<1>9. RepositoryViewTypeOK'
  BY <1>1, <1>3, <1>8 DEF RepositoryViewTypeOK
<1>10. Refs'
  BY <1>9, ReleaseKeepsRefs DEF ViewInv, Refs
<1>11. RootStep(p, h, e, 0)
  BY <1>1, <1>5 DEF RootStep, Uses, RootIds
<1>12. HeadsSound(p, h)'
  <2>1. e.root # 0 => e # EmptyEntry
    BY <1>6
  <2>2. e.stage # "none" => e.stage = old.stage /\ e.listed = old.listed
    BY <1>5, <1>6, <1>7
  <2> QED BY <1>1, <1>3, <1>5, <1>7, <1>8, <2>1, <2>2 DEF HeadsSound, PastListing, Pinned
<1> QED BY <1>2, <1>10, <1>11, <1>12, EntryStepKeeps

LEMMA TimerKeeps ==
  ASSUME ViewInv, NEW p \in Hosts, NEW h \in ViewHeads, ReleaseTimerFires(p, h)
  PROVE  ViewInv'
<1> DEFINE old == rvEntry[p][h]
           r == old.view
<1>1. /\ rvAlive[p] /\ old.timer /\ SetEntry(p, h, EmptyEntry)
      /\ rvRoot' = [rvRoot EXCEPT ![r] = ReleasedRoot(rvRoot[r])]
      /\ UNCHANGED <<rvHead, rvAlive, rvViewer, rvSweep>>
  BY DEF ReleaseTimerFires
<1>2. /\ RepositoryViewTypeOK /\ EntrySound(p, h) /\ old.view \in 0 .. MaxRoots
      /\ old.stage \in Stages /\ rvRoot \in [RootIds -> WorkspaceRoot]
  BY EntryFields DEF ViewInv, RepositoryViewTypeOK
<1>3. r # 0 /\ r \in RootIds /\ old.root = 0
  BY <1>1, <1>2 DEF EntrySound, RootIds, Rooted
<1>4. /\ Uses(p, h, r) /\ rvRoot[r].owner = p /\ rvRoot[r] \in WorkspaceRoot
  BY <1>2, <1>3 DEF Uses, ViewInv, RootSound
<1>5. /\ EmptyEntry \in CacheEntry /\ EmptyEntry.root = 0 /\ EmptyEntry.view = 0
      /\ EmptyEntry.stage = "none"
  BY RepositoryViewAssumption DEF EmptyEntry, CacheEntry, Stages
<1>6. rvEntry'[p][h] = EmptyEntry /\ rvEntry' \in [Hosts -> [ViewHeads -> CacheEntry]]
  BY <1>1, <1>2, <1>5, OneEntry
<1> HIDE DEF r
<1>7. /\ rvRoot'[r] = ReleasedRoot(rvRoot[r])
      /\ \A t \in RootIds : t # r => rvRoot'[t] = rvRoot[t]
      /\ rvRoot' \in [RootIds -> WorkspaceRoot]
  <2>1. ReleasedRoot(rvRoot[r]) \in WorkspaceRoot
    BY <1>4, ReleasedRootFields
  <2> QED BY <1>1, <1>2, <1>3, <2>1
<1>8. /\ rvRoot'[r].state = "removed" /\ rvRoot'[r].owner = p /\ ~rvRoot'[r].token
  BY <1>4, <1>7, ReleasedRootFields
<1>9. RepositoryViewTypeOK'
  BY <1>1, <1>2, <1>6, <1>7 DEF RepositoryViewTypeOK
<1>10. Refs'
  BY <1>9, TimerKeepsRefs DEF ViewInv, Refs
<1>11. RootStep(p, h, EmptyEntry, r)
  <2>1. \A s \in RootIds : s \notin {EmptyEntry.root, EmptyEntry.view} /\ old.root # s
    BY <1>3, <1>5 DEF RootIds
  <2> QED BY <1>1, <1>3, <1>4, <1>5, <1>7, <1>8, <2>1 DEF RootStep
<1>12. HeadsSound(p, h)'
  BY <1>5, <1>6 DEF HeadsSound, PastListing, Pinned
<1> QED BY <1>10, <1>11, <1>12, EntryStepKeeps

\* A sweep that removes a root removes a dead process's.
LEMMA SweepKeeps ==
  ASSUME ViewInv, NEW p \in Hosts, Sweeps(p)
  PROVE  ViewInv'
<1>1. /\ RepositoryViewTypeOK /\ rvRoot \in [RootIds -> WorkspaceRoot]
      /\ \A r \in RootIds : RootSound(r) /\ rvRoot[r] \in WorkspaceRoot
      /\ rvSweep \in [Hosts -> 0 .. MaxRoots]
  BY DEF ViewInv, RepositoryViewTypeOK
<1>2. CASE \E r \in RootIds : SweepFinds(p, r)
  <2>1. PICK r \in RootIds : SweepFinds(p, r)
    BY <1>2
  <2>2. /\ UNCHANGED <<rvHead, rvAlive, rvEntry, rvRoot, rvViewer>>
        /\ rvSweep' = [rvSweep EXCEPT ![p] = r]
        /\ rvRoot[r].state = "live" /\ rvRoot[r].aged
        /\ rvRoot[r].marker # "fresh"
        /\ ~(rvRoot[r].marker = "stale" /\ rvAlive[rvRoot[r].owner])
    BY <2>1 DEF SweepFinds, isLiveWorkspaceOwnerMarker
  <2>3. ~rvAlive[rvRoot[r].owner]
    BY <1>1, <2>2 DEF RootSound, WorkspaceRoot
  <2>4. r \in 0 .. MaxRoots
    BY DEF RootIds
  <2>5. RepositoryViewTypeOK'
    BY <1>1, <2>2, <2>4 DEF RepositoryViewTypeOK
  <2>6. rvHead <= rvHead'
    BY <1>1, <2>2, RepositoryViewAssumption DEF RepositoryViewTypeOK, ViewHeads
  <2>7. Refs'
    BY <2>2, <2>5, <2>6, RefsRest DEF ViewInv, Refs
  <2>8. /\ \A q \in Hosts, k \in ViewHeads : HeadsSound(q, k)'
        /\ \A s \in RootIds : RootSound(s)'
        /\ TokenOnlyInPreparation'
    BY <2>2 DEF ViewInv, HeadsSound, RootSound, Uses, TokenOnlyInPreparation
  <2>9. \A q \in Hosts : SweepSound(q)'
    BY <1>1, <2>2, <2>3 DEF ViewInv, SweepSound
  <2> QED BY <2>7, <2>8, <2>9 DEF ViewInv, Refs
<1>3. CASE SweepRemoves(p)
  <2> DEFINE r == rvSweep[p]
             kept == LiveHere(p, r) \/ isLiveWorkspaceOwnerMarker(r)
  <2>1. /\ r # 0 /\ rvSweep' = [rvSweep EXCEPT ![p] = 0]
        /\ rvRoot' = IF kept THEN rvRoot ELSE [rvRoot EXCEPT ![r] = ReleasedRoot(rvRoot[r])]
        /\ UNCHANGED <<rvHead, rvAlive, rvEntry, rvViewer>>
    BY <1>3 DEF SweepRemoves
  <2>2. /\ r \in RootIds /\ rvRoot[r].state # "unused" /\ ~rvAlive[rvRoot[r].owner]
        /\ rvRoot[r] \in WorkspaceRoot /\ rvRoot[r].owner \in Hosts
    BY <1>1, <2>1 DEF ViewInv, SweepSound, RootIds, WorkspaceRoot
  <2> HIDE DEF r, kept
  <2>3. /\ \A t \in RootIds : t # r => rvRoot'[t] = rvRoot[t]
        /\ rvRoot'[r] \in {rvRoot[r], ReleasedRoot(rvRoot[r])}
        /\ rvRoot' \in [RootIds -> WorkspaceRoot]
    <3>1. ReleasedRoot(rvRoot[r]) \in WorkspaceRoot
      BY <2>2, ReleasedRootFields
    <3> QED BY <1>1, <2>1, <2>2, <3>1
  <2>4. /\ rvRoot'[r].owner = rvRoot[r].owner /\ rvRoot'[r].state # "unused"
    BY <2>2, <2>3, ReleasedRootFields
  <2>5. RepositoryViewTypeOK'
    BY <1>1, <2>1, <2>3, RepositoryViewAssumption DEF RepositoryViewTypeOK
  <2>6. rvHead <= rvHead'
    BY <1>1, <2>1, RepositoryViewAssumption DEF RepositoryViewTypeOK, ViewHeads
  <2>7. Refs'
    BY <2>1, <2>5, <2>6, RefsRest DEF ViewInv, Refs
  <2>8. ASSUME NEW q \in Hosts, NEW k \in ViewHeads
        PROVE  ~Uses(q, k, r)
    <3>1. ASSUME Uses(q, k, r)
          PROVE  FALSE
      <4>1. rvRoot[r].owner = q
        BY <1>1, <2>2, <3>1 DEF RootSound
      <4>2. rvEntry[q][k] = EmptyEntry
        BY <2>2, <4>1 DEF ViewInv, EntrySound
      <4> QED BY <2>2, <3>1, <4>2 DEF Uses, EmptyEntry, RootIds
    <3> QED BY <3>1
  <2>9. ASSUME NEW q \in Hosts, NEW k \in ViewHeads
        PROVE  HeadsSound(q, k)'
    <3> DEFINE entry == rvEntry[q][k]
    <3>1. /\ HeadsSound(q, k) /\ EntrySound(q, k) /\ entry.stage \in Stages
          /\ entry.root \in 0 .. MaxRoots /\ entry.view \in 0 .. MaxRoots
      BY EntryFields DEF ViewInv
    <3>2. /\ entry.root # 0 => rvRoot'[entry.root] = rvRoot[entry.root]
          /\ entry.view # 0 => rvRoot'[entry.view] = rvRoot[entry.view]
      BY <2>3, <2>8, <3>1 DEF Uses, RootIds
    <3>3. entry.stage \in Rooted => entry.root # 0
      BY <3>1 DEF EntrySound
    <3>4. rvEntry'[q][k] = entry
      BY <2>1
    <3> HIDE DEF entry
    <3> QED BY <2>1, <3>1, <3>2, <3>3, <3>4 DEF HeadsSound, entry, Rooted, Pinned
  <2>10. ASSUME NEW s \in RootIds
         PROVE  RootSound(s)'
    <3>1. RootSound(s) /\ \A q, k : Uses(q, k, s)' = Uses(q, k, s)
      BY <1>1, <2>1 DEF Uses
    <3>2. CASE s = r
      BY <2>1, <2>2, <2>4, <2>8, <3>1, <3>2 DEF RootSound
    <3>3. CASE s # r
      BY <2>1, <2>3, <3>1, <3>3 DEF RootSound
    <3> QED BY <3>2, <3>3
  <2>11. TokenOnlyInPreparation'
    BY <2>1, <2>2, <2>3, <2>4 DEF ViewInv, TokenOnlyInPreparation
  <2>12. ASSUME NEW q \in Hosts
         PROVE  SweepSound(q)'
    <3>1. /\ SweepSound(q) /\ rvSweep[q] \in 0 .. MaxRoots
          /\ rvSweep'[q] = IF q = p THEN 0 ELSE rvSweep[q]
      BY <1>1, <2>1 DEF ViewInv
    <3>2. rvSweep[q] # 0 => rvSweep[q] \in RootIds
      BY <3>1 DEF RootIds
    <3> QED BY <2>1, <2>2, <2>3, <2>4, <3>1, <3>2 DEF SweepSound
  <2> QED BY <2>7, <2>9, <2>10, <2>11, <2>12 DEF ViewInv, Refs
<1> QED BY <1>2, <1>3 DEF Sweeps

\* A process dies: its roots stay, and nobody uses them.
LEMMA DeathKeeps ==
  ASSUME ViewInv, NEW p \in Hosts, HostDies(p)
  PROVE  ViewInv'
<1>1. /\ rvAlive' = [rvAlive EXCEPT ![p] = FALSE]
      /\ rvEntry' = [rvEntry EXCEPT ![p] = [h \in ViewHeads |-> EmptyEntry]]
      /\ rvViewer' = [u \in Viewers |-> IF HostOf[u] = p
                                        THEN [rvViewer[u] EXCEPT !.pc = "done"] ELSE rvViewer[u]]
      /\ rvSweep' = [rvSweep EXCEPT ![p] = 0]
      /\ rvHead' = rvHead /\ rvRoot' = rvRoot
  BY DEF HostDies
<1>2. /\ RepositoryViewTypeOK /\ rvEntry \in [Hosts -> [ViewHeads -> CacheEntry]]
      /\ rvAlive \in [Hosts -> BOOLEAN]
      /\ \A r \in RootIds : RootSound(r) /\ rvRoot[r].owner \in Hosts
  BY DEF ViewInv, RepositoryViewTypeOK, WorkspaceRoot
<1>3. /\ EmptyEntry \in CacheEntry /\ EmptyEntry.root = 0 /\ EmptyEntry.view = 0
      /\ EmptyEntry.stage = "none"
  BY RepositoryViewAssumption DEF EmptyEntry, CacheEntry, Stages
<1>4. \A q \in Hosts, k \in ViewHeads :
        rvEntry'[q][k] = IF q = p THEN EmptyEntry ELSE rvEntry[q][k]
  BY <1>1, <1>2
<1>5. RepositoryViewTypeOK'
  <2>1. rvEntry' \in [Hosts -> [ViewHeads -> CacheEntry]]
    BY <1>1, <1>2, <1>3
  <2>2. rvViewer' \in [Viewers -> [pc : {"idle", "waiting", "using", "failing", "done"},
                                   head : 0 .. MaxViewHeads, views : 0 .. MaxViews]]
    BY <1>1, <1>2 DEF RepositoryViewTypeOK
  <2> QED BY <1>1, <1>2, <2>1, <2>2, RepositoryViewAssumption DEF RepositoryViewTypeOK
<1>6. Refs'
  BY <1>5, DeathKeepsRefs DEF ViewInv, Refs
<1>7. \A q \in Hosts, k \in ViewHeads : HeadsSound(q, k)'
  BY <1>1, <1>3, <1>4 DEF ViewInv, HeadsSound, PastListing, Pinned
<1>8. ASSUME NEW q \in Hosts, NEW k \in ViewHeads, NEW r \in RootIds, Uses(q, k, r)'
      PROVE  Uses(q, k, r)
  BY <1>3, <1>4, <1>8 DEF Uses, RootIds
<1>9. \A r \in RootIds : RootSound(r)'
  BY <1>1, <1>2, <1>8 DEF RootSound
<1>10. \A q \in Hosts : SweepSound(q)'
  <2>1. ASSUME NEW q \in Hosts
        PROVE  SweepSound(q)'
    <3>1. SweepSound(q) /\ rvSweep[q] \in 0 .. MaxRoots
      BY DEF ViewInv, RepositoryViewTypeOK
    <3>2. rvSweep[q] # 0 => rvRoot[rvSweep[q]].owner \in Hosts
      BY <1>2, <3>1 DEF RootIds
    <3>3. rvSweep'[q] = IF q = p THEN 0 ELSE rvSweep[q]
      BY <1>1 DEF ViewInv, RepositoryViewTypeOK
    <3> QED BY <1>1, <1>2, <3>1, <3>2, <3>3 DEF SweepSound
  <2> QED BY <2>1
<1>11. TokenOnlyInPreparation'
  <2>1. ASSUME NEW r \in RootIds, rvRoot[r].token, rvAlive'[rvRoot[r].owner]
        PROVE  \E h \in ViewHeads : rvEntry'[rvRoot[r].owner][h].root = r
    <3>1. rvRoot[r].owner \in Hosts /\ rvRoot[r].owner # p /\ rvAlive[rvRoot[r].owner]
      BY <1>1, <1>2, <2>1
    <3> QED BY <1>4, <2>1, <3>1 DEF ViewInv, TokenOnlyInPreparation
  <2> QED BY <1>1, <2>1 DEF TokenOnlyInPreparation
<1> QED BY <1>6, <1>7, <1>9, <1>10, <1>11 DEF ViewInv, Refs

\* Heartbeats, ageing and pushes.
LEMMA EnvironmentKeeps ==
  ASSUME ViewInv, (\E r \in RootIds : HeartbeatTick(r) \/ RootAges(r)) \/ Push
  PROVE  ViewInv'
<1>1. /\ RepositoryViewTypeOK /\ rvRoot \in [RootIds -> WorkspaceRoot]
      /\ \A r \in RootIds : rvRoot[r] \in WorkspaceRoot /\ rvRoot[r].owner \in Hosts
      /\ rvHead \in ViewHeads /\ rvHead \in Int
  BY RepositoryViewAssumption DEF ViewInv, RepositoryViewTypeOK, WorkspaceRoot, ViewHeads
<1>2. CASE Push
  <2>1. /\ rvHead' \in ViewHeads /\ rvHead <= rvHead'
        /\ UNCHANGED <<rvAlive, rvEntry, rvRoot, rvViewer, rvSweep>>
    BY <1>1, <1>2, RepositoryViewAssumption DEF Push, ViewHeads
  <2>2. RepositoryViewTypeOK'
    BY <1>1, <2>1 DEF RepositoryViewTypeOK
  <2>3. Refs'
    BY <2>1, <2>2, RefsRest DEF ViewInv, Refs
  <2>4. /\ \A q \in Hosts, k \in ViewHeads : HeadsSound(q, k)'
        /\ \A s \in RootIds : RootSound(s)'
        /\ TokenOnlyInPreparation'
    <3>1. \A s \in RootIds : RootSound(s) BY DEF ViewInv
    <3>2. \A s \in RootIds : rvRoot'[s] = rvRoot[s] BY <2>1
    <3>3. \A s \in RootIds : rvRoot[s].aged => rvRoot[s].state = "live" \/ rvRoot[s].aged
      OBVIOUS
    <3> QED BY <2>1, <2>2, <3>2, RootsRest
  <2>5. \A q \in Hosts : SweepSound(q)'
    BY <2>1 DEF ViewInv, SweepSound
  <2> QED BY <2>3, <2>4, <2>5 DEF ViewInv, Refs
<1>3. CASE \E r \in RootIds : HeartbeatTick(r) \/ RootAges(r)
  <2>1. PICK r \in RootIds : HeartbeatTick(r) \/ RootAges(r)
    BY <1>3
  <2>2. UNCHANGED <<rvHead, rvAlive, rvEntry, rvViewer, rvSweep>>
    BY <2>1 DEF HeartbeatTick, RootAges
  <2>3. /\ rvRoot[r].state = "live"
        /\ \A t \in RootIds : t # r => rvRoot'[t] = rvRoot[t]
        /\ rvRoot' \in [RootIds -> WorkspaceRoot]
        /\ rvRoot'[r].owner = rvRoot[r].owner /\ rvRoot'[r].state = rvRoot[r].state
        /\ rvRoot'[r].tree = rvRoot[r].tree /\ rvRoot'[r].files = rvRoot[r].files
        /\ rvRoot'[r].token = rvRoot[r].token
        /\ rvRoot'[r].aged /\ rvRoot'[r].marker = "none" => ~rvAlive[rvRoot[r].owner]
    <3>1. CASE HeartbeatTick(r)
      BY <1>1, <3>1 DEF HeartbeatTick, Marked, WorkspaceRoot
    <3>2. CASE RootAges(r)
      <4> DEFINE w == [rvRoot[r] EXCEPT !.aged = TRUE,
                                        !.marker = IF @ = "fresh" THEN "stale" ELSE @]
      <4>1. /\ rvRoot[r].state = "live"
            /\ rvRoot[r].marker # "none" \/ ~rvAlive[rvRoot[r].owner]
            /\ rvRoot' = [rvRoot EXCEPT ![r] = w]
        BY <1>1, <3>2 DEF RootAges
      <4>2. /\ w \in WorkspaceRoot /\ w.owner = rvRoot[r].owner /\ w.state = rvRoot[r].state
            /\ w.tree = rvRoot[r].tree /\ w.files = rvRoot[r].files /\ w.token = rvRoot[r].token
            /\ w.marker = "none" => rvRoot[r].marker = "none"
        BY <1>1 DEF WorkspaceRoot
      <4> HIDE DEF w
      <4> QED BY <1>1, <4>1, <4>2
    <3> QED BY <2>1, <3>1, <3>2
  <2>4. RepositoryViewTypeOK'
    BY <1>1, <2>2, <2>3 DEF RepositoryViewTypeOK
  <2>5. rvHead <= rvHead'
    BY <1>1, <2>2
  <2>6. Refs'
    BY <2>2, <2>4, <2>5, RefsRest DEF ViewInv, Refs
  <2>7. \A s \in RootIds : /\ rvRoot'[s].owner = rvRoot[s].owner
                           /\ rvRoot'[s].state = rvRoot[s].state
                           /\ rvRoot'[s].tree = rvRoot[s].tree
                           /\ rvRoot'[s].files = rvRoot[s].files
                           /\ rvRoot'[s].token = rvRoot[s].token
                           /\ rvRoot'[s].aged => rvRoot[s].aged \/ rvRoot[s].state = "live"
                           /\ rvRoot'[s].aged /\ rvRoot'[s].marker = "none"
                                => ~rvAlive[rvRoot[s].owner] \/ rvRoot[s] = rvRoot'[s]
    BY <2>3
  <2>8. /\ \A q \in Hosts, k \in ViewHeads : HeadsSound(q, k)'
        /\ \A s \in RootIds : RootSound(s)'
        /\ TokenOnlyInPreparation'
    BY <2>2, <2>4, <2>5, <2>7, RootsRest
  <2>9. ASSUME NEW q \in Hosts
        PROVE  SweepSound(q)'
    <3>1. SweepSound(q) /\ (rvSweep[q] # 0 => rvSweep[q] \in RootIds)
      BY DEF ViewInv, RepositoryViewTypeOK, RootIds
    <3> QED BY <2>2, <2>7, <3>1 DEF SweepSound
  <2> QED BY <2>6, <2>8, <2>9 DEF ViewInv, Refs
<1> QED BY <1>2, <1>3

LEMMA ViewInvInit == RepositoryViewInit => ViewInv
<1> SUFFICES ASSUME RepositoryViewInit PROVE ViewInv
  OBVIOUS
<1>1. /\ EmptyEntry \in CacheEntry /\ EmptyEntry.root = 0 /\ EmptyEntry.view = 0
      /\ EmptyEntry.stage = "none" /\ EmptyEntry.refcount = 0 /\ ~EmptyEntry.timer
  BY RepositoryViewAssumption DEF EmptyEntry, CacheEntry, Stages
<1>2. /\ \A p \in Hosts : \A h \in ViewHeads : rvEntry[p][h] = EmptyEntry
      /\ \A p \in Hosts : rvAlive[p] /\ rvSweep[p] = 0
      /\ \A u \in Viewers : rvViewer[u].pc = "idle"
      /\ \A r \in RootIds : rvRoot[r].state = "unused" /\ ~rvRoot[r].aged /\ ~rvRoot[r].token
  BY DEF RepositoryViewInit
<1>3. RepositoryViewTypeOK
  <2>1. ASSUME NEW r \in RootIds
        PROVE  rvRoot[r] \in WorkspaceRoot
    <3>1. (CHOOSE p \in Hosts : TRUE) \in Hosts /\ 0 \in 0 .. MaxViewHeads
      BY RepositoryViewAssumption
    <3> QED BY <3>1 DEF RepositoryViewInit, WorkspaceRoot
  <2>2. rvRoot \in [RootIds -> WorkspaceRoot]
    BY <2>1 DEF RepositoryViewInit
  <2>3. rvEntry \in [Hosts -> [ViewHeads -> CacheEntry]]
    BY <1>1 DEF RepositoryViewInit
  <2> QED BY <2>2, <2>3, RepositoryViewAssumption
          DEF RepositoryViewInit, RepositoryViewTypeOK, ViewHeads
<1>4. \A p \in Hosts, h \in ViewHeads : Holders(p, h) = {}
  BY <1>2 DEF Holders
<1>5. \A p \in Hosts, h \in ViewHeads : EntrySound(p, h) /\ HeadsSound(p, h)
  BY <1>1, <1>2, <1>4, FS_EmptySet DEF EntrySound, HeadsSound, Rooted, PastListing, Pinned
<1>6. \A u \in Viewers : ViewerSound(u)
  BY <1>2 DEF ViewerSound
<1>7. \A r \in RootIds : RootSound(r)
  BY <1>1, <1>2 DEF RootSound, Uses, RootIds
<1>8. (\A p \in Hosts : SweepSound(p)) /\ TokenOnlyInPreparation
  BY <1>2 DEF SweepSound, TokenOnlyInPreparation
<1> QED BY <1>3, <1>5, <1>6, <1>7, <1>8 DEF ViewInv

LEMMA ViewInvNext == ViewInv /\ [RepositoryViewNext]_viewVars => ViewInv'
<1> SUFFICES ASSUME ViewInv, [RepositoryViewNext]_viewVars PROVE ViewInv'
  OBVIOUS
<1>1. ASSUME NEW p \in Hosts, NEW h \in ViewHeads, Prepares(p, h)
      PROVE  ViewInv'
  <2>1. CASE StageFails(p, h)
    BY <2>1, FailureKeeps DEF StageFails, Preparing
  <2>2. CASE CheckoutHead(p, h) /\ ~HeadMatches(p, h)
    <3>1. PreparationFails(p, h) /\ rvAlive[p] /\ rvEntry[p][h].stage # "none"
      BY <2>2 DEF CheckoutHead, Preparing
    <3> QED BY <3>1, FailureKeeps
  <2> QED BY <1>1, <2>1, <2>2, ListingKeeps, AllocationKeeps, RootedSteps, ReadyKeeps DEF Prepares
<1>2. CASE UNCHANGED viewVars
  <2>1. /\ \A p, h : /\ Holders(p, h)' = Holders(p, h) /\ ViewWaiting(p, h)' = ViewWaiting(p, h)
        /\ \A p, h, r : Uses(p, h, r)' = Uses(p, h, r)
    BY <1>2 DEF viewVars, Holders, ViewWaiting, Uses
  <2>2. \A p \in Hosts, h \in ViewHeads : EntrySound(p, h)' /\ HeadsSound(p, h)'
    BY <1>2, <2>1 DEF viewVars, ViewInv, EntrySound, HeadsSound
  <2>3. (\A u \in Viewers : ViewerSound(u)') /\ (\A r \in RootIds : RootSound(r)')
    BY <1>2, <2>1 DEF viewVars, ViewInv, ViewerSound, RootSound
  <2>4. (\A p \in Hosts : SweepSound(p)') /\ TokenOnlyInPreparation' /\ RepositoryViewTypeOK'
    BY <1>2 DEF viewVars, ViewInv, SweepSound, TokenOnlyInPreparation, RepositoryViewTypeOK
  <2> QED BY <2>2, <2>3, <2>4 DEF ViewInv
<1> QED
  BY <1>1, <1>2, AcquireKeeps, GiveBackKeeps, TimerKeeps, SweepKeeps, DeathKeeps, EnvironmentKeeps
     DEF RepositoryViewNext

\* A view an execution uses is there, is of its head in tree and files, and holds no token
\* (prRepositoryView.ts, workspaceResource.ts, localPrWorkspace.ts, gitCredentials.ts).
THEOREM ViewIsSound == RepositoryViewSpec => []ViewSound
<1>1. ViewInv => ViewSound
  <2> SUFFICES ASSUME ViewInv PROVE ViewSound
    OBVIOUS
  <2>1. ASSUME NEW u \in Viewers, rvViewer[u].pc = "using"
        PROVE  LET entry == rvEntry[HostOf[u]][rvViewer[u].head]
                   root == rvRoot[entry.view]
               IN  /\ entry.view # 0 /\ root.state = "live"
                   /\ root.tree = rvViewer[u].head /\ root.files = rvViewer[u].head
    <3> DEFINE p == HostOf[u]
               h == rvViewer[u].head
    <3>1. p \in Hosts /\ h \in ViewHeads /\ rvEntry[p][h].view # 0
      BY <2>1, RepositoryViewAssumption DEF ViewInv, ViewerSound
    <3>2. HeadsSound(p, h) /\ rvEntry[p][h].view \in RootIds
      BY <3>1, EntryFields DEF ViewInv, RootIds
    <3>3. Uses(p, h, rvEntry[p][h].view)
      BY DEF Uses
    <3>4. rvRoot[rvEntry[p][h].view].state = "live"
      BY <3>1, <3>2, <3>3 DEF ViewInv, RootSound
    <3> QED BY <3>1, <3>2, <3>4 DEF HeadsSound
  <2> QED BY <2>1 DEF ViewInv, ViewSound, ViewInUseExists, ViewIsPinned
<1> QED BY <1>1, ViewInvInit, ViewInvNext, PTL DEF RepositoryViewSpec

=============================================================================
