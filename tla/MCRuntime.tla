------------------------------ MODULE MCRuntime ------------------------------
(***************************************************************************)
(* The processes and resources the agents run on, each with its safety and *)
(* with the liveness its module's fairness gives: code cells, repository   *)
(* views, searches, git processes, webhook requests, the worker's life and *)
(* the trace queue.                                                        *)
(*                                                                         *)
(* They share no state here, so `focus` picks the one that moves and the   *)
(* others stay in their initial states: the runs of all of them are        *)
(* explored, their product is not.                                         *)
(***************************************************************************)
EXTENDS CodeMode, RepositoryView, WorkspaceSearch, GitProcess, WebhookRequest,
        WorkerLife, TraceQueue

CONSTANT RuntimeParts   \* the components explored

VARIABLE focus

runtimeVars ==
  <<focus, codeModeVars, viewVars, searchVars, gitProcessVars, webhookVars, workerVars,
    traceVars>>

-----------------------------------------------------------------------------
(* Instances *)

MCSessionOf == [s \in Scripts |-> "n1"]
MCCallsOf == [s \in Scripts |-> IF s = "x1" THEN 2 ELSE 0]
MCHostOf == [u \in Viewers |-> "p1"]
MCReaderOf == [x \in Searches |-> IF x = "y3" THEN "k2" ELSE "k1"]
MCHelperKinds == [group : BOOLEAN, pipes : BOOLEAN, reachable : BOOLEAN]
MCQueueOf == [j \in WorkerJobs |-> IF j \in DurableJobs THEN "qd" ELSE "qp"]
MCExpiredRows == [t \in SweptTables |-> IF t = "items" THEN 3 ELSE 2]

Comment == [fits |-> TRUE, signed |-> TRUE, json |-> TRUE, shape |-> TRUE, extra |-> TRUE,
            allowed |-> TRUE, own |-> FALSE, author |-> "user", text |-> "slash",
            name |-> "issue_comment", action |-> "created"]
Suite == [Comment EXCEPT !.name = "check_suite", !.action = "completed"]
WorkflowRun == [Comment EXCEPT !.name = "workflow_run", !.action = "in_progress"]
Approval == [Comment EXCEPT !.name = "pull_request_review", !.action = "submitted"]
MCWebhookEvents ==
  {Comment, [Comment EXCEPT !.fits = FALSE], [Comment EXCEPT !.signed = FALSE],
   [Comment EXCEPT !.json = FALSE], [Comment EXCEPT !.shape = FALSE],
   [Comment EXCEPT !.author = "self"], [Comment EXCEPT !.allowed = FALSE],
   [Suite EXCEPT !.own = TRUE], [WorkflowRun EXCEPT !.extra = FALSE], Approval}

Draft(meta, error, input, rest, choices) ==
  [meta |-> meta, error |-> error, input |-> input, hostCalls |-> rest, tools |-> rest,
   inputState |-> rest, outputState |-> rest, choices |-> choices]
MCDrafts == {Draft(1, 0, 3, 0, 1), Draft(4, 0, 9, 4, 4), Draft(1, 9, 0, 0, 1)}

-----------------------------------------------------------------------------
RuntimeInit ==
  /\ focus \in RuntimeParts
  /\ CodeModeInit /\ RepositoryViewInit /\ WorkspaceSearchInit /\ GitProcessInit
  /\ WebhookInit /\ WorkerInit /\ TraceInit

RuntimeNext ==
  \/ /\ focus = "cell" /\ CodeModeNext
     /\ UNCHANGED <<focus, viewVars, searchVars, gitProcessVars, webhookVars, workerVars,
                    traceVars>>
  \/ /\ focus = "view" /\ RepositoryViewNext
     /\ UNCHANGED <<focus, codeModeVars, searchVars, gitProcessVars, webhookVars, workerVars,
                    traceVars>>
  \/ /\ focus = "search" /\ WorkspaceSearchNext
     /\ UNCHANGED <<focus, codeModeVars, viewVars, gitProcessVars, webhookVars, workerVars,
                    traceVars>>
  \/ /\ focus = "git" /\ GitProcessNext
     /\ UNCHANGED <<focus, codeModeVars, viewVars, searchVars, webhookVars, workerVars,
                    traceVars>>
  \/ /\ focus = "webhook" /\ WebhookNext
     /\ UNCHANGED <<focus, codeModeVars, viewVars, searchVars, gitProcessVars, workerVars,
                    traceVars>>
  \/ /\ focus = "worker" /\ WorkerNext
     /\ UNCHANGED <<focus, codeModeVars, viewVars, searchVars, gitProcessVars, webhookVars,
                    traceVars>>
  \/ /\ focus = "trace" /\ TraceNext
     /\ UNCHANGED <<focus, codeModeVars, viewVars, searchVars, gitProcessVars, webhookVars,
                    workerVars>>

\* The fairness of the moving component, as CodeModeFair, RepositoryViewFair and the others
\* state it; nothing is asked of the ones that stand.
RuntimeFair ==
  /\ \A s \in Scripts : /\ WF_codeModeVars(focus = "cell" /\ PoolWaitTimesOut(s))
                        /\ WF_codeModeVars(focus = "cell" /\ WallClockFires(s))
                        /\ WF_codeModeVars(focus = "cell" /\ WorkerClosed(s))
  /\ \A u \in Viewers : WF_viewVars(focus = "view" /\ releasePrRepositoryView(u))
  /\ \A p \in Hosts :
       /\ WF_viewVars(focus = "view" /\ \E h \in ViewHeads : Prepares(p, h))
       /\ WF_viewVars(focus = "view" /\ \E h \in ViewHeads : ReleaseTimerFires(p, h))
       /\ WF_viewVars(focus = "view" /\ Sweeps(p))
  /\ \A r \in RootIds :
       WF_viewVars(focus = "view" /\ RootAges(r) /\ ~rvAlive[rvRoot[r].owner])
  /\ \A x \in Searches : WF_searchVars(focus = "search" /\ grepFffIndex(x))
  /\ WF_searchVars(focus = "search" /\ \E j \in wsJobs : onMessage(j))
  /\ WF_searchVars(focus = "search" /\ RequestDeadline)
  /\ WF_gitProcessVars(focus = "git" /\ (watchGrace \/ confirmGone \/ DeadlinePasses))
  /\ WF_gitProcessVars(focus = "git" /\ ExitAssumed)
  /\ WF_gitProcessVars(focus = "git" /\ CallTimesOut)
  /\ WF_gitProcessVars(focus = "git" /\ (SpawnFails \/ onExit))
  /\ \A r \in Requests : /\ WF_webhookVars(focus = "webhook" /\ HandlerStep(r))
                         /\ WF_webhookVars(focus = "webhook" /\ ResponseBudgetOver(r))
  /\ WF_workerVars(focus = "worker" /\ ReleaseStep)
  /\ WF_workerVars(focus = "worker" /\ SettleDeadline)
  /\ WF_workerVars(focus = "worker" /\ ProbeAnswered)
  /\ WF_traceVars(focus = "trace" /\ DrainStep)
  /\ WF_traceVars(focus = "trace" /\ DrainDeadline)

RuntimeSpec == RuntimeInit /\ [][RuntimeNext]_runtimeVars /\ RuntimeFair

\* Everything that is waited for ends under the code's own timers: the scripts of a cell, the
\* life of a repository root, a search, a git call, a webhook request, a shutdown and a drain.
RuntimeEnds ==
  ScriptsEnd /\ RootsReclaimed /\ SearchesEnd /\ GitCallSettles /\ RequestAnswered
             /\ ShutdownEnds /\ DrainEnds

=============================================================================
