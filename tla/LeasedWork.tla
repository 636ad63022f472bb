----------------------------- MODULE LeasedWork -----------------------------
(***************************************************************************)
(* Durable execution of the leased work items of one pull request and one  *)
(* work type: intake transactions, pg-boss deliveries, the PR actor lease, *)
(* the steps of runDurableWorkItem, the lease watchdog hops, worker        *)
(* crashes, and the lost-running sweep.                                    *)
(*                                                                         *)
(* A worker slot runs one delivery at a time.  Each action of a slot is    *)
(* one SQL statement or transaction of the source, together with the       *)
(* in-memory control that leads to the next one; everything the code does  *)
(* between two awaits can be overtaken by any other actor.                 *)
(***************************************************************************)
EXTENDS ActorLease, FiniteSets

CONSTANTS
  Workers,        \* durable dispatch slots, over all worker processes
  JobIds,         \* pg-boss job rows that may be live at once (a bound)
  NoJob,          \* an execution slot with no job
  AutoItems,      \* items whose source is "auto"; the others are slash commands
  InvalidItems,   \* items whose stored payload does not parse
  BotItems,       \* items whose commenter turns out to be a bot
  RetryLimit,     \* cfg.queue.retryLimit
  HopSlots,       \* throttle slots a pending hop may occupy (current and next)
  ErrorKinds,     \* classes of errors an execution may throw
  FaultBudget     \* how often each environment fault may happen (a bound)

FaultKinds == {"crash", "abort", "stall", "arm", "defer", "error"}

ASSUME WorkAssumption ==
  /\ NoJob \notin JobIds
  /\ RetryLimit \in Nat
  /\ HopSlots \in Nat \ {0}
  /\ AutoItems \subseteq Items
  /\ ErrorKinds \subseteq {"transient", "deterministic", "terminal", "preflight"}
  /\ FaultBudget \in [FaultKinds -> Nat]

VARIABLES
  lease,    \* the pr_actor_leases row
  items,    \* agent_work_items, by item
  jobs,     \* pgboss.job rows of the work queue, by job
  exec,     \* what each worker slot holds in memory
  faults    \* what is left of FaultBudget

vars == <<lease, items, jobs, exec, faults>>

-----------------------------------------------------------------------------
(* State *)

Active == {"queued", "running"}
Terminal == {"completed", "failed", "cancelled", "superseded"}
Status == {"absent"} \cup Active \cup Terminal

maxAttempts == RetryLimit + 1

ItemRow == [status: Status, cancel: BOOLEAN, epoch: Nat, attempts: Nat, preflights: Nat]

AbsentItem ==
  [status |-> "absent", cancel |-> FALSE, epoch |-> 0, attempts |-> 0, preflights |-> 0]

\* created and retry are both "pending"; a completed, failed or deleted job is "none".
JobRow == [state: {"none", "pending", "active"}, item: Items \cup {NoItem},
           hop: BOOLEAN, retries: Nat]

GoneJob == [state |-> "none", item |-> NoItem, hop |-> FALSE, retries |-> 0]

NewJob(i, hop) == [state |-> "pending", item |-> i, hop |-> hop, retries |-> 0]

\* Steps between the atomic claim and the release: the renewal timer runs.
OwnedPhases == {"open", "defer", "policy", "prepare", "start", "execute", "complete",
                "markCompleted", "error", "countPreflight", "markRetrying",
                "markFailed", "release"}
\* Phases after which the execution signal is still consulted.
SignalPhases == {"open", "policy", "prepare", "start", "execute"}
Phases == {"idle", "skipCheck", "cancel", "seed", "acquire", "settle"} \cup OwnedPhases

Errors == {"none", "aborted", "leaseLost", "exhausted",
           "transient", "deterministic", "terminal", "preflight"}

Execution == [pc: Phases, item: Items \cup {NoItem}, job: JobIds \cup {NoJob},
              tries: Nat, seeded: BOOLEAN, epoch: Nat,
              jobAborted: BOOLEAN, leaseAborted: BOOLEAN, admitted: BOOLEAN,
              attempt: Nat, error: Errors, threw: BOOLEAN]

IdleExec ==
  [pc |-> "idle", item |-> NoItem, job |-> NoJob, tries |-> 0,
   seeded |-> FALSE, epoch |-> 0, jobAborted |-> FALSE, leaseAborted |-> FALSE,
   admitted |-> FALSE, attempt |-> 0, error |-> "none", threw |-> FALSE]

Init ==
  /\ lease = NoLease
  /\ items = [i \in Items |-> AbsentItem]
  /\ jobs = [j \in JobIds |-> GoneJob]
  /\ exec = [w \in Workers |-> IdleExec]
  /\ faults = FaultBudget

Fault(k) == faults[k] > 0 /\ faults' = [faults EXCEPT ![k] = @ - 1]

-----------------------------------------------------------------------------
(* Work item rows: the statements of workItemStateRepository.ts *)

\* shouldSkipWork
shouldSkipWork(i) == items[i].status \in {"superseded", "cancelled"} \/ items[i].cancel

\* owns(): the fence as this execution evaluates it
Owns(w) == isPrActorLeaseHeld(lease, exec[w].item, exec[w].epoch)

\* Mutant: the transition is not fenced on the lease.
Writable_Unfenced(w) ==
  items[exec[w].item].status = "running" /\ ~items[exec[w].item].cancel

\* transition(from running, unlessCancelRequested, fenced on the epoch)
Writable(w) ==
  LET i == exec[w].item
  IN  items[i].status = "running" /\ ~items[i].cancel /\ Owns(w)

SetStatus(i, s) == items' = [items EXCEPT ![i].status = s]

\* Mutants: a status the column does not know; a cancel that matches finished rows.
markWorkCancelledUnfenced_Misspelt(i) ==
  IF items[i].status \in Active THEN SetStatus(i, "canceled") ELSE UNCHANGED items

markWorkCancelledUnfenced_AnyRow(i) == SetStatus(i, "cancelled")

\* markWorkCancelled without an epoch: any active item, whoever runs it
markWorkCancelledUnfenced(i) ==
  IF items[i].status \in Active THEN SetStatus(i, "cancelled") ELSE UNCHANGED items

\* cancelWhileOwned: markWorkCancelled fenced on the epoch
cancelWhileOwned(w) ==
  IF Owns(w) THEN markWorkCancelledUnfenced(exec[w].item) ELSE UNCHANGED items

\* recheckSkippableAndCancel answers TRUE when the execution must stop
StopsOnRecheck(w) == ~Owns(w) \/ shouldSkipWork(exec[w].item)

recheckSkippableAndCancel(w) ==
  IF Owns(w) /\ shouldSkipWork(exec[w].item)
  THEN cancelWhileOwned(w)
  ELSE UNCHANGED items

-----------------------------------------------------------------------------
(* pg-boss, external: modelled from how the source uses it *)

\* A row can be reused once it is terminal and no execution still refers to it.
FreeJobs == {j \in JobIds : jobs[j].state = "none" /\ \A w \in Workers : exec[w].job # j}

send(i, hop) == \E j \in FreeJobs : jobs' = [jobs EXCEPT ![j] = NewJob(i, hop)]

\* fail(): back to retry while retries are left, else terminal (dead letter).
FailedJob(job) ==
  IF job.retries < RetryLimit
  THEN [job EXCEPT !.state = "pending", !.retries = job.retries + 1]
  ELSE GoneJob

\* What the handler's outcome does to its job; only an active row is touched.
SettledJob(job, threw) ==
  IF job.state # "active" THEN job ELSE IF threw THEN FailedJob(job) ELSE GoneJob

LiveJobs(i) == {j \in JobIds : jobs[j].state \in {"pending", "active"} /\ jobs[j].item = i}

\* Mutant: an active job counts as the successor of its own firing.
PendingHops_CountActive(i) ==
  {j \in JobIds : jobs[j].state \in {"pending", "active"} /\ jobs[j].hop /\ jobs[j].item = i}

\* isPendingWatchdogHop: created or retry
PendingHops(i) == {j \in JobIds : jobs[j].state = "pending" /\ jobs[j].hop /\ jobs[j].item = i}

\* armLeaseWatchdogHop succeeds: a send the throttle accepts, or a suppressed one
\* for which a created or retry successor exists.
armLeaseWatchdogHop(i) ==
  \/ Cardinality(PendingHops(i)) < HopSlots /\ send(i, TRUE)
  \/ PendingHops(i) # {} /\ UNCHANGED jobs

\* The send (or the lookup) fails and no successor is known.
armFails == Fault("arm") /\ UNCHANGED jobs

-----------------------------------------------------------------------------
(* Intake transactions *)

ActiveIn(S) == {i \in S : items[i].status \in Active}

\* Mutant: intake frees the lease of running rows only.
HolderPairs_RunningOnly(S) ==
  {<<i, items[i].epoch>> : i \in {k \in S : items[k].status = "running"}}

\* The recorded (id, execution_epoch) pairs of the closed rows.
HolderPairs(S) == {<<i, items[i].epoch>> : i \in {k \in S : items[k].epoch > 0}}

\* transition(queued -> s) and transition(running -> s, requestCancel) over S
ClosedRow(row, s) ==
  [row EXCEPT !.status = s, !.cancel = @ \/ row.status = "running"]

QueuedRow == [AbsentItem EXCEPT !.status = "queued"]

\* An automated delivery: supersede the active auto items, clear the lease they
\* hold, insert the replacement and its job, in one transaction.
replaceAutoWorkItem(i) ==
  /\ i \in AutoItems
  /\ items[i].status = "absent"
  /\ LET old == ActiveIn(AutoItems)
     IN  /\ items' = [k \in Items |->
                        IF k = i THEN QueuedRow
                        ELSE IF k \in old THEN ClosedRow(items[k], "superseded")
                        ELSE items[k]]
         /\ lease' = releasePrActorLeaseHeldByWorkItems(lease, HolderPairs(old))
  /\ send(i, FALSE)
  /\ UNCHANGED <<exec, faults>>

\* A slash command: the partial unique index admits one active slash item.
createSlashWorkItem(i) ==
  /\ i \in Items \ AutoItems
  /\ items[i].status = "absent"
  /\ ActiveIn(Items \ AutoItems) = {}
  /\ items' = [items EXCEPT ![i] = QueuedRow]
  /\ send(i, FALSE)
  /\ UNCHANGED <<lease, exec, faults>>

\* /cancel, /review force and pull-request close: every active item of the type.
cancelActiveReviews ==
  LET old == ActiveIn(Items)
  IN  /\ old # {}
      /\ items' = [k \in Items |->
                     IF k \in old THEN ClosedRow(items[k], "cancelled") ELSE items[k]]
      /\ lease' = releasePrActorLeaseHeldByWorkItems(lease, HolderPairs(old))
      /\ UNCHANGED <<jobs, exec, faults>>

-----------------------------------------------------------------------------
(* runDurableWorkItem: before the claim *)

Goto(w, pc) == exec' = [exec EXCEPT ![w].pc = pc]

\* runDurableWorkItem leaves its try (the finally clause releases), or returns before it.
Leave(w, threw) ==
  exec' = [exec EXCEPT ![w] =
    [IdleExec EXCEPT !.pc = "release", !.item = exec[w].item, !.job = exec[w].job,
                     !.epoch = exec[w].epoch, !.threw = threw]]

Return(w) == Leave(w, FALSE)

Settle(w, threw) ==
  exec' = [exec EXCEPT ![w] =
    [IdleExec EXCEPT !.pc = "settle", !.job = exec[w].job, !.threw = threw]]

\* Once the execution threw, only the job's own signal is looked at again.
Throw(w, e) ==
  exec' = [exec EXCEPT ![w] = [@ EXCEPT !.pc = "error", !.error = e, !.leaseAborted = FALSE]]

At(w, pc) == exec[w].pc = pc

\* A slot fetches a job.
Deliver(w, j) ==
  /\ At(w, "idle")
  /\ jobs[j].state = "pending"
  /\ jobs' = [jobs EXCEPT ![j].state = "active"]
  /\ exec' = [exec EXCEPT ![w] =
       [IdleExec EXCEPT !.pc = "skipCheck", !.item = jobs[j].item, !.job = j,
                        !.tries = jobs[j].retries]]
  /\ UNCHANGED <<lease, items, faults>>

\* getWorkItemCore, shouldSkipWork, the aborted signal, then the core's status.
SkipCheck(w) ==
  /\ At(w, "skipCheck")
  /\ \/ /\ shouldSkipWork(exec[w].item) \/ exec[w].jobAborted
        /\ Goto(w, "cancel")
     \/ /\ ~shouldSkipWork(exec[w].item) /\ ~exec[w].jobAborted
        /\ items[exec[w].item].status \notin Active
        /\ Settle(w, FALSE)
     \/ /\ ~shouldSkipWork(exec[w].item) /\ ~exec[w].jobAborted
        /\ items[exec[w].item].status \in Active
        /\ Goto(w, "seed")
  /\ UNCHANGED <<lease, items, jobs, faults>>

\* skipped_before_claim and job_aborted_before_claim: no lease, no fence.
CancelBeforeClaim(w) ==
  /\ At(w, "cancel")
  /\ markWorkCancelledUnfenced(exec[w].item)
  /\ Settle(w, FALSE)
  /\ UNCHANGED <<lease, jobs, faults>>

\* The watchdog hop is seeded before the lease is touched; a failure only warns.
SeedHop(w) ==
  /\ At(w, "seed")
  /\ \/ /\ armLeaseWatchdogHop(exec[w].item)
        /\ exec' = [exec EXCEPT ![w] = [@ EXCEPT !.pc = "acquire", !.seeded = TRUE]]
        /\ UNCHANGED faults
     \/ /\ armFails
        /\ Goto(w, "acquire")
  /\ UNCHANGED <<lease, items>>

\* Mutant: only the first claim records its epoch.
claimWorkForExecution_FirstEpoch(i, e) ==
  items' = [items EXCEPT ![i] = [@ EXCEPT !.status = "running", !.epoch = IF @ = 0 THEN e ELSE @]]

\* claimWorkForExecution: a queued or still-running row, recording the epoch.
claimWorkForExecution(i, e) ==
  items' = [items EXCEPT ![i] = [@ EXCEPT !.status = "running", !.epoch = e]]

Claimable(i) == items[i].status \in Active /\ ~items[i].cancel

\* acquireAndClaimWorkItem, one transaction: lease row and item row together.
AcquireAndClaim(w) ==
  LET i == exec[w].item
      e == lease.epoch + 1
  IN  /\ At(w, "acquire")
      /\ Acquirable(lease)
      /\ \/ /\ Claimable(i)
            /\ lease' = acquirePrActorLease(lease, i)
            /\ claimWorkForExecution(i, e)
            /\ exec' = [exec EXCEPT ![w] =
                 [@ EXCEPT !.pc = "open", !.epoch = e, !.seeded = FALSE,
                           !.attempt = items[i].attempts]]
         \/ /\ ~Claimable(i)
            /\ lease' = releasePrActorLease(acquirePrActorLease(lease, i), e)
            /\ Settle(w, FALSE)
            /\ UNCHANGED items
      /\ UNCHANGED <<jobs, faults>>

\* The lease is held: a delivery without a seeded hop must arm one or fail.
DeferBehindHolder(w) ==
  /\ At(w, "acquire")
  /\ ~Acquirable(lease)
  /\ \/ /\ exec[w].seeded
        /\ Settle(w, FALSE)
        /\ UNCHANGED <<jobs, faults>>
     \/ /\ ~exec[w].seeded
        /\ armLeaseWatchdogHop(exec[w].item)
        /\ Settle(w, FALSE)
        /\ UNCHANGED faults
     \/ /\ ~exec[w].seeded
        /\ armFails
        /\ Settle(w, TRUE)
  /\ UNCHANGED <<lease, items>>

-----------------------------------------------------------------------------
(* runDurableWorkItem: from the claim to the release *)

\* attachWorkItemPayload: a payload that does not parse fails the item and rejects.
RejectPayload(w) ==
  /\ At(w, "open")
  /\ exec[w].item \in InvalidItems
  /\ IF Writable(w) THEN SetStatus(exec[w].item, "failed") ELSE UNCHANGED items
  /\ Leave(w, TRUE)
  /\ UNCHANGED <<lease, jobs, faults>>

\* The head of the inner try: aborted signal, lease, shared rate-limit circuit.
Gate(w) ==
  /\ At(w, "open")
  /\ exec[w].item \notin InvalidItems
  /\ \/ /\ exec[w].jobAborted
        /\ cancelWhileOwned(w)
        /\ Return(w)
        /\ UNCHANGED faults
     \/ /\ ~exec[w].jobAborted /\ ~Owns(w)
        /\ Return(w)
        /\ UNCHANGED <<items, faults>>
     \/ /\ ~exec[w].jobAborted /\ Owns(w)
        /\ Goto(w, "policy")
        /\ UNCHANGED <<items, faults>>
     \/ /\ ~exec[w].jobAborted /\ Owns(w)
        /\ Fault("defer")                      \* the shared circuit is open
        /\ IF Writable(w)
           THEN SetStatus(exec[w].item, "queued") /\ Goto(w, "defer")
           ELSE Return(w) /\ UNCHANGED items
  /\ UNCHANGED <<lease, jobs>>

\* The deferred item is queued again; its redelivery is armed strictly.
DeferForCircuit(w) ==
  /\ At(w, "defer")
  /\ \/ /\ armLeaseWatchdogHop(exec[w].item)
        /\ Return(w)
        /\ UNCHANGED faults
     \/ /\ armFails
        /\ Throw(w, "transient")
  /\ UNCHANGED <<lease, items>>

\* assignInstallationPolicy, and the preflight counter's reset once access is observed.
AssignPolicy(w) ==
  /\ At(w, "policy")
  /\ \/ /\ Goto(w, "prepare")
        /\ IF Writable(w)
           THEN items' = [items EXCEPT ![exec[w].item].preflights = 0]
           ELSE UNCHANGED items
        /\ UNCHANGED faults
     \/ /\ ~Owns(w)
        /\ Throw(w, "leaseLost")
        /\ UNCHANGED <<items, faults>>
     \/ /\ Fault("error")
        /\ \E k \in ErrorKinds \ {"deterministic"} : Throw(w, k)
        /\ UNCHANGED items
  /\ UNCHANGED <<lease, jobs>>

\* prepareDurableExecution: the bot check, then the fenced head_sha update.
Prepare(w) ==
  /\ At(w, "prepare")
  /\ \/ /\ exec[w].item \in BotItems
        /\ cancelWhileOwned(w)
        /\ Return(w)
     \/ /\ exec[w].item \notin BotItems /\ Writable(w)
        /\ Goto(w, "start")
        /\ UNCHANGED items
     \/ /\ exec[w].item \notin BotItems /\ ~Writable(w)
        /\ recheckSkippableAndCancel(w)
        /\ Return(w)
  /\ UNCHANGED <<lease, jobs, faults>>

\* After reconcilePendingIntents: owns(), the aborted signal, observeCancellation().
StartExecution(w) ==
  /\ At(w, "start")
  /\ IF ~Owns(w) \/ exec[w].jobAborted
     THEN recheckSkippableAndCancel(w) /\ Return(w)
     ELSE Goto(w, "execute") /\ UNCHANGED items
  /\ UNCHANGED <<lease, jobs, faults>>

Aborted(w) == exec[w].jobAborted \/ exec[w].leaseAborted

\* Mutant: a hop is taken for a continuation and charges nothing.
beginWorkAttempt_HopIsFree(w, i) ==
  LET n == items[i].attempts + (IF jobs[exec[w].job].hop THEN 0 ELSE 1)
  IN  /\ items' = [items EXCEPT ![i].attempts = n]
      /\ exec' = [exec EXCEPT ![w] = [@ EXCEPT !.admitted = TRUE, !.attempt = n]]

\* beginWorkAttempt charges one attempt and returns its number.
beginWorkAttempt(w, i) ==
  /\ items' = [items EXCEPT ![i].attempts = @ + 1]
  /\ exec' = [exec EXCEPT ![w] = [@ EXCEPT !.admitted = TRUE, !.attempt = items[i].attempts + 1]]

\* admitWork: beginWorkAttempt locks the lease and the item in one transaction.
Admit(w) ==
  LET i == exec[w].item
  IN  /\ At(w, "execute")
      /\ ~exec[w].admitted /\ ~Aborted(w)
      /\ \/ /\ ~Owns(w)
            /\ Throw(w, "leaseLost")
            /\ UNCHANGED items
         \/ /\ Owns(w) /\ ~Writable(w)
            /\ recheckSkippableAndCancel(w)
            /\ Throw(w, IF StopsOnRecheck(w) THEN "aborted" ELSE "transient")
         \/ /\ Writable(w) /\ items[i].attempts >= maxAttempts
            /\ Throw(w, "exhausted")
            /\ UNCHANGED items
         \/ /\ Writable(w) /\ items[i].attempts < maxAttempts
            /\ beginWorkAttempt(w, i)
      /\ UNCHANGED <<lease, jobs, faults>>

\* spec.execute returns; without an admission it only recovered earlier output.
ExecuteReturns(w) ==
  /\ At(w, "execute")
  /\ exec' = [exec EXCEPT ![w] = [@ EXCEPT !.pc = "complete", !.leaseAborted = FALSE]]
  /\ UNCHANGED <<lease, items, jobs, faults>>

\* spec.execute, or the preparation before it, throws.
ExecuteThrows(w) ==
  /\ \/ /\ exec[w].pc \in {"prepare", "execute"}
        /\ Fault("error")
        /\ \E k \in ErrorKinds \ {"preflight"} : Throw(w, k)
     \/ /\ At(w, "execute") /\ Aborted(w)
        /\ Throw(w, "aborted")
        /\ UNCHANGED faults
  /\ UNCHANGED <<lease, items, jobs>>

\* completeDurableExecution: recheck, then the completion mark as a later statement.
CompleteRecheck(w) ==
  /\ At(w, "complete")
  /\ IF StopsOnRecheck(w)
     THEN recheckSkippableAndCancel(w) /\ Return(w)
     ELSE Goto(w, "markCompleted") /\ UNCHANGED items
  /\ UNCHANGED <<lease, jobs, faults>>

markWorkCompleted(w) ==
  /\ At(w, "markCompleted")
  /\ IF Writable(w)
     THEN SetStatus(exec[w].item, "completed")
     ELSE recheckSkippableAndCancel(w)
  /\ Return(w)
  /\ UNCHANGED <<lease, jobs, faults>>

\* retryDispositionFor
Disposition(e) ==
  CASE e = "deterministic"               -> "deterministic"
    [] e \in {"exhausted", "terminal"}   -> "terminal"
    [] OTHER                             -> "transient"

\* handleDurableExecutionError's budget, with the delivery's own retry count
MayRetry(w) ==
  LET x == exec[w]
  IN  /\ x.tries < RetryLimit
      /\ ~x.admitted \/ x.attempt < maxAttempts
      /\ \/ Disposition(x.error) = "transient"
         \/ Disposition(x.error) = "deterministic" /\ x.attempt = 1

NextMark(w) == IF MayRetry(w) THEN "markRetrying" ELSE "markFailed"

handleDurableExecutionError(w) ==
  /\ At(w, "error")
  /\ \/ /\ exec[w].error = "leaseLost"
        /\ Return(w)
        /\ UNCHANGED items
     \/ /\ exec[w].error # "leaseLost"
        /\ \/ StopsOnRecheck(w)
           \/ exec[w].error = "aborted"
           \/ exec[w].jobAborted
        /\ recheckSkippableAndCancel(w)
        /\ Return(w)
     \/ /\ exec[w].error \notin {"leaseLost", "aborted"}
        /\ ~StopsOnRecheck(w) /\ ~exec[w].jobAborted
        /\ Goto(w, IF exec[w].error = "preflight" THEN "countPreflight" ELSE NextMark(w))
        /\ UNCHANGED items
  /\ UNCHANGED <<lease, jobs, faults>>

\* changeGithubPreflightFailureCount: a lost lease rejects out of the handler.
CountPreflightFailure(w) ==
  LET i == exec[w].item
  IN  /\ At(w, "countPreflight")
      /\ \/ /\ Writable(w)
            /\ items' = [items EXCEPT ![i].preflights = @ + 1]
            /\ Goto(w, IF /\ items[i].preflights + 1 < maxAttempts
                          /\ exec[w].tries < RetryLimit
                       THEN "markRetrying" ELSE "markFailed")
         \/ /\ Owns(w) /\ ~Writable(w)
            /\ Return(w)
            /\ UNCHANGED items
         \/ /\ ~Owns(w)
            /\ Leave(w, TRUE)
            /\ UNCHANGED items
      /\ UNCHANGED <<lease, jobs, faults>>

\* A won retry mark rethrows, so that pg-boss redelivers the job.
markWorkRetrying(w) ==
  /\ At(w, "markRetrying")
  /\ IF Writable(w)
     THEN /\ SetStatus(exec[w].item, "queued")
          /\ Leave(w, TRUE)
     ELSE recheckSkippableAndCancel(w) /\ Return(w)
  /\ UNCHANGED <<lease, jobs, faults>>

\* A won failure mark ends the job normally.
markWorkFailed(w) ==
  /\ At(w, "markFailed")
  /\ IF Writable(w)
     THEN SetStatus(exec[w].item, "failed")
     ELSE recheckSkippableAndCancel(w)
  /\ Return(w)
  /\ UNCHANGED <<lease, jobs, faults>>

\* release(): stop the timers, release by epoch; a SQL failure is only logged.
Release(w) ==
  /\ At(w, "release")
  /\ \/ lease' = releasePrActorLease(lease, exec[w].epoch) /\ UNCHANGED faults
     \/ Fault("stall") /\ UNCHANGED lease
  /\ Settle(w, exec[w].threw)
  /\ UNCHANGED <<items, jobs>>

\* The handler's promise settles and pg-boss records it.
SettleJob(w) ==
  /\ At(w, "settle")
  /\ jobs' = [jobs EXCEPT ![exec[w].job] = SettledJob(@, exec[w].threw)]
  /\ exec' = [exec EXCEPT ![w] = IdleExec]
  /\ UNCHANGED <<lease, items, faults>>

-----------------------------------------------------------------------------
(* Timers, the sweep and the environment *)

Renewing(w) == exec[w].pc \in OwnedPhases

\* The renewal interval fires: it revives a lapsed row nobody took, or reports the loss.
RenewTick(w) ==
  /\ Renewing(w)
  /\ \/ /\ Renewable(lease, exec[w].item, exec[w].epoch) /\ ~lease.live
        /\ lease' = renewPrActorLease(lease)
        /\ UNCHANGED exec
     \/ /\ ~Renewable(lease, exec[w].item, exec[w].epoch)
        /\ exec[w].pc \in SignalPhases /\ ~exec[w].leaseAborted
        /\ exec' = [exec EXCEPT ![w].leaseAborted = TRUE]
        /\ UNCHANGED lease
  /\ UNCHANGED <<items, jobs, faults>>

\* startCancelObserve: a skip or a lost hold aborts the execution signal.
CancelObserveTick(w) ==
  /\ At(w, "execute")
  /\ ~exec[w].leaseAborted
  /\ shouldSkipWork(exec[w].item) \/ ~Owns(w)
  /\ exec' = [exec EXCEPT ![w].leaseAborted = TRUE]
  /\ UNCHANGED <<lease, items, jobs, faults>>

\* expires_at passes.  A holder that renews on time loses its row only to a stall.
HolderRenews == \E w \in Workers :
  Renewing(w) /\ Renewable(lease, exec[w].item, exec[w].epoch)

LeaseExpires ==
  /\ lease.holder # NoItem /\ lease.live
  /\ IF HolderRenews THEN Fault("stall") ELSE UNCHANGED faults
  /\ lease' = [lease EXCEPT !.live = FALSE]
  /\ UNCHANGED <<items, jobs, exec>>

\* pg-boss fails an active job whose heartbeat stopped; a stall does it to a live one.
JobExpires(j) ==
  /\ jobs[j].state = "active"
  /\ IF \E w \in Workers : exec[w].job = j THEN Fault("stall") ELSE UNCHANGED faults
  /\ jobs' = [jobs EXCEPT ![j] = FailedJob(@)]
  /\ UNCHANGED <<lease, items, exec>>

\* The job's signal aborts (expiry in the client, shutdown).
AbortJob(w) ==
  /\ exec[w].pc \notin {"idle", "release", "settle"} /\ ~exec[w].jobAborted
  /\ Fault("abort")
  /\ exec' = [exec EXCEPT ![w].jobAborted = TRUE]
  /\ UNCHANGED <<lease, items, jobs>>

\* The worker process dies: its memory is gone, its rows stay.
Crash(w) ==
  /\ exec[w].pc # "idle"
  /\ Fault("crash")
  /\ exec' = [exec EXCEPT ![w] = IdleExec]
  /\ UNCHANGED <<lease, items, jobs>>

\* lostRunningWorkLivenessSql: no unexpired lease names the item, no live job carries it.
NoLiveness(i) == ~(lease.holder = i /\ lease.live) /\ LiveJobs(i) = {}

\* reconcileLostRunningWork; the minimum age is time, which the model does not count.
markLostRunningWorkFailed(i) ==
  /\ items[i].status = "running" /\ ~items[i].cancel
  /\ NoLiveness(i)
  /\ SetStatus(i, "failed")
  /\ UNCHANGED <<lease, jobs, exec, faults>>

-----------------------------------------------------------------------------
(* Specification *)

Intake ==
  \/ \E i \in Items : replaceAutoWorkItem(i) \/ createSlashWorkItem(i)
  \/ cancelActiveReviews

\* The steps a slot takes on its own once it holds a delivery.
WorkerStep(w) ==
  \/ SkipCheck(w) \/ CancelBeforeClaim(w) \/ SeedHop(w)
  \/ AcquireAndClaim(w) \/ DeferBehindHolder(w)
  \/ RejectPayload(w) \/ Gate(w) \/ DeferForCircuit(w) \/ AssignPolicy(w)
  \/ Prepare(w) \/ StartExecution(w) \/ Admit(w) \/ ExecuteReturns(w) \/ ExecuteThrows(w)
  \/ CompleteRecheck(w) \/ markWorkCompleted(w)
  \/ handleDurableExecutionError(w) \/ CountPreflightFailure(w)
  \/ markWorkRetrying(w) \/ markWorkFailed(w)
  \/ Release(w) \/ SettleJob(w)

Timers(w) == RenewTick(w) \/ CancelObserveTick(w)

Environment ==
  \/ LeaseExpires
  \/ \E j \in JobIds : JobExpires(j)
  \/ \E w \in Workers : AbortJob(w) \/ Crash(w)

Next ==
  \/ Intake
  \/ \E w \in Workers : (\E j \in JobIds : Deliver(w, j)) \/ WorkerStep(w) \/ Timers(w)
  \/ \E i \in Items : markLostRunningWorkFailed(i)
  \/ Environment

Spec == Init /\ [][Next]_vars

-----------------------------------------------------------------------------
(* Fairness *)

\* Orphans lapse by the clock alone: nobody renews the lease or beats for the job.
OrphanLeaseExpires == ~HolderRenews /\ LeaseExpires

OrphanJobExpires(j) == (\A w \in Workers : exec[w].job # j) /\ JobExpires(j)

\* A process that lives runs its steps (every await settles or times out), a
\* polling worker fetches every waiting job in the end, clocks advance, and the
\* diagnostics tick repeats.  Intake, faults and timers are never forced.
Fairness ==
  /\ \A w \in Workers : WF_vars(WorkerStep(w))
  /\ \A j \in JobIds : SF_vars(\E w \in Workers : Deliver(w, j))
  /\ WF_vars(OrphanLeaseExpires)
  /\ \A j \in JobIds : WF_vars(OrphanJobExpires(j))
  /\ \A i \in Items : WF_vars(markLostRunningWorkFailed(i))

FairSpec == Spec /\ Fairness

-----------------------------------------------------------------------------
(* Properties *)

\* Every variable stays in its type.
TypeOK ==
  /\ lease \in LeaseRow
  /\ items \in [Items -> ItemRow]
  /\ jobs \in [JobIds -> JobRow]
  /\ exec \in [Workers -> Execution]
  /\ faults \in [FaultKinds -> Nat]

\* While a row of pr_actor_leases names a holder, that item's execution_epoch is the
\* row's lease_epoch, through claims, steals, retries and crashes: intake frees the
\* lease by (id, epoch) pairs it reads from the items, so a stale record would leave
\* a cancelled item's lease held until its TTL.
HolderRecorded == lease.holder # NoItem => items[lease.holder].epoch = lease.epoch

\* An intake transaction that supersedes or cancels items never leaves the lease
\* with one of them, whatever status the item had when the transaction read it.
ClosureFreesLease ==
  [][\A i \in Items :
       /\ items[i].status \in Active
       /\ \/ items'[i].status = "superseded"
          \/ items'[i].status = "cancelled" /\ exec' = exec
       => lease'.holder # i]_vars

\* A terminal status is final: no late worker, sweep or intake transaction reopens
\* or renames it.
TerminalAbsorbing ==
  [][\A i \in Items :
       items[i].status \in Terminal => items'[i].status = items[i].status]_vars

\* Whatever an execution does after another claim moved lease_epoch on, it changes
\* neither an item row nor the lease.
StaleHolderInert ==
  [][\A w \in Workers :
       /\ exec[w].pc \in OwnedPhases
       /\ exec[w].epoch # lease.epoch
       /\ exec'[w] # exec[w]
       => items' = items /\ lease' = lease]_vars

\* Two executions never carry the same fencing token, not even a crashed-and-stolen
\* item's old and new one; so at most one of them passes the fence at any moment.
EpochUnique ==
  \A v, w \in Workers :
    /\ v # w
    /\ exec[v].pc \in OwnedPhases /\ exec[w].pc \in OwnedPhases
    => exec[v].epoch # exec[w].epoch

\* Two admitted executions of one item carry different attempt numbers, and none is
\* past the budget: escalation and the retry budget are functions of that number.
AdmissionsDistinct ==
  \A w \in Workers :
    exec[w].admitted =>
      /\ exec[w].attempt <= maxAttempts
      /\ \A v \in Workers \ {w} :
           exec[v].admitted /\ exec[v].item = exec[w].item
             => exec[v].attempt # exec[w].attempt

\* Something will still read the item and try to claim it: a live job, or an
\* execution that has not reached its claim.
HasDelivery(i) ==
  \/ LiveJobs(i) # {}
  \/ \E w \in Workers : exec[w].item = i /\ exec[w].pc \in {"skipCheck", "cancel", "seed", "acquire"}

\* A queued item always has a delivery: the hop chain and the job's own retries never
\* let go of it (unless arming itself fails, or one job loses more runs to crashes
\* and stalls than it has retries).
QueuedHasDelivery == \A i \in Items : items[i].status = "queued" => HasDelivery(i)

Unattended(i) ==
  /\ lease.holder = i /\ lease.live
  /\ \A w \in Workers : ~(exec[w].pc \in OwnedPhases /\ exec[w].epoch = lease.epoch)

\* A lease whose execution died while its item was still active has a delivery that
\* will find it: "any crash that commits a held lease always has a chain".
HeldLeaseHasChain ==
  \A i \in Items : items[i].status \in Active /\ Unattended(i) => HasDelivery(i)

\* Nothing that is accepted is left where no job will ever come by again: neither a
\* queued row nor a lease whose execution died.
NothingStranded == QueuedHasDelivery /\ HeldLeaseHasChain

\* Every accepted item reaches a terminal status, through crashes, stolen leases,
\* deferrals and retries, as long as faults stop.
WorkSettles == \A i \in Items : items[i].status \in Active ~> items[i].status \in Terminal

-----------------------------------------------------------------------------
(* Refinement: the lease, with everything around it, is a single-actor floor *)

Floor == INSTANCE SingleActor WITH
  status <- [i \in Items |-> items[i].status],
  token <- lease.epoch,
  grantee <- lease.holder,
  holder <- IF lease.live THEN lease.holder ELSE NoItem

\* The interleaved executions, hops, timers, crashes and intake transactions of
\* LeasedWork implement SingleActor: work is finished, failed or requeued only by
\* the item that has the floor, and the floor is granted only when it is free.
ImplementsSingleActor == Floor!Spec

=============================================================================
