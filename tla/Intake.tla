------------------------------- MODULE Intake -------------------------------
(***************************************************************************)
(* Webhook intake of one pull request and what its reviews do to the rows  *)
(* intake reads: deliveries arrive late, out of order and twice, each is   *)
(* one transaction under the auto_work_intake advisory lock of the pull    *)
(* request, and a running review reschedules itself when the head moves.   *)
(* A head is its position in the push history, 0 is DEFERRED_HEAD_SHA; a   *)
(* body is the number of the GitHub event it reports.                      *)
(***************************************************************************)
EXTENDS Naturals, FiniteSets, Sequences, SequencesExt

CONSTANTS
  FeatureSets,   \* the FEATURE_* settings considered, one per behaviour
  PrCommands,    \* slash commands users may post
  AuthorTrusts,  \* ReviewAuthorTrust of the opened event
  MaxPrEvents,   \* GitHub events after the pull request opened (a bound)
  MaxPrCommands, \* slash commands among them (a bound)
  MaxPrRows,     \* work items in all (a bound)
  MaxRestarts    \* worker deaths (a bound)

ASSUME IntakeAssumption ==
  /\ \A f \in FeatureSets : /\ f.review \in {"manual", "auto", "approval"}
                            /\ f.cadence \in {"once", "every_push"}
                            /\ f.review = "manual" => f.cadence = "once"
  /\ AuthorTrusts \subseteq {"trusted", "awaiting_maintainer_approval", "awaiting_approval"}
  /\ PrCommands \subseteq {"review", "force", "cancel", "describe", "triage", "verify"}
  /\ {MaxPrEvents, MaxPrCommands, MaxPrRows} \subseteq Nat /\ MaxRestarts \in Nat

VARIABLES
  prFeatures,  \* the settings this deployment started with
  prGithub,    \* live head, state and clock of the pull request on GitHub
  prMail,      \* webhook bodies GitHub has sent, deliverable again at any time
  prEvents,    \* delivery ids and bodies accepted (webhook_events, _replays)
  prLife,      \* the pr_review_lifecycle row
  prApproval,  \* the pr_review_approvals row
  prRows,      \* agent_work_items of the pull request, oldest first
  prOwed,      \* newest admitted push unanswered (0: none), newest head published
  prRestarts   \* worker deaths so far

intakeVars == <<prFeatures, prGithub, prMail, prEvents, prLife, prApproval, prRows, prOwed,
                prRestarts>>

DEFERRED_HEAD_SHA == 0
NoLife == [state |-> "none", at |-> 0]
NoApproval == [state |-> "none", head |-> 0, workflowStartAdmits |-> FALSE]
NoMarks == [stamped |-> FALSE, kid |-> 0, replacement |-> 0]

\* stamped and kid are payload.pushFollowUp, replacement payload.staleHeadReplacement.
NewRow(type, src, head, event) ==
  [type |-> type, src |-> src, st |-> "queued", head |-> head, event |-> event, parent |-> 0,
   staleHeadRescheduled |-> FALSE, marks |-> NoMarks, seen |-> NoMarks, run |-> "none"]

Live(row) == row.st \in {"queued", "running"}
Reviews(rows) == {i \in DOMAIN rows : rows[i].type = "review"}
PrClosed == prLife.state \in {"closed", "merged"}

-----------------------------------------------------------------------------
(* Rows: supersession, insertion, cancellation *)

SetStatus(rows, ids, status) ==
  [i \in DOMAIN rows |-> IF i \in ids THEN [rows[i] EXCEPT !.st = status, !.run = "none"] ELSE rows[i]]

SupersedeTargets(rows, kind, preserved) ==
  {i \in DOMAIN rows : /\ rows[i].type = kind /\ rows[i].src = "auto"
                       /\ \/ rows[i].st = "queued" /\ i \notin preserved
                          \/ rows[i].st = "running"}

supersedeActiveAutoWork(rows, kind, preserved) ==
  SetStatus(rows, SupersedeTargets(rows, kind, preserved), "superseded")

replaceAutoWorkItem(rows, kind, head, event) ==
  Append(supersedeActiveAutoWork(rows, kind, {}), NewRow(kind, "auto", head, event))

replaceActiveAutoWorkItem(rows, kind, head, event) ==
  IF SupersedeTargets(rows, kind, {}) = {} THEN rows ELSE replaceAutoWorkItem(rows, kind, head, event)

cancelActiveWork(rows, kind) ==
  SetStatus(rows, {i \in DOMAIN rows : rows[i].type = kind /\ Live(rows[i])}, "cancelled")

\* The partial unique index an insert with conflict "slash_active" meets.
SlashActiveConflict(rows, kind) ==
  \E i \in DOMAIN rows : /\ rows[i].type = kind /\ rows[i].src = "slash" /\ Live(rows[i])
                         /\ ~rows[i].staleHeadRescheduled

insertOnSlashActiveConflict(rows, kind, event) ==
  IF SlashActiveConflict(rows, kind) THEN rows
  ELSE Append(rows, NewRow(kind, "slash", DEFERRED_HEAD_SHA, event))

-----------------------------------------------------------------------------
(* every_push *)

lockActiveSlashReviews(rows) == {i \in Reviews(rows) : rows[i].src = "slash" /\ Live(rows[i])}

\* A review job is live exactly while its row is.
followUpIdsWithLiveReviewJob(rows, ids) == {i \in ids : Live(rows[i])}

insertEveryPushReview(rows, event) == replaceAutoWorkItem(rows, "review", DEFERRED_HEAD_SHA, event)

UnstampedRunning(rows) ==
  {i \in lockActiveSlashReviews(rows) : rows[i].st = "running" /\ ~rows[i].marks.stamped}

\* Mutant: a push during any slash review is left to that review.
applyEveryPushReviewSupersede_NoStamp(rows, event) ==
  IF lockActiveSlashReviews(rows) = {} THEN insertEveryPushReview(rows, event)
  ELSE supersedeActiveAutoWork(rows, "review", {})

\* The rows are locked, so the running ones found are the ones stamped.
applyEveryPushReviewSupersede(rows, event) ==
  LET slash == lockActiveSlashReviews(rows)
      followUps == {rows[i].marks.kid : i \in slash} \ {0}
      preserved == followUpIdsWithLiveReviewJob(rows, followUps)
      left == supersedeActiveAutoWork(rows, "review", preserved)
      unstamped == UnstampedRunning(rows)
  IN  IF slash = {} THEN insertEveryPushReview(rows, event)
      ELSE IF unstamped # {}
        THEN [i \in DOMAIN left |-> IF i \in unstamped
                 THEN [left[i] EXCEPT !.marks.stamped = TRUE] ELSE left[i]]
      ELSE IF followUps = {} \/ \E i \in preserved : left[i].st = "queued" THEN left
      ELSE insertEveryPushReview(left, event)

\* Mutant: a pull request that no longer awaits is taken as admitted.
everyPushReviewAdmitted_NotAwaiting ==
  prFeatures.review = "approval" => prApproval.state # "awaiting"

reviewPushAdmitted == Reviews(prRows) # {} \/ prApproval.state = "approved"

everyPushReviewAdmitted ==
  prFeatures.review = "approval" => prApproval.state # "awaiting" /\ reviewPushAdmitted

-----------------------------------------------------------------------------
(* Deliveries *)

Accept(m, id) == prEvents' = [ids |-> prEvents.ids \cup {id}, bodies |-> prEvents.bodies \cup {m.n}]

\* Mutant: only the delivery id is looked up.
insertWebhookEvent_NoReplayKey(m, id) == id \notin prEvents.ids

\* False for a duplicate, which changes nothing but the duplicates table.
insertWebhookEvent(m, id) == id \notin prEvents.ids /\ m.n \notin prEvents.bodies

\* Mutant: an observation of the same second is stale.
reviewLifecycleObservationAccepted_Newer(m) ==
  \/ prLife = NoLife
  \/ prLife.state # "merged" /\ m.at > prLife.at

reviewLifecycleObservationAccepted(m) ==
  \/ prLife = NoLife
  \/ /\ prLife.state # "merged"
     /\ \/ m.at > prLife.at
        \/ /\ m.at = prLife.at
           /\ m.state = "merged" \/ (m.state = "closed" /\ prLife.state = "open")

recordReviewLifecycleObservation(m) == prLife' = [state |-> m.state, at |-> m.at]

withdrawAwaiting ==
  prApproval' = IF prApproval.state = "awaiting" THEN [prApproval EXCEPT !.state = "withdrawn"]
                ELSE prApproval

\* A cancelled or failed review answers the pushes it stood for.
Forgive == prOwed' = [prOwed EXCEPT !.head = 0]

applyReviewCloseCancelIntake(m) ==
  IF reviewLifecycleObservationAccepted(m)
  THEN /\ recordReviewLifecycleObservation(m)
       /\ withdrawAwaiting
       /\ prRows' = cancelActiveWork(cancelActiveWork(prRows, "review"), "triage")
       /\ Forgive
  ELSE UNCHANGED <<prLife, prApproval, prRows, prOwed>>

Reopen(m) ==
  /\ IF reviewLifecycleObservationAccepted(m) THEN recordReviewLifecycleObservation(m)
     ELSE UNCHANGED prLife
  /\ UNCHANGED <<prApproval, prRows, prOwed>>

admissionForApprovalOpen(trust) ==
  [await |-> trust # "trusted", workflowStartAdmits |-> trust = "awaiting_approval"]

planAutomatedPullRequestIntake(m) ==
  LET opened == m.kind = "opened"
      push == m.kind = "synchronize"
  IN  [review |-> opened /\ prFeatures.review # "manual",
       await |-> opened /\ prFeatures.review = "approval" /\ admissionForApprovalOpen(m.trust).await,
       supersede |-> push /\ prFeatures.review # "manual",
       description |-> opened /\ prFeatures.describe,
       verification |-> push /\ prFeatures.verification]

insertAwaitingApproval(m) ==
  prApproval' = IF Reviews(prRows) = {} /\ prApproval = NoApproval
                THEN [state |-> "awaiting", head |-> m.head,
                      workflowStartAdmits |-> admissionForApprovalOpen(m.trust).workflowStartAdmits]
                ELSE prApproval

moveAwaitingHead(m) ==
  prApproval' = IF prApproval.state = "awaiting" THEN [prApproval EXCEPT !.head = m.head]
                ELSE prApproval

applyOpenedReviewAdmission(plan, m) ==
  IF ~plan.review \/ plan.await THEN prRows ELSE replaceAutoWorkItem(prRows, "review", m.head, m.n)

EveryPush(plan) == plan.supersede /\ prFeatures.cadence = "every_push" /\ everyPushReviewAdmitted

ReviewSupersede(rows, plan, m) ==
  IF ~plan.supersede THEN rows
  ELSE IF EveryPush(plan) THEN applyEveryPushReviewSupersede(rows, m.n)
  ELSE replaceActiveAutoWorkItem(rows, "review", DEFERRED_HEAD_SHA, m.n)

\* description and verification are dispatched whatever became of the review.
dispatchAutomatedKinds(rows, plan, m) ==
  LET described == IF plan.description THEN replaceAutoWorkItem(rows, "description", m.head, m.n) ELSE rows
  IN  IF plan.verification THEN replaceAutoWorkItem(described, "verification", m.head, m.n) ELSE described

\* A push that finds the running review past its own look at the marker, with no
\* follow-up, gets neither a row nor a reader of its stamp: it is owed no review.
FoundPastCheck(rows, plan) ==
  /\ EveryPush(plan) /\ lockActiveSlashReviews(rows) # {}
  /\ \A i \in lockActiveSlashReviews(rows) : rows[i].run = "checked" /\ rows[i].marks.kid = 0

\* Mutant: the lifecycle row is not looked at.
applyPlannedAutomatedPullRequestIntake_AnyState(m) ==
  LET plan == planAutomatedPullRequestIntake(m)
  IN  /\ IF plan.await THEN insertAwaitingApproval(m)
         ELSE IF plan.supersede /\ prFeatures.review = "approval" THEN moveAwaitingHead(m)
         ELSE UNCHANGED prApproval
      /\ prRows' = dispatchAutomatedKinds(
                     ReviewSupersede(applyOpenedReviewAdmission(plan, m), plan, m), plan, m)
      /\ UNCHANGED <<prLife, prOwed>>

applyPlannedAutomatedPullRequestIntake(m) ==
  LET asked == planAutomatedPullRequestIntake(m)
      plan == IF PrClosed THEN [asked EXCEPT !.review = FALSE, !.await = FALSE, !.supersede = FALSE]
              ELSE asked
  IN  /\ IF plan.await THEN insertAwaitingApproval(m)
         ELSE IF plan.supersede /\ prFeatures.review = "approval" THEN moveAwaitingHead(m)
         ELSE UNCHANGED prApproval
      /\ prRows' = dispatchAutomatedKinds(
                     ReviewSupersede(applyOpenedReviewAdmission(plan, m), plan, m), plan, m)
      /\ IF ~EveryPush(plan) \/ m.head <= prOwed.done \/ m.head < prOwed.head THEN UNCHANGED prOwed
         ELSE IF FoundPastCheck(prRows, plan) THEN Forgive
         ELSE prOwed' = [prOwed EXCEPT !.head = m.head]
      /\ UNCHANGED prLife

\* m.kind is "approved" for a pull_request_review, "workflow_run" for a started run.
applyReviewApprovedIntake(m) ==
  LET admitted == /\ ~PrClosed /\ prApproval.state = "awaiting"
                  /\ m.kind = "workflow_run" => /\ prApproval.head = m.head
                                                /\ prApproval.workflowStartAdmits
  IN  /\ IF admitted
         THEN /\ prApproval' = [prApproval EXCEPT !.state = "approved"]
              /\ prRows' = replaceAutoWorkItem(prRows, "review", DEFERRED_HEAD_SHA, m.n)
         ELSE UNCHANGED <<prApproval, prRows>>
      /\ UNCHANGED <<prLife, prOwed>>

handleSlashReview(m) ==
  LET kept == IF m.kind = "force" THEN cancelActiveWork(prRows, "review") ELSE prRows
      created == ~SlashActiveConflict(kept, "review")
  IN  /\ prRows' = IF PrClosed THEN prRows ELSE insertOnSlashActiveConflict(kept, "review", m.n)
      /\ prApproval' = IF ~PrClosed /\ created /\ prApproval.state = "awaiting"
                       THEN [prApproval EXCEPT !.state = "approved"] ELSE prApproval
      /\ IF ~PrClosed /\ m.kind = "force" THEN Forgive ELSE UNCHANGED prOwed
      /\ UNCHANGED prLife

handleSlashCancel(m) ==
  /\ prRows' = cancelActiveWork(prRows, "review")
  /\ IF prRows' = prRows THEN UNCHANGED prOwed ELSE Forgive
  /\ UNCHANGED <<prLife, prApproval>>

\* /describe, /triage and /verify, an ack answering the ones refused.
handleSlashWork(m) ==
  LET kind == CASE m.kind = "describe" -> "description"
                [] m.kind = "triage" -> "triage"
                [] m.kind = "verify" -> "verification"
      busy == kind = "verification" /\ \E i \in DOMAIN prRows : prRows[i].type = kind /\ Live(prRows[i])
  IN  /\ prRows' = IF busy THEN prRows ELSE insertOnSlashActiveConflict(prRows, kind, m.n)
      /\ UNCHANGED <<prLife, prApproval, prOwed>>

applyDelivery(m) ==
  CASE m.kind \in {"closed", "merged"} -> applyReviewCloseCancelIntake(m)
    [] m.kind = "reopened" -> Reopen(m)
    [] m.kind \in {"opened", "synchronize"} -> applyPlannedAutomatedPullRequestIntake(m)
    [] m.kind \in {"approved", "workflow_run"} -> applyReviewApprovedIntake(m)
    [] m.kind \in {"review", "force"} -> handleSlashReview(m)
    [] m.kind = "cancel" -> handleSlashCancel(m)
    [] m.kind \in {"describe", "triage", "verify"} -> handleSlashWork(m)

\* A delivery, or a later one of the same body under the same or another id.
runDelivery(m, id) ==
  /\ Len(prRows) + 2 <= MaxPrRows
  /\ insertWebhookEvent(m, id)
  /\ Accept(m, id)
  /\ applyDelivery(m)
  /\ UNCHANGED <<prFeatures, prGithub, prMail, prRestarts>>

-----------------------------------------------------------------------------
(* A running review *)

Working(i) == i \in Reviews(prRows) /\ prRows[i].st = "running"

KeepRest == UNCHANGED <<prFeatures, prGithub, prMail, prEvents, prLife, prApproval>>

\* The lease admits one execution of a kind; a deferred head is resolved now.
ClaimRow(i) ==
  /\ prRows[i].st = "queued"
  /\ \A j \in DOMAIN prRows : prRows[j].type = prRows[i].type => prRows[j].st # "running"
  /\ prRows' = [prRows EXCEPT
       ![i].st = "running", ![i].seen = prRows[i].marks,
       ![i].run = IF prRows[i].type = "review" THEN "working" ELSE "checked",
       ![i].head = IF @ = DEFERRED_HEAD_SHA THEN prGithub.head ELSE @]
  /\ KeepRest /\ UNCHANGED <<prOwed, prRestarts>>

\* The worker dies and another one claims the row again, reading it afresh.
RestartRow(i) ==
  /\ Working(i) /\ prRestarts < MaxRestarts
  /\ prRows' = [prRows EXCEPT ![i].seen = prRows[i].marks, ![i].run = "working"]
  /\ prRestarts' = prRestarts + 1
  /\ KeepRest /\ UNCHANGED prOwed

\* A replacement recorded by an earlier attempt is enqueued again before anything else.
ResumesReplacement(i) == prRows[i].seen.replacement # 0 /\ ~prRows[i].staleHeadRescheduled

ReplacementId(i) ==
  IF prRows[i].marks.replacement # 0 THEN prRows[i].marks.replacement ELSE Len(prRows) + 1

createReviewRescheduleWorkItem(i) ==
  LET child == [NewRow("review", prRows[i].src, DEFERRED_HEAD_SHA, prRows[i].event)
                  EXCEPT !.parent = i, !.staleHeadRescheduled = TRUE,
                         !.marks = [prRows[i].seen EXCEPT !.replacement = 0]]
      id == ReplacementId(i)
      parent == [prRows EXCEPT ![i].marks.replacement = id, ![i].run = "checked"]
  IN  /\ ~PrClosed
      /\ prRows' = IF id > Len(prRows) THEN Append(parent, child) ELSE parent

StaleHead(i) ==
  /\ Working(i) /\ prRows[i].run = "working" /\ Len(prRows) < MaxPrRows
  /\ ~prRows[i].staleHeadRescheduled
  /\ prRows[i].head # prGithub.head \/ ResumesReplacement(i)
  /\ createReviewRescheduleWorkItem(i)
  /\ KeepRest /\ UNCHANGED <<prOwed, prRestarts>>

\* The last look at the head before publishing found it unmoved.
PublishReview(i) ==
  /\ Working(i) /\ prRows[i].run = "working" /\ ~ResumesReplacement(i)
  /\ prRows[i].head = prGithub.head
  /\ prRows' = [prRows EXCEPT ![i].run = "published"]
  /\ prOwed' = [head |-> IF prRows[i].head >= prOwed.head THEN 0 ELSE prOwed.head,
                done |-> IF prRows[i].head > prOwed.done THEN prRows[i].head ELSE prOwed.done]
  /\ KeepRest /\ UNCHANGED prRestarts

pushFollowUpChildPayload(i) ==
  [NewRow("review", "auto", DEFERRED_HEAD_SHA, prRows[i].event) EXCEPT !.parent = i]

\* The insert on conflict updates the row of an earlier attempt, not its status.
createPushFollowUpWorkItem(i) ==
  LET kid == IF prRows[i].marks.kid # 0 THEN prRows[i].marks.kid ELSE Len(prRows) + 1
      parent == [prRows EXCEPT ![i].marks.kid = kid, ![i].run = "checked"]
  IN  IF kid > Len(prRows) THEN Append(parent, pushFollowUpChildPayload(i))
      ELSE [parent EXCEPT ![kid].head = DEFERRED_HEAD_SHA, ![kid].src = "auto"]

FollowUpDue(i) ==
  /\ prFeatures.cadence = "every_push" /\ prRows[i].src = "slash"
  /\ prRows[i].seen.replacement = 0 /\ prRows[i].marks.replacement = 0
  /\ prRows[i].head # prGithub.head
  /\ ~PrClosed /\ prRows[i].marks.stamped

schedulePushFollowUp(i) ==
  /\ Working(i) /\ prRows[i].run = "published" /\ Len(prRows) < MaxPrRows
  /\ prRows' = IF FollowUpDue(i) THEN createPushFollowUpWorkItem(i)
               ELSE [prRows EXCEPT ![i].run = "checked"]
  /\ KeepRest /\ UNCHANGED <<prOwed, prRestarts>>

CompleteRow(i) ==
  /\ prRows[i].st = "running" /\ prRows[i].run = "checked"
  /\ prRows' = [prRows EXCEPT ![i].st = "completed", ![i].run = "none"]
  /\ KeepRest /\ UNCHANGED <<prOwed, prRestarts>>

\* A replacement that goes stale again ends the chain and says so.
ExhaustReplacement(i) ==
  /\ Working(i) /\ prRows[i].run = "working" /\ prRows[i].staleHeadRescheduled
  /\ prRows[i].head # prGithub.head
  /\ prRows' = [prRows EXCEPT ![i].st = "failed", ![i].run = "none"]
  /\ Forgive
  /\ KeepRest /\ UNCHANGED prRestarts

-----------------------------------------------------------------------------
(* The pull request on GitHub *)

SendPrJob(kind, head, state, at, trust) ==
  /\ Cardinality(prMail) < MaxPrEvents + 1
  /\ prMail' = prMail \cup {[n |-> Cardinality(prMail) + 1, kind |-> kind, head |-> head,
                             state |-> state, at |-> at, trust |-> trust]}
  /\ UNCHANGED <<prFeatures, prEvents, prLife, prApproval, prRows, prOwed, prRestarts>>

IntakePush ==
  /\ prGithub.state = "open"
  /\ prGithub' = [prGithub EXCEPT !.head = @ + 1]
  /\ SendPrJob("synchronize", prGithub.head + 1, "open", prGithub.at, "trusted")

\* Two changes may carry the same timestamp.
ChangeState(state, tick) ==
  /\ CASE prGithub.state = "open" -> state \in {"closed", "merged"}
       [] prGithub.state = "closed" -> state = "open"
       [] prGithub.state = "merged" -> FALSE
  /\ prGithub' = [prGithub EXCEPT !.state = state, !.at = @ + tick]
  /\ SendPrJob(IF state = "open" THEN "reopened" ELSE state, prGithub.head, state, prGithub.at + tick, "trusted")

Signal(kind) ==
  /\ kind \in PrCommands => Cardinality({m \in prMail : m.kind \in PrCommands}) < MaxPrCommands
  /\ kind \in PrCommands \cup (IF prFeatures.review = "approval" THEN {"approved", "workflow_run"} ELSE {})
  /\ UNCHANGED prGithub
  /\ SendPrJob(kind, prGithub.head, prGithub.state, prGithub.at, "trusted")

IntakeInit ==
  \E trust \in AuthorTrusts :
    /\ prFeatures \in FeatureSets
    /\ prGithub = [head |-> 1, state |-> "open", at |-> 1]
    /\ prMail = {[n |-> 1, kind |-> "opened", head |-> 1, state |-> "open", at |-> 1, trust |-> trust]}
    /\ prEvents = [ids |-> {}, bodies |-> {}]
    /\ prLife = NoLife /\ prApproval = NoApproval
    /\ prRows = <<>> /\ prOwed = [head |-> 0, done |-> 0] /\ prRestarts = 0

IntakeNext ==
  \/ IntakePush
  \/ \E s \in {"open", "closed", "merged"}, tick \in {0, 1} : ChangeState(s, tick)
  \/ \E k \in PrCommands \cup {"approved", "workflow_run"} : Signal(k)
  \/ \E m \in prMail, copy \in {0, 1} :
       (copy = 1 => m.n \in prEvents.bodies) /\ runDelivery(m, <<m.n, copy>>)
  \/ \E i \in DOMAIN prRows :
       \/ ClaimRow(i) \/ RestartRow(i) \/ StaleHead(i) \/ PublishReview(i)
       \/ schedulePushFollowUp(i) \/ CompleteRow(i) \/ ExhaustReplacement(i)

IntakeSpec == IntakeInit /\ [][IntakeNext]_intakeVars

-----------------------------------------------------------------------------
(* Properties *)

IntakeTypeOK ==
  /\ prFeatures \in FeatureSets
  /\ prLife.state \in {"none", "open", "closed", "merged"} /\ prLife.at \in Nat
  /\ prApproval.state \in {"none", "awaiting", "approved", "withdrawn"}
  /\ \A i \in DOMAIN prRows :
       /\ prRows[i].type \in {"review", "triage", "description", "verification"}
       /\ prRows[i].src \in {"auto", "slash"}
       /\ prRows[i].st \in {"queued", "running", "completed", "failed", "cancelled", "superseded"}
       /\ prRows[i].run \in {"none", "working", "published", "checked"}
       /\ prRows[i].marks.kid \in 0..Len(prRows) /\ prRows[i].marks.replacement \in 0..Len(prRows)

\* Whatever the order deliveries arrive in, the lifecycle row is the newest
\* observation accepted so far, closed before reopened and merged before both
\* within one second (reviewLifecycleObservationAccepted).
Rank(state) == CASE state = "none" -> 0 [] state = "open" -> 1 [] state = "closed" -> 2 [] state = "merged" -> 3

LifecycleIsNewest ==
  \A m \in prMail :
    m.n \in prEvents.bodies /\ m.kind \in {"closed", "merged", "reopened"} =>
      \/ prLife.at > m.at
      \/ prLife.at = m.at /\ Rank(prLife.state) >= Rank(m.state)

\* Once a close is recorded no review is queued or running and none awaits an
\* approval, whatever late push, signal, command or reschedule comes after it.
NoReviewWhileClosed ==
  PrClosed => /\ \A i \in Reviews(prRows) : ~Live(prRows[i])
              /\ prApproval.state # "awaiting"

\* While a pull request of an untrusted author waits for its approval it has no
\* review, and after a close withdrew the request only a command starts one.
HeldUntilApproved ==
  /\ prApproval.state = "awaiting" => Reviews(prRows) = {}
  /\ prApproval.state = "withdrawn" =>
       \A i \in Reviews(prRows) : \E j \in Reviews(prRows) : j <= i /\ prRows[j].src = "slash"

\* One body makes one row of a kind, and one parent one successor of a kind,
\* through redeliveries, restarts and repeated reschedules.
OneRowPerCause ==
  \A i, j \in DOMAIN prRows :
    /\ prRows[i].type = prRows[j].type /\ prRows[i].event = prRows[j].event
    /\ prRows[i].parent = prRows[j].parent
    /\ prRows[i].staleHeadRescheduled = prRows[j].staleHeadRescheduled
    => i = j

\* With every_push, an admitted push no published review covers is still owed
\* one: a review of it is queued, at work or bound to that head, or the slash
\* review that runs carries the marker it has yet to look at.
WillAnswer(row) ==
  \/ row.st = "queued"
  \/ row.st = "running" /\ \/ row.run = "working"
                           \/ row.head >= prOwed.head
                           \/ row.run = "published" /\ row.src = "slash" /\ row.marks.stamped

PushAnswered == prOwed.head # 0 => \E i \in Reviews(prRows) : WillAnswer(prRows[i])

\* What intake promises whatever the order and repetition of deliveries: the newest
\* lifecycle event counts, nothing runs on a closed pull request or before its approval,
\* a cause makes one row, and a push that was owed a review gets one.
IntakeSound ==
  /\ IntakeTypeOK
  /\ LifecycleIsNewest
  /\ NoReviewWhileClosed
  /\ HeldUntilApproved
  /\ OneRowPerCause
  /\ PushAnswered

=============================================================================
