------------------------------- MODULE Triage -------------------------------
(***************************************************************************)
(* Triage of one pull request: preview, apply and bulk work items, their   *)
(* attempts, the checkout, the push to the contributor's branch, the       *)
(* thread actions and the report.  Items run one after another under the   *)
(* pull request's lease; people push, close, reopen and resolve meanwhile, *)
(* and the worker may die between any two steps or inside a send.          *)
(***************************************************************************)
EXTENDS Naturals, Sequences, FiniteSets, Functions

CONSTANTS
  TriageThreads,   \* root comments of the bot's findings
  TriageModes,     \* modes that are requested
  TriageForks,     \* whether the head is in a fork: the cases
  MaxTriageItems,  \* work items (a bound)
  MaxTriageTries,  \* attempts per work item
  MaxTriageMoves   \* steps of people (a bound)

ASSUME TriageAssumption ==
  /\ TriageThreads # {} /\ IsFiniteSet(TriageThreads)
  /\ TriageModes \subseteq {"preview", "apply", "bulk"} /\ TriageForks \subseteq BOOLEAN
  /\ MaxTriageItems \in Nat /\ MaxTriageTries \in Nat \ {0} /\ MaxTriageMoves \in Nat

VARIABLES
  tgPr,       \* the pull request: open, fork, steps of people so far
  tgBranch,   \* pushes to the head branch, oldest first
  tgThread,   \* the threads on GitHub
  tgItem,     \* the newest work item
  tgRun,      \* locals of the attempt
  tgIntent,   \* per item: the push intent
  tgOnce,     \* per item and thread: the reply and resolve intents
  tgPush,     \* per item: the triage_push record
  tgUnreported, \* item of the newest triage_push record without a newer report (0: none)
  tgPreview,  \* per item: the triage_preview record
  tgReport    \* per item: the triage_report record

triageVars == <<tgPr, tgBranch, tgThread, tgItem, tgRun, tgIntent, tgOnce, tgPush, tgUnreported,
                tgPreview, tgReport>>

TriageItems == 1..MaxTriageItems
TriageVerdicts == {"fixed", "already-resolved", "dismissed", "skipped"}
NoPlan == [base |-> 0, item |-> 0, try |-> 0, verdicts |-> <<>>, fixes |-> {}]
NoRecord == [outcome |-> "none", plan |-> NoPlan]
NoPreview == [head |-> 0, verdicts |-> <<>>, hunks |-> {}]
NoReport == [outcome |-> "none", listed |-> {}]
TriageIdle == [at |-> "idle", inv |-> {}, plan |-> NoPlan, outcome |-> "none", todo |-> {}]
PersonPush == [item |-> 0, try |-> 0, base |-> 0, fixes |-> {}, mode |-> "person", excl |-> {}]
PushOf(plan) == [item |-> plan.item, try |-> plan.try, base |-> plan.base, fixes |-> plan.fixes,
                 mode |-> tgItem.mode, excl |-> tgItem.excl]
LiveHead == Len(tgBranch)
OnBranch(plan) == /\ plan.base + 1 \in DOMAIN tgBranch
                  /\ tgBranch[plan.base + 1].item = plan.item /\ tgBranch[plan.base + 1].try = plan.try
TriageAt(place) == tgRun.at = place
TriageGoes(place) == tgRun' = [tgRun EXCEPT !.at = place]

-----------------------------------------------------------------------------
(* People, intake and the queue *)

RequestTriage(mode, excl) ==
  /\ tgItem.status \in {"none", "completed", "failed", "cancelled"} /\ tgItem.n < MaxTriageItems
  /\ excl # {} => mode = "bulk"
  /\ tgItem' = [n |-> tgItem.n + 1, mode |-> mode, excl |-> excl, head |-> 0, tries |-> 0,
                cancelled |-> FALSE, died |-> FALSE, status |-> "queued"]
  /\ UNCHANGED <<tgPr, tgBranch, tgThread, tgRun, tgIntent, tgOnce, tgPush, tgUnreported, tgPreview,
                 tgReport>>

PersonMoves == /\ tgPr.moves < MaxTriageMoves
               /\ tgItem.status \in {"queued", "running", "completed", "failed"}
PersonPushes ==
  /\ PersonMoves /\ tgPr' = [tgPr EXCEPT !.moves = @ + 1]
  /\ tgBranch' = Append(tgBranch, PersonPush)
  /\ UNCHANGED <<tgThread, tgItem, tgRun, tgIntent, tgOnce, tgPush, tgUnreported, tgPreview, tgReport>>
PersonTogglesPr ==
  /\ PersonMoves /\ tgPr' = [tgPr EXCEPT !.moves = @ + 1, !.open = ~@]
  /\ UNCHANGED <<tgBranch, tgThread, tgItem, tgRun, tgIntent, tgOnce, tgPush, tgUnreported, tgPreview,
                 tgReport>>
PersonTogglesThread(t) ==
  /\ PersonMoves /\ tgPr' = [tgPr EXCEPT !.moves = @ + 1]
  /\ tgThread' = [tgThread EXCEPT ![t] =
       [resolved |-> ~tgThread[t].resolved, replied |-> tgThread[t].replied, fixedBy |-> NoPlan]]
  /\ UNCHANGED <<tgBranch, tgItem, tgRun, tgIntent, tgOnce, tgPush, tgUnreported, tgPreview, tgReport>>

\* The intake of the close event cancels queued and running triage work.
CancelTriage ==
  /\ ~tgPr.open /\ tgItem.status \in {"queued", "running"} /\ ~tgItem.cancelled
  /\ tgItem' = [tgItem EXCEPT !.cancelled = TRUE]
  /\ UNCHANGED <<tgPr, tgBranch, tgThread, tgRun, tgIntent, tgOnce, tgPush, tgUnreported, tgPreview,
                 tgReport>>

\* Mutant: every attempt takes the head the branch has now.
resolveWorkItemHead_Live == LiveHead
\* The first attempt binds a deferred head; later attempts keep it.
resolveWorkItemHead == IF tgItem.head = 0 THEN LiveHead ELSE tgItem.head

StartTriage ==
  /\ tgItem.status = "queued" /\ TriageAt("idle")
  /\ IF tgItem.cancelled
       THEN tgItem' = [tgItem EXCEPT !.status = "cancelled"] /\ UNCHANGED tgRun
       ELSE /\ tgItem' = [tgItem EXCEPT !.status = "running", !.tries = @ + 1,
                            !.head = resolveWorkItemHead]
            /\ TriageGoes("preview_check")
  /\ UNCHANGED <<tgPr, tgBranch, tgThread, tgIntent, tgOnce, tgPush, tgUnreported, tgPreview, tgReport>>

\* A thrown error ends the attempt: the queue retries until the attempts are used
\* up; then onTerminalFailure says so, unless the report is there already.
ThrownStatus ==
  CASE tgItem.cancelled -> "cancelled"
    [] ~tgItem.cancelled /\ tgItem.tries < MaxTriageTries -> "queued"
    [] OTHER -> "failed"
TriageThrown == tgRun' = TriageIdle /\ tgItem' = [tgItem EXCEPT !.status = ThrownStatus]

\* ensureTriageNotCancelled, assertTriagePublicationActive.
TriageActive == ~tgItem.cancelled
\* Steps that begin with the check, and what a cancelled item does at them.
TriageCheckpoints == {"preview_check", "discover", "agent", "arm", "threads"}
StopCancelled ==
  /\ tgRun.at \in TriageCheckpoints /\ ~TriageActive
  /\ TriageThrown
  /\ UNCHANGED <<tgPr, tgBranch, tgThread, tgIntent, tgOnce, tgPush, tgUnreported, tgPreview, tgReport>>

-----------------------------------------------------------------------------
(* The executor *)

\* A fork takes no push; a bulk apply needs a preview of the head it runs on.
latestPreview ==
  LET had == {i \in TriageItems : tgPreview[i] # NoPreview}
  IN  IF had = {} THEN NoPreview ELSE tgPreview[CHOOSE i \in had : \A j \in had : j <= i]
\* Mutant: a preview of an older head is good enough.
PreviewUsable_AnyHead == latestPreview # NoPreview
PreviewUsable == latestPreview # NoPreview /\ latestPreview.head = tgItem.head

execute ==
  /\ TriageAt("preview_check") /\ TriageActive
  /\ TriageGoes(IF \/ tgPr.fork /\ tgItem.mode # "preview"
                   \/ tgItem.mode = "bulk" /\ ~PreviewUsable
                THEN "report_only" ELSE "discover")
  /\ UNCHANGED <<tgPr, tgBranch, tgThread, tgItem, tgIntent, tgOnce, tgPush, tgUnreported, tgPreview,
                 tgReport>>

UnresolvedInventory == {t \in TriageThreads : ~tgThread[t].resolved}

approvedPreviewThreads(inv) ==
  {t \in inv : t \in DOMAIN latestPreview.verdicts /\ t \notin tgItem.excl}
approvedPreviewHunks(ids) == latestPreview.hunks \cap ids

\* Mutant: the redelivered item is worked on again.
AlreadyPublished_Never == FALSE
\* The step of this mode is recorded: a redelivered item is finished already.
AlreadyPublished == tgReport[tgItem.n] # NoReport

retainedPush ==
  IF tgPush[tgItem.n] # NoRecord THEN tgPush[tgItem.n]
  ELSE IF tgUnreported # 0 THEN tgPush[tgUnreported] ELSE NoRecord

\* storedPushMatchesPublication with retainedPublicationInventory: the record is of
\* the head the item is bound to and covers the threads that are open now.
storedPushMatchesPublication(push, inv, prePushHead) ==
  /\ push.outcome \notin {"stale", "closed"}
  /\ \/ prePushHead
     \/ tgItem.head = (IF push.outcome = "pushed" THEN push.plan.base + 1 ELSE push.plan.base)
  /\ inv \subseteq DOMAIN push.plan.verdicts

\* What recoverTriagePublication makes of the records: nothing to resume, fail
\* closed, or go on with a retained push.
PushSettled(intent) == intent.state = "reconciled"
recoverTriagePublication(inv) ==
  LET intent == tgIntent[tgItem.n]
      planned == [outcome |-> "pushed", plan |-> intent.plan]
  IN  IF retainedPush # NoRecord
        THEN IF storedPushMatchesPublication(retainedPush, inv, FALSE) THEN "resume" ELSE "fresh"
      ELSE IF intent.state \in {"none", "armed", "failed"} THEN "fresh"
      ELSE IF /\ intent.state # "terminal" /\ intent.plan.base = tgItem.head
              /\ PushSettled(intent)
              /\ storedPushMatchesPublication(planned, inv, TRUE)
           THEN "resume_intent"
      ELSE "fail_closed"

IntentBecomes(state) ==
  tgIntent' = [tgIntent EXCEPT ![tgItem.n] = [state |-> state, plan |-> tgIntent[tgItem.n].plan]]
\* The intent's outcome is unknown for good, unless it was reconciled.
failClosed ==
  /\ IntentBecomes(IF PushSettled(tgIntent[tgItem.n]) THEN "reconciled" ELSE "terminal")
  /\ TriageThrown

\* Inventory, done step, retained push, empty inventory, nothing approved, work.
resolveInventoryAndScope ==
  LET inv == UnresolvedInventory
      scope == IF tgItem.mode = "bulk" THEN approvedPreviewThreads(inv) ELSE inv
      found == IF tgItem.mode = "preview" THEN "fresh" ELSE recoverTriagePublication(scope)
      intent == tgIntent[tgItem.n]
      push == IF found = "resume" THEN retainedPush ELSE [outcome |-> "pushed", plan |-> intent.plan]
  IN  /\ TriageAt("discover") /\ TriageActive
      /\ CASE AlreadyPublished ->
                TriageGoes("finish") /\ UNCHANGED <<tgItem, tgIntent>>
           [] ~AlreadyPublished /\ found = "fail_closed" ->
                failClosed
           [] ~AlreadyPublished /\ found \in {"resume", "resume_intent"} ->
                /\ tgRun' = [at |-> IF found = "resume" THEN "threads" ELSE "recheck",
                              inv |-> DOMAIN push.plan.verdicts, plan |-> push.plan,
                              outcome |-> push.outcome, todo |-> DOMAIN push.plan.verdicts \cap inv]
                /\ UNCHANGED <<tgItem, tgIntent>>
           [] OTHER ->
                /\ tgRun' = [tgRun EXCEPT !.at = IF scope = {} THEN "report_only" ELSE "agent",
                               !.inv = inv]
                /\ UNCHANGED <<tgItem, tgIntent>>
      /\ UNCHANGED <<tgPr, tgBranch, tgThread, tgOnce, tgPush, tgUnreported, tgPreview, tgReport>>

-----------------------------------------------------------------------------
(* The checkout *)

\* withWritablePrCheckout fetches the branch and refuses another head than the
\* bound one; the run's first error is what ends it.
CheckoutFails ==
  /\ TriageAt("agent") /\ TriageActive
  /\ LiveHead # tgItem.head
  /\ TriageThrown
  /\ UNCHANGED <<tgPr, tgBranch, tgThread, tgIntent, tgOnce, tgPush, tgUnreported, tgPreview, tgReport>>

Checkout == TriageAt("agent") /\ TriageActive /\ LiveHead = tgItem.head
\* beforeCommit reads the pull request again: a closed one ends the agent's run.
runFreshTriageAgent(verdicts) ==
  LET fixes == {t \in tgRun.inv : verdicts[t] = "fixed"}
  IN  /\ Checkout /\ tgItem.mode \in {"apply", "preview"}
      /\ IF tgItem.mode = "preview"
           THEN /\ tgRun' = [tgRun EXCEPT !.at = "preview",
                  !.plan = [NoPlan EXCEPT !.base = tgItem.head, !.verdicts = verdicts, !.fixes = fixes]]
         ELSE IF fixes # {} /\ ~tgPr.open THEN TriageGoes("report_only")
         ELSE tgRun' = [tgRun EXCEPT !.at = "arm", !.todo = DOMAIN verdicts,
                !.plan = [base |-> tgItem.head, item |-> tgItem.n, try |-> tgItem.tries,
                          verdicts |-> verdicts, fixes |-> fixes]]
      /\ UNCHANGED <<tgPr, tgBranch, tgThread, tgItem, tgIntent, tgOnce, tgPush, tgUnreported, tgPreview,
                     tgReport>>

remapBulkPayload(ids, applied) ==
  LET kept == {t \in ids : latestPreview.verdicts[t] = "fixed" => t \in applied}
  IN  [t \in kept |-> latestPreview.verdicts[t]]

\* replayPreviewHunks: a hunk that does not apply, or whose commit is refused, is
\* undone and reported; a closed pull request refuses every commit.
runBulkFromPreview(applied) ==
  LET ids == approvedPreviewThreads(tgRun.inv)
      verdicts == remapBulkPayload(ids, applied)
  IN  /\ Checkout /\ tgItem.mode = "bulk"
      /\ applied \subseteq approvedPreviewHunks(ids) /\ (~tgPr.open => applied = {})
      /\ tgRun' = [tgRun EXCEPT !.at = "arm", !.todo = DOMAIN verdicts,
           !.plan = [base |-> tgItem.head, item |-> tgItem.n, try |-> tgItem.tries,
                     verdicts |-> verdicts, fixes |-> applied]]
      /\ UNCHANGED <<tgPr, tgBranch, tgThread, tgItem, tgIntent, tgOnce, tgPush, tgUnreported, tgPreview,
                     tgReport>>

publishTriagePreview ==
  /\ TriageAt("preview")
  /\ tgPreview' = [tgPreview EXCEPT ![tgItem.n] =
       [head |-> tgRun.plan.base, verdicts |-> tgRun.plan.verdicts, hunks |-> tgRun.plan.fixes]]
  /\ tgReport' = [tgReport EXCEPT ![tgItem.n] = [NoReport EXCEPT !.outcome = "preview"]]
  /\ TriageGoes("finish")
  /\ UNCHANGED <<tgPr, tgBranch, tgThread, tgItem, tgIntent, tgOnce, tgPush, tgUnreported>>

-----------------------------------------------------------------------------
(* publishTriageBody: the push *)

storedTriagePushRecord(outcome) ==
  /\ tgPush' = [tgPush EXCEPT ![tgItem.n] = [outcome |-> outcome, plan |-> tgRun.plan]]
  /\ tgUnreported' = tgItem.n
Recorded(outcome) ==
  /\ storedTriagePushRecord(outcome)
  /\ tgRun' = [tgRun EXCEPT !.at = "threads", !.outcome = outcome]

\* A started push whose plan is another one is never armed again.
PushStarted(intent) == intent.state \in {"mutating", "unknown", "reconciled", "terminal"}
armPush ==
  /\ TriageAt("arm") /\ TriageActive
  /\ IF tgRun.plan.fixes = {}
       THEN Recorded("not-needed") /\ UNCHANGED <<tgItem, tgIntent>>
     ELSE IF PushStarted(tgIntent[tgItem.n])
       THEN failClosed /\ UNCHANGED <<tgPush, tgUnreported>>
     ELSE /\ tgIntent' = [tgIntent EXCEPT ![tgItem.n] = [state |-> "armed", plan |-> tgRun.plan]]
          /\ TriageGoes("start_push") /\ UNCHANGED <<tgItem, tgPush, tgUnreported>>
  /\ UNCHANGED <<tgPr, tgBranch, tgThread, tgOnce, tgPreview, tgReport>>

\* Mutant: the push starts before the intent says so.
MarkMutating_Unmarked == UNCHANGED tgIntent
\* The intent is marked before mutate runs; then the item and the pull request are
\* checked, twice.
MarkMutating == IntentBecomes("mutating")
startPush ==
  /\ TriageAt("start_push")
  /\ MarkMutating
  /\ IF ~TriageActive THEN TriageThrown
     ELSE TriageGoes(IF tgPr.open THEN "pushing" ELSE "push_closed") /\ UNCHANGED tgItem
  /\ UNCHANGED <<tgPr, tgBranch, tgThread, tgOnce, tgPush, tgUnreported, tgPreview, tgReport>>

\* git push without force: refused unless the branch is still where the checkout was.
GitPushes == tgBranch' = Append(tgBranch, PushOf(tgRun.plan))
push ==
  /\ TriageAt("pushing")
  /\ IF LiveHead = tgRun.plan.base
       THEN /\ GitPushes /\ TriageGoes("recheck")
            /\ IntentBecomes("reconciled")
            /\ UNCHANGED <<tgPush, tgUnreported>>
       ELSE /\ Recorded("stale") /\ UNCHANGED tgBranch
            /\ IntentBecomes("failed")
  /\ UNCHANGED <<tgPr, tgThread, tgItem, tgOnce, tgPreview, tgReport>>

\* The closed error of mutate is no proof that nothing was sent.
pushClosed ==
  /\ TriageAt("push_closed")
  /\ Recorded("closed")
  /\ IntentBecomes("unknown")
  /\ UNCHANGED <<tgPr, tgBranch, tgThread, tgItem, tgOnce, tgPreview, tgReport>>

\* After the push the pull request is read again before success is recorded.
recheckWritable ==
  /\ TriageAt("recheck")
  /\ IF ~TriageActive THEN TriageThrown /\ UNCHANGED <<tgPush, tgUnreported>>
     ELSE Recorded(IF tgPr.open THEN "pushed" ELSE "closed") /\ UNCHANGED tgItem
  /\ UNCHANGED <<tgPr, tgBranch, tgThread, tgIntent, tgOnce, tgPreview, tgReport>>

-----------------------------------------------------------------------------
(* publishTriageBody: the threads and the report *)

\* Mutant: a fix counts although its push was refused.
shouldResolveTriageThread_AnyOutcome(verdict, outcome) == verdict # "skipped"
shouldResolveTriageThread(verdict, outcome) ==
  \/ verdict \in {"already-resolved", "dismissed"}
  \/ verdict = "fixed" /\ outcome = "pushed"
shouldReplyToTriageThread(verdict) == verdict \in {"fixed", "already-resolved"}

\* A reply that was started is looked up by its marker and never sent again blindly.
ReplyDue(t) ==
  /\ shouldReplyToTriageThread(tgRun.plan.verdicts[t])
  /\ ~tgThread[t].replied

ThreadReplied(t, replied) ==
  tgThread' = [tgThread EXCEPT ![t] =
    [resolved |-> tgThread[t].resolved, replied |-> replied, fixedBy |-> tgThread[t].fixedBy]]

threadActions(t) ==
  LET verdict == tgRun.plan.verdicts[t]
      once == tgOnce[tgItem.n][t]
  IN  /\ TriageAt("threads") /\ TriageActive /\ t \in tgRun.todo
      /\ IF ~shouldResolveTriageThread(verdict, tgRun.outcome)
           THEN /\ tgRun' = [tgRun EXCEPT !.todo = @ \ {t}]
                /\ UNCHANGED <<tgThread, tgOnce, tgItem>>
         ELSE IF once = "lost"
           THEN TriageThrown /\ UNCHANGED <<tgThread, tgOnce>>
         ELSE IF ReplyDue(t)
           THEN /\ ThreadReplied(t, TRUE)
                /\ UNCHANGED <<tgRun, tgOnce, tgItem>>
         ELSE /\ tgThread' = [tgThread EXCEPT ![t] =
                   [resolved |-> TRUE, replied |-> tgThread[t].replied,
                    fixedBy |-> IF verdict = "fixed" THEN tgRun.plan ELSE NoPlan]]
              /\ tgRun' = [tgRun EXCEPT !.todo = @ \ {t}]
              /\ UNCHANGED <<tgOnce, tgItem>>
      /\ UNCHANGED <<tgPr, tgBranch, tgIntent, tgPush, tgUnreported, tgPreview, tgReport>>

reportOnlyBody == [NoReport EXCEPT !.outcome = "notice"]
\* Commits are listed only for a push that succeeded.
renderTriageReport == [outcome |-> tgRun.outcome,
                       listed |-> IF tgRun.outcome = "pushed" THEN {tgRun.plan} ELSE {}]

upsertTriageReport ==
  LET only == TriageAt("report_only")
  IN  /\ only \/ (TriageAt("threads") /\ tgRun.todo = {} /\ TriageActive)
      /\ tgReport' = [tgReport EXCEPT ![tgItem.n] = IF only THEN reportOnlyBody ELSE renderTriageReport]
      /\ tgUnreported' = 0
      /\ TriageGoes("finish")
      /\ UNCHANGED <<tgPr, tgBranch, tgThread, tgItem, tgIntent, tgOnce, tgPush, tgPreview>>

FinishTriage ==
  /\ TriageAt("finish")
  /\ tgItem' = [tgItem EXCEPT !.status = IF tgItem.cancelled THEN "cancelled" ELSE "completed"]
  /\ tgRun' = TriageIdle
  /\ UNCHANGED <<tgPr, tgBranch, tgThread, tgIntent, tgOnce, tgPush, tgUnreported, tgPreview, tgReport>>

\* The worker dies; a git push or a reply in flight may or may not have landed.
TriageDies(landed) ==
  /\ tgItem.status = "running"
  /\ landed => TriageAt("pushing") /\ LiveHead = tgRun.plan.base
  /\ IF landed THEN GitPushes ELSE UNCHANGED tgBranch
  /\ tgRun' = TriageIdle
  /\ tgItem' = [tgItem EXCEPT !.status = ThrownStatus,
                              !.died = @ \/ tgRun.at \in {"pushing", "recheck"}]
  /\ UNCHANGED <<tgPr, tgThread, tgIntent, tgOnce, tgPush, tgUnreported, tgPreview, tgReport>>
ReplyDies(t, landed) ==
  /\ TriageAt("threads") /\ t \in tgRun.todo /\ TriageActive
  /\ shouldResolveTriageThread(tgRun.plan.verdicts[t], tgRun.outcome)
  /\ tgOnce[tgItem.n][t] = "none" /\ ReplyDue(t)
  /\ tgOnce' = [tgOnce EXCEPT ![tgItem.n][t] = IF landed THEN "none" ELSE "lost"]
  /\ ThreadReplied(t, landed)
  /\ TriageThrown
  /\ UNCHANGED <<tgPr, tgBranch, tgIntent, tgPush, tgUnreported, tgPreview, tgReport>>

-----------------------------------------------------------------------------
TriageInit ==
  /\ tgPr \in {[open |-> TRUE, fork |-> f, moves |-> 0] : f \in TriageForks}
  /\ tgBranch = <<PersonPush>>
  /\ tgThread = [t \in TriageThreads |-> [resolved |-> FALSE, replied |-> FALSE, fixedBy |-> NoPlan]]
  /\ tgItem = [n |-> 0, mode |-> "preview", excl |-> {}, head |-> 0, tries |-> 0, cancelled |-> FALSE,
               died |-> FALSE, status |-> "none"]
  /\ tgRun = TriageIdle
  /\ tgIntent = [i \in TriageItems |-> [state |-> "none", plan |-> NoPlan]]
  /\ tgOnce = [i \in TriageItems |-> [t \in TriageThreads |-> "none"]]
  /\ tgPush = [i \in TriageItems |-> NoRecord]
  /\ tgUnreported = 0
  /\ tgPreview = [i \in TriageItems |-> NoPreview]
  /\ tgReport = [i \in TriageItems |-> NoReport]

TriageNext ==
  \/ \E mode \in TriageModes, excl \in SUBSET TriageThreads : RequestTriage(mode, excl)
  \/ PersonPushes \/ PersonTogglesPr \/ CancelTriage
  \/ \E t \in TriageThreads : PersonTogglesThread(t)
  \/ StartTriage \/ StopCancelled \/ execute \/ resolveInventoryAndScope
  \/ CheckoutFails
  \/ \E verdicts \in [tgRun.inv -> TriageVerdicts] : runFreshTriageAgent(verdicts)
  \/ \E applied \in SUBSET tgRun.inv : runBulkFromPreview(applied)
  \/ publishTriagePreview
  \/ armPush \/ startPush \/ push \/ pushClosed \/ recheckWritable
  \/ \E t \in TriageThreads : threadActions(t)
  \/ upsertTriageReport \/ FinishTriage
  \/ \E landed \in BOOLEAN : TriageDies(landed)
  \/ \E t \in TriageThreads, landed \in BOOLEAN : ReplyDies(t, landed)

TriageSpec == TriageInit /\ [][TriageNext]_triageVars

-----------------------------------------------------------------------------
TriagePlaces == {"idle", "preview_check", "discover", "agent", "preview", "arm", "start_push", "pushing",
                 "push_closed", "recheck", "threads", "report_only", "finish"}
PushOutcomes == {"none", "pushed", "stale", "closed", "not-needed"}

\* Type invariant of the triage model.
TriageTypeOK ==
  /\ tgPr.open \in BOOLEAN /\ tgPr.fork \in BOOLEAN /\ tgPr.moves \in 0..MaxTriageMoves
  /\ tgItem.n \in 0..MaxTriageItems /\ tgItem.tries \in 0..MaxTriageTries
  /\ tgItem.status \in {"none", "queued", "running", "completed", "failed", "cancelled"}
  /\ tgRun.at \in TriagePlaces /\ tgRun.outcome \in PushOutcomes
  /\ tgRun.todo \subseteq DOMAIN tgRun.plan.verdicts
  /\ tgUnreported \in 0..MaxTriageItems
  /\ \A i \in TriageItems :
       /\ tgIntent[i].state \in {"none", "armed", "mutating", "unknown", "reconciled", "failed", "terminal"}
       /\ tgPush[i].outcome \in PushOutcomes
       /\ tgReport[i].outcome \in PushOutcomes \cup {"notice", "preview"}

\* A thread that triage resolved as fixed has its commit on the contributor's
\* branch, also when the push was recovered by a later attempt or a later item.
FixedIsPushed ==
  \A t \in TriageThreads :
    LET plan == tgThread[t].fixedBy
    IN  plan # NoPlan => OnBranch(plan) /\ t \in plan.fixes

\* A bulk apply pushes only fixes of threads that were previewed on the very head
\* the fix was built on and that the command does not exclude.
BulkWithinApproval ==
  \A k \in DOMAIN tgBranch :
    tgBranch[k].mode = "bulk" =>
      /\ tgBranch[k].fixes \cap tgBranch[k].excl = {}
      /\ \E i \in TriageItems : /\ tgPreview[i].head = tgBranch[k].base
                                /\ tgBranch[k].fixes \subseteq tgPreview[i].hunks

\* An item whose worker died during git push, or before it recorded what became of it,
\* never pushes again: nobody knows whether the first push landed.
LostPushNotRepeated == tgItem.died => ~TriageAt("pushing")

Pushed(i) == \E k \in DOMAIN tgBranch : tgBranch[k].item = i

\* A report lists commits that are on the branch, and a report that says that the head had
\* moved comes of an item that pushed nothing.  So does one that says no push was needed,
\* unless a worker of the item died before it recorded its push: the retry may then take up
\* an older record that no report followed.
ReportHonest ==
  /\ \A i \in TriageItems :
       /\ \A plan \in tgReport[i].listed : OnBranch(plan)
       /\ tgReport[i].outcome = "stale" => ~Pushed(i)
  /\ tgItem.n \in TriageItems /\ ~tgItem.died /\ tgReport[tgItem.n].outcome = "not-needed"
       => ~Pushed(tgItem.n)

\* Once its preview or report is recorded an item makes no commit, no push and no
\* thread action, however often the queue delivers it.
ReportedIsFinal ==
  tgItem.n # 0 /\ tgReport[tgItem.n] # NoReport =>
    tgRun.at \notin {"agent", "preview", "arm", "start_push", "pushing", "push_closed", "recheck", "threads"}

\* What triage promises of the contributor's branch: a thread is called fixed for a commit
\* that is on the branch, a bulk push stays within the approved preview, a push whose
\* worker died is not repeated, and a report says what happened, once.
TriageSound ==
  /\ TriageTypeOK
  /\ FixedIsPushed
  /\ BulkWithinApproval
  /\ LostPushNotRepeated
  /\ ReportHonest
  /\ ReportedIsFinal

=============================================================================
