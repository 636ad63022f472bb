------------------------------ MODULE AskReply ------------------------------
(***************************************************************************)
(* One ask from its queued item to what is read on the pull request: the   *)
(* deliveries of its job (durableJob.ts without a lease), the executor     *)
(* (askExecutor.ts), the search for a reply that was already posted        *)
(* (recoverAskReply.ts), publishOnce without a lease epoch, the ask_reply  *)
(* record and the failure reply of the terminal hook.                      *)
(*                                                                         *)
(* Nothing fences an ask: a delivery whose job expired goes on (its reply  *)
(* boundary is a passthrough) while the next delivery of the same item     *)
(* runs.  A comment is known by the operation it answers for and by the    *)
(* place where it stands; one marker per operation and item is enough to   *)
(* find it, so its text, the older key without the comment id and the      *)
(* page order of a listing are left out.  A bot's own command is cancelled *)
(* before anything below happens and is left out too.  A listing that both *)
(* places are read for is one step: comments are only ever added, so what  *)
(* two reads return one read could have returned.                          *)
(***************************************************************************)
EXTENDS Naturals, FiniteSets

CONSTANTS
    AskWorkers,     \* deliveries that can be in a handler at the same time
    AskRetryLimit,  \* cfg.queue.retryLimit
    AskFaults       \* bound: errors, lost answers and crashes in one behaviour

ASSUME AskAssumption == AskRetryLimit \in Nat /\ AskFaults \in Nat

AskPlaces == {"inline", "conversation"}
AskOps    == {"answer", "failure"}   \* ask:reply and ask:failure_reply of the item

VARIABLES
    askTarget,  \* payload.replyTarget.kind
    askItem,    \* the agent_work_items row
    askJob,     \* the pg-boss job of the item
    askRun,     \* each handler
    askIntent,  \* the operation_intents row of each operation
    askRecord,  \* the completed ask_reply row of publish_records: its place
    askPosted,  \* comments GitHub holds, per operation and place
    askWire,    \* requests that were given up and may still be accepted
    askDoubt,   \* history: "race" and "misread", see Arm and Missed
    askFaults   \* faults so far

askVars == <<askTarget, askItem, askJob, askRun, askIntent, askRecord, askPosted, askWire,
             askDoubt, askFaults>>
durable == <<askItem, askJob, askRecord>>
github  == <<askPosted, askWire>>

NoIntent == [status |-> "absent", mutating |-> FALSE, terminal |-> FALSE, result |-> "none"]
IdleRun  == [pc |-> "idle", phase |-> "execute", op |-> "answer", mode |-> "send",
             place |-> "none", saw |-> "absent", err |-> "none", aborted |-> FALSE,
             admitted |-> FALSE, threw |-> FALSE, retries |-> 0, attempt |-> 0,
             degraded |-> FALSE]
NoComments == [op \in AskOps |-> [p \in AskPlaces |-> 0]]

AskTypeOK ==
    /\ askTarget \in AskPlaces
    /\ askItem \in [status : {"queued", "running", "completed", "failed", "cancelled"},
                    attempts : 0 .. AskRetryLimit + 1, degraded : BOOLEAN]
    /\ askJob \in [state : {"waiting", "active", "done"}, retries : 0 .. AskRetryLimit,
                   holder : AskWorkers \cup {"none"}]
    /\ askRun \in [AskWorkers ->
          [pc : {"idle", "claim", "open", "published", "recover", "search", "adoptRead",
                 "adoptWrite", "admit", "agent", "recheck", "persist", "lookup", "arm", "send",
                 "missed", "fallback", "look", "resolve", "finish", "stash", "reconcile",
                 "record", "degrade", "complete", "failing", "retry", "markFailed", "settle"},
           phase : {"execute", "hook"}, op : AskOps, mode : {"send", "adopt"},
           place : AskPlaces \cup {"none"},
           saw : {"absent", "pending", "reconciled", "failed", "outcome_unknown", "known",
                  "unknown", "left", "armed", "moved"},
           err : {"none", "transient", "terminal", "aborted"}, aborted : BOOLEAN,
           admitted : BOOLEAN, threw : BOOLEAN, retries : 0 .. AskRetryLimit,
           attempt : 0 .. AskRetryLimit + 1, degraded : BOOLEAN]]
    /\ askIntent \in [AskOps ->
          [status : {"absent", "pending", "reconciled", "failed", "outcome_unknown"},
           mutating : BOOLEAN, terminal : BOOLEAN, result : AskPlaces \cup {"none"}]]
    /\ askRecord \in AskPlaces \cup {"none"}
    /\ askPosted \in [AskOps -> [AskPlaces -> Nat]]
    /\ askWire \in [AskOps -> [AskPlaces -> Nat]]
    /\ askDoubt \subseteq {"race", "misread"} /\ askFaults \in 0..AskFaults

AskInit ==
    /\ askTarget \in AskPlaces
    /\ askItem = [status |-> "queued", attempts |-> 0, degraded |-> FALSE]
    /\ askJob = [state |-> "waiting", retries |-> 0, holder |-> "none"]
    /\ askRun = [w \in AskWorkers |-> IdleRun]
    /\ askIntent = [op \in AskOps |-> NoIntent]
    /\ askRecord = "none" /\ askPosted = NoComments /\ askWire = NoComments
    /\ askDoubt = {} /\ askFaults = 0

-----------------------------------------------------------------------------
AskAt(w, pc)  == askRun[w].pc = pc
Go(w, pc)  == askRun' = [askRun EXCEPT ![w].pc = pc]
Op(w)      == askRun[w].op
Intent(w)  == askIntent[Op(w)]
AskMishap      == askFaults < AskFaults /\ askFaults' = askFaults + 1
NoFault    == UNCHANGED askFaults
PostedOf(op) == askPosted[op]["inline"] + askPosted[op]["conversation"]

\* An error ends execute() in the error handler; the terminal hook only logs it.
AskThrow(w, kind) ==
    askRun' = [askRun EXCEPT ![w] =
        IF @.phase = "hook" THEN [@ EXCEPT !.pc = "settle"]
        ELSE [@ EXCEPT !.pc = "failing", !.err = kind]]

\* findAskReplyOnAnyTarget: the place of a comment that carries the marker.
Found(op) ==
    IF askTarget = "inline" /\ askPosted[op]["inline"] > 0 THEN "inline"
    ELSE IF askPosted[op]["conversation"] > 0 THEN "conversation" ELSE "none"

\* mergeOperationIntentDetail and reconcileOperationIntent: what their WHERE lets through.
AskMerged(i, mutating, result) ==
    IF i.status \notin {"pending", "failed"} THEN i
    ELSE [i EXCEPT !.status = "pending", !.mutating = mutating, !.result = result]
Resolvable_Any(i, status) == i.status # "absent"
Resolvable(i, status) ==
    \/ i.status \in {"pending", status}
    \/ i.status = "outcome_unknown" /\ status = "reconciled"
Resolved(i, status, terminal, result) ==
    IF Resolvable(i, status)
    THEN [status |-> status, result |-> IF status = "reconciled" THEN result ELSE i.result,
          mutating |-> status = "reconciled" /\ i.mutating, terminal |-> i.terminal \/ terminal]
    ELSE i

\* What publishOnce tells rows apart by; only a pending or failed row may be sent.
Kind(i) == IF i.status # "pending" THEN i.status
           ELSE IF i.result # "none" THEN "known" ELSE IF i.mutating THEN "armed" ELSE "pending"

\* pg-boss: a job that threw or expired is delivered again within its retry limit.
Redelivered ==
    IF askJob.retries < AskRetryLimit
    THEN [state |-> "waiting", retries |-> askJob.retries + 1, holder |-> "none"]
    ELSE [askJob EXCEPT !.state = "done", !.holder = "none"]

-----------------------------------------------------------------------------
(* The delivery: runDurableWorkItem without a lease. *)

AskFetch(w) ==
    /\ AskAt(w, "idle") /\ askJob.state = "waiting"
    /\ askJob' = [askJob EXCEPT !.state = "active", !.holder = w]
    /\ askRun' = [askRun EXCEPT ![w] = [IdleRun EXCEPT !.pc = "claim", !.retries = askJob.retries]]
    /\ UNCHANGED <<askTarget, askItem, askIntent, askRecord, github, askDoubt, askFaults>>

\* A job that is aborted before the claim or right after it cancels its item; one that is
\* aborted while the execution is prepared leaves it to the next delivery.
AskAbandon(w) ==
    /\ AskAt(w, "claim") \/ AskAt(w, "open")
    /\ askRun[w].aborted
    /\ \/ askItem' = [askItem EXCEPT !.status =
                         IF @ \in {"queued", "running"} THEN "cancelled" ELSE @]
       \/ AskAt(w, "open") /\ UNCHANGED askItem
    /\ Go(w, "settle")
    /\ UNCHANGED <<askTarget, askJob, askIntent, askRecord, github, askDoubt, askFaults>>

AskClaim(w) ==
    /\ AskAt(w, "claim") /\ ~askRun[w].aborted
    /\ IF askItem.status \in {"queued", "running"}
       THEN /\ askItem' = [askItem EXCEPT !.status = "running"]
            /\ askRun' = [askRun EXCEPT ![w].pc = "open", ![w].attempt = askItem.attempts]
       ELSE UNCHANGED askItem /\ Go(w, "settle")
    /\ UNCHANGED <<askTarget, askJob, askIntent, askRecord, github, askDoubt, askFaults>>

\* Token, capabilities and head are read (any may fail); then reconcilePendingIntents closes
\* a pending answer whose record is there.
AskOpen(w) ==
    /\ AskAt(w, "open") /\ ~askRun[w].aborted
    /\ \/ /\ AskMishap /\ AskThrow(w, "transient") /\ UNCHANGED askIntent
       \/ /\ NoFault /\ Go(w, IF askItem.status = "running" THEN "published" ELSE "settle")
          /\ askIntent' = IF askRecord = "none" \/ askIntent["answer"].status # "pending"
                          THEN askIntent ELSE [askIntent EXCEPT !["answer"].status = "reconciled"]
    /\ UNCHANGED <<askTarget, durable, github, askDoubt>>

\* handleDurableExecutionError: an aborted job and a cancelled item end here.
AskFailing(w) ==
    LET r == askRun[w]
        mayRetry == /\ r.err = "transient" /\ r.retries < AskRetryLimit
                    /\ ~r.admitted \/ r.attempt < AskRetryLimit + 1
    IN  /\ AskAt(w, "failing")
        /\ Go(w, IF r.err = "aborted" \/ r.aborted \/ askItem.status = "cancelled" THEN "settle"
                 ELSE IF mayRetry THEN "retry" ELSE "markFailed")
        /\ UNCHANGED <<askTarget, durable, askIntent, github, askDoubt, askFaults>>

AskRetry(w) ==
    /\ AskAt(w, "retry")
    /\ askItem' = [askItem EXCEPT !.status = IF @ = "running" THEN "queued" ELSE @]
    /\ askRun' = [askRun EXCEPT ![w].pc = "settle", ![w].threw = askItem.status = "running"]
    /\ UNCHANGED <<askTarget, askJob, askIntent, askRecord, github, askDoubt, askFaults>>

\* Whoever marks the item failed runs the terminal hook.
AskMarkFailed(w) ==
    /\ AskAt(w, "markFailed")
    /\ IF askItem.status = "running"
       THEN /\ askItem' = [askItem EXCEPT !.status = "failed"]
            /\ askRun' = [askRun EXCEPT ![w].pc = "published", ![w].phase = "hook"]
       ELSE UNCHANGED askItem /\ Go(w, "settle")
    /\ UNCHANGED <<askTarget, askJob, askIntent, askRecord, github, askDoubt, askFaults>>

\* The handler returns.  pg-boss takes the answer of the delivery it still waits for.
AskSettle(w) ==
    /\ AskAt(w, "settle")
    /\ askJob' = IF askJob.holder # w THEN askJob
                 ELSE IF askRun[w].threw THEN Redelivered
                 ELSE [askJob EXCEPT !.state = "done", !.holder = "none"]
    /\ askRun' = [askRun EXCEPT ![w] = IdleRun]
    /\ UNCHANGED <<askTarget, askItem, askIntent, askRecord, github, askDoubt, askFaults>>

-----------------------------------------------------------------------------
(* The executor: what is already known about the reply. *)

\* askReplyPublished, and completed("ask_reply") in decideAskFailureReply.
AskPublished(w) ==
    /\ AskAt(w, "published")
    /\ Go(w, IF askRecord = "none" THEN "recover"
             ELSE IF askRun[w].phase = "hook" THEN "settle" ELSE "complete")
    /\ UNCHANGED <<askTarget, durable, askIntent, github, askDoubt, askFaults>>

\* onTerminalFailure publishes the failure reply under its own key.
FailureReply(r) == [r EXCEPT !.pc = "persist", !.op = "failure", !.mode = "send"]

\* finalizeAskReplyPublish: publishOnce with a mutate() that returns the known comment.
Finalizing(r) == [r EXCEPT !.pc = "persist", !.mode = "adopt"]

\* No answer is known of: the ask runs, or the terminal hook says that it failed.
Unanswered(w) ==
    askRun' = [askRun EXCEPT ![w] =
        IF @.phase = "hook" THEN FailureReply(@) ELSE [@ EXCEPT !.pc = "admit"]]

Searched_UnknownOnly(i) == i.status = "outcome_unknown"
Searched(i) == i.status \in {"pending", "outcome_unknown"}

\* recoverDeliveredAskReplyCommentId reads the answer's intent: a stashed comment id settles
\* it, a pending or unknown send is searched for, anything else is no answer.
AskRecover(w) ==
    LET i == askIntent["answer"]
    IN  /\ AskAt(w, "recover")
        /\ \/ /\ i.result # "none"
              /\ IF askRun[w].phase = "hook" THEN Go(w, "settle")
                 ELSE askRun' = [askRun EXCEPT ![w] = Finalizing([@ EXCEPT !.place = i.result])]
           \/ /\ i.result = "none" /\ Searched(i)
              /\ askRun' = [askRun EXCEPT ![w].pc = "search",
                     ![w].saw = IF i.status = "outcome_unknown" \/ i.mutating
                                THEN "outcome_unknown" ELSE "pending"]
           \/ /\ i.result = "none" /\ ~Searched(i)
              /\ Unanswered(w)
        /\ UNCHANGED <<askTarget, durable, askIntent, github, askDoubt, askFaults>>

\* A send that may have been accepted and is not found is not repeated: execute() ends
\* degraded (reply_outcome_unknown), the hook posts its failure reply.
AskSearch(w) ==
    /\ AskAt(w, "search")
    /\ \/ /\ AskMishap /\ AskThrow(w, "transient")
       \/ /\ NoFault /\ Found("answer") # "none"
          /\ askRun' = [askRun EXCEPT ![w].pc = "adoptRead", ![w].place = Found("answer")]
       \/ /\ NoFault /\ Found("answer") = "none"
          /\ IF askRun[w].saw = "outcome_unknown" /\ askRun[w].phase = "execute"
             THEN askRun' = [askRun EXCEPT ![w].pc = "degrade", ![w].degraded = TRUE]
             ELSE Unanswered(w)
    /\ UNCHANGED <<askTarget, durable, askIntent, github, askDoubt>>

\* adopt() reads the intent again and then writes by what it read.
AskAdoptRead(w) ==
    /\ AskAt(w, "adoptRead")
    /\ askRun' = [askRun EXCEPT ![w].pc = "adoptWrite",
           ![w].saw = IF askIntent["answer"].result # "none" THEN "known"
                      ELSE askIntent["answer"].status]
    /\ UNCHANGED <<askTarget, durable, askIntent, github, askDoubt, askFaults>>

AskAdoptWrite(w) ==
    LET r == askRun[w]
        i == askIntent["answer"]
    IN  /\ AskAt(w, "adoptWrite")
        /\ askIntent' = [askIntent EXCEPT !["answer"] =
               IF r.saw = "outcome_unknown" THEN Resolved(i, "reconciled", FALSE, r.place)
               ELSE IF r.saw = "pending" THEN AskMerged(i, i.mutating, r.place) ELSE i]
        /\ IF r.phase = "hook" THEN Go(w, "settle")
           ELSE askRun' = [askRun EXCEPT ![w] = Finalizing(@)]
        /\ UNCHANGED <<askTarget, durable, github, askDoubt, askFaults>>

\* withAdmittedRepositoryView: beginWorkAttempt counts the attempt or refuses it.
AskAdmit(w) ==
    /\ AskAt(w, "admit")
    /\ IF askItem.status = "running" /\ askItem.attempts < AskRetryLimit + 1
       THEN /\ askItem' = [askItem EXCEPT !.attempts = @ + 1]
            /\ askRun' = [askRun EXCEPT ![w].pc = "agent", ![w].admitted = TRUE,
                                        ![w].attempt = askItem.attempts + 1]
       ELSE /\ UNCHANGED askItem
            /\ AskThrow(w, IF askItem.status = "running" THEN "terminal"
                        ELSE IF askItem.status = "cancelled" THEN "aborted" ELSE "transient")
    /\ UNCHANGED <<askTarget, askJob, askIntent, askRecord, github, askDoubt, askFaults>>

\* runAskRun and recordAskProviderUsage; an aborted delivery loses its agent session.
AskAgent(w) ==
    /\ AskAt(w, "agent")
    /\ \/ NoFault /\ askRun[w].aborted /\ AskThrow(w, "aborted")
       \/ NoFault /\ ~askRun[w].aborted /\ Go(w, "recheck")
       \/ AskMishap /\ ~askRun[w].aborted /\ AskThrow(w, "transient")
    /\ UNCHANGED <<askTarget, durable, askIntent, github, askDoubt>>

AskRecheck(w) ==
    /\ AskAt(w, "recheck")
    /\ Go(w, IF askRecord = "none" THEN "persist" ELSE "complete")
    /\ UNCHANGED <<askTarget, durable, askIntent, github, askDoubt, askFaults>>

-----------------------------------------------------------------------------
(* publishOnce without a lease epoch.  In mode "adopt" (finalizeAskReplyPublish) mutate()  *)
(* only returns the comment that was found and there is no recover hook.                    *)

LookFor(w) == askRun' = [askRun EXCEPT ![w].pc = "look", ![w].saw = "left"]

\* The branches on the row that persistOperationIntent returns.  An intent is only ever
\* reconciled with its result (AskAccount), so the rebuild of a lost result has no branch.
AskPersist(w) ==
    LET i == IF Intent(w).status = "absent" THEN [NoIntent EXCEPT !.status = "pending"]
             ELSE Intent(w)
    IN  /\ AskAt(w, "persist")
        /\ askIntent' = [askIntent EXCEPT ![Op(w)] = i]
        /\ IF i.result # "none"
           THEN askRun' = [askRun EXCEPT ![w].place = i.result,
                    ![w].pc = IF i.status = "reconciled" THEN "record" ELSE "finish"]
           ELSE IF i.status = "outcome_unknown" /\ i.terminal THEN AskThrow(w, "terminal")
           ELSE IF i.status = "outcome_unknown" THEN LookFor(w)
           ELSE askRun' = [askRun EXCEPT ![w].pc = "lookup", ![w].saw = Kind(i)]
        /\ UNCHANGED <<askTarget, durable, github, askDoubt, askFaults>>

\* finishWithStashedResult.
AskFinish(w) ==
    /\ AskAt(w, "finish")
    /\ askIntent' = [askIntent EXCEPT ![Op(w)] =
           Resolved(@, "reconciled", FALSE, askRun[w].place)]
    /\ Go(w, "record")
    /\ UNCHANGED <<askTarget, durable, github, askDoubt, askFaults>>

\* findInFlightMutatingIntent: an armed row without a result is not sent again.
AskInFlight_Never(i) == FALSE
AskInFlight(i) == i.status = "pending" /\ i.mutating /\ i.result = "none"

AskLookup(w) ==
    /\ AskAt(w, "lookup")
    /\ IF AskInFlight(Intent(w)) THEN LookFor(w)
       ELSE askRun' = [askRun EXCEPT ![w].pc = "arm",
                           ![w].saw = IF @ = Kind(Intent(w)) THEN @ ELSE "moved"]
    /\ UNCHANGED <<askTarget, durable, askIntent, github, askDoubt, askFaults>>

\* The result of this merge is not looked at.  "race": the row is no longer one that may be
\* sent and not the one that was read: another execution armed or finished it since.
AskArm(w) ==
    /\ AskAt(w, "arm")
    /\ askIntent' = [askIntent EXCEPT ![Op(w)] = AskMerged(@, TRUE, @.result)]
    /\ askDoubt' = IF /\ Kind(Intent(w)) \notin {"pending", "failed"}
                      /\ Kind(Intent(w)) # askRun[w].saw
                   THEN askDoubt \cup {"race"} ELSE askDoubt
    /\ Go(w, IF askRun[w].mode = "adopt" THEN "stash" ELSE "send")
    /\ UNCHANGED <<askTarget, durable, github, askFaults>>

\* The search for the reply of a send whose outcome is not known: after an error that proves
\* nothing ("unknown"), or for a row that an earlier execution left behind ("left",
\* recoverAfterMutatingWithoutResult).  A listing that fails leaves the row as it is, unless
\* it is left behind and the record is there.  finalizeAskReplyPublish has no recover hook.
AskLook(w) ==
    LET r == askRun[w]
        recorded == r.saw = "left" /\ Op(w) = "answer" /\ askRecord # "none"
    IN  /\ AskAt(w, "look")
        /\ \/ /\ AskMishap /\ r.mode = "send"
              /\ IF recorded
                 THEN askRun' = [askRun EXCEPT ![w].pc = "resolve", ![w].saw = "unknown",
                                               ![w].place = "none"]
                 ELSE AskThrow(w, "transient")
           \/ /\ NoFault
              /\ askRun' = [askRun EXCEPT ![w].pc = "resolve",
                     ![w].place = IF r.mode = "send" THEN Found(Op(w)) ELSE "none"]
        /\ UNCHANGED <<askTarget, durable, askIntent, github, askDoubt>>

\* What the search showed is written: found, the intent is reconciled.  Not found, a known
\* rejection may be sent again, any other send stays unknown, for good when it was left behind.
Outcome_Failed(r) == IF r.place # "none" THEN "reconciled" ELSE "failed"
Outcome(r) == IF r.place # "none" THEN "reconciled"
              ELSE IF r.saw = "known" THEN "failed" ELSE "outcome_unknown"

AskResolve(w) ==
    LET r == askRun[w]
    IN  /\ AskAt(w, "resolve")
        /\ askIntent' = [askIntent EXCEPT ![Op(w)] =
               Resolved(@, Outcome(r), r.saw = "left" /\ r.place = "none", r.place)]
        /\ \/ r.place # "none" /\ Go(w, "record")
           \/ /\ r.place = "none"
              /\ AskThrow(w, IF r.saw = "left" /\ Intent(w).status # "failed" THEN "terminal"
                          ELSE "transient")
        /\ UNCHANGED <<askTarget, durable, github, askDoubt, askFaults>>

AskStash(w) ==
    /\ AskAt(w, "stash")
    /\ askIntent' = [askIntent EXCEPT ![Op(w)] = AskMerged(@, @.mutating, askRun[w].place)]
    /\ Go(w, "reconcile")
    /\ UNCHANGED <<askTarget, durable, github, askDoubt, askFaults>>

AskReconcile(w) ==
    /\ AskAt(w, "reconcile")
    /\ askIntent' = [askIntent EXCEPT ![Op(w)] = Resolved(@, "reconciled", FALSE, askRun[w].place)]
    /\ Go(w, "record")
    /\ UNCHANGED <<askTarget, durable, github, askDoubt, askFaults>>

-----------------------------------------------------------------------------
(* publishAskAnswer: the request, and what follows an inline reply that failed. *)

Accept(op, place) == askPosted' = [askPosted EXCEPT ![op][place] = @ + 1]

Failed(w, saw, inline) ==
    askRun' = [askRun EXCEPT ![w].saw = saw, ![w].place = "none",
        ![w].pc = IF inline THEN "missed" ELSE IF saw = "known" THEN "resolve" ELSE "look"]

\* replyAt at a place: accepted and answered; accepted and the answer lost; given up while
\* it may still arrive; or refused with a status that proves it was not accepted.
ReplyAt(w, place, inline) ==
    LET after(saw) == Failed(w, saw, inline)
    IN  \/ /\ NoFault /\ Accept(Op(w), place) /\ UNCHANGED askWire
           /\ askRun' = [askRun EXCEPT ![w].pc = "stash", ![w].place = place]
        \/ AskMishap /\ Accept(Op(w), place) /\ UNCHANGED askWire /\ after("unknown")
        \/ AskMishap /\ askWire' = [askWire EXCEPT ![Op(w)][place] = @ + 1] /\ UNCHANGED askPosted
           /\ after("unknown")
        \/ AskMishap /\ UNCHANGED github /\ after("known")

AskSend(w) ==
    /\ AskAt(w, "send")
    /\ ReplyAt(w, askTarget, askTarget = "inline")
    /\ UNCHANGED <<askTarget, durable, askIntent, askDoubt>>

\* An inline reply that failed is looked for in its thread.  When it is not there, only a
\* known rejection falls back to the conversation.  An error of this listing replaces the
\* error of the send: "misread" when its status then passes for a rejection of the reply.
FallsBack_Any(saw) == TRUE
FallsBack(saw) == saw = "known"

AskMissed(w) ==
    /\ AskAt(w, "missed")
    /\ \/ /\ NoFault /\ UNCHANGED askDoubt
          /\ IF askPosted[Op(w)]["inline"] > 0
             THEN askRun' = [askRun EXCEPT ![w].pc = "stash", ![w].place = "inline"]
             ELSE Go(w, IF FallsBack(askRun[w].saw) THEN "fallback" ELSE "look")
       \/ AskMishap /\ UNCHANGED askDoubt /\ Failed(w, "unknown", FALSE)
       \/ /\ AskMishap /\ Failed(w, "known", FALSE)
          /\ askDoubt' = IF askRun[w].saw = "known" THEN askDoubt ELSE askDoubt \cup {"misread"}
    /\ UNCHANGED <<askTarget, durable, askIntent, github>>

AskFallback(w) ==
    /\ AskAt(w, "fallback")
    /\ ReplyAt(w, "conversation", FALSE)
    /\ UNCHANGED <<askTarget, durable, askIntent, askDoubt>>

-----------------------------------------------------------------------------
(* The end of an execution, and what happens around it. *)

\* recordAskPublishStep: one ask_reply row per work item, the last writer's comment in it.
Recorded(place) == askRecord' = place

\* An answer whose record cannot be written completes degraded; the failure reply has none.
AskRecordReply(w) ==
    /\ AskAt(w, "record")
    /\ \/ /\ askRun[w].phase = "hook" /\ NoFault /\ Go(w, "settle") /\ UNCHANGED askRecord
       \/ /\ askRun[w].phase = "execute" /\ NoFault /\ Go(w, "complete")
          /\ Recorded(askRun[w].place)
       \/ /\ askRun[w].phase = "execute" /\ AskMishap /\ UNCHANGED askRecord
          /\ askRun' = [askRun EXCEPT ![w].pc = "degrade", ![w].degraded = TRUE]
    /\ UNCHANGED <<askTarget, askItem, askJob, askIntent, github, askDoubt>>

\* completeDurableExecution: the mark first, then the status.
AskDegrade_Unmarked(w) ==
    /\ AskAt(w, "degrade") /\ Go(w, "complete")
    /\ UNCHANGED <<askTarget, durable, askIntent, github, askDoubt, askFaults>>
AskDegrade(w) ==
    /\ AskAt(w, "degrade")
    /\ IF askItem.status = "cancelled" THEN UNCHANGED askItem /\ Go(w, "settle")
       ELSE askItem' = [askItem EXCEPT !.degraded = TRUE] /\ Go(w, "complete")
    /\ UNCHANGED <<askTarget, askJob, askIntent, askRecord, github, askDoubt, askFaults>>

AskComplete(w) ==
    /\ AskAt(w, "complete")
    /\ askItem' = [askItem EXCEPT !.status = IF @ = "running" THEN "completed" ELSE @]
    /\ Go(w, "settle")
    /\ UNCHANGED <<askTarget, askJob, askIntent, askRecord, github, askDoubt, askFaults>>

\* A statement on the intent, the record or the item throws; publishOnce's own writes leave
\* the row as it was.
AskStoreFails(w) ==
    /\ askRun[w].pc \in {"published", "recover", "adoptRead", "adoptWrite", "admit", "recheck",
                         "persist", "lookup", "arm", "resolve", "finish", "stash", "reconcile"}
    /\ AskMishap /\ AskThrow(w, "transient")
    /\ UNCHANGED <<askTarget, durable, askIntent, github, askDoubt>>

\* pg-boss expires the job it delivered; the handler may learn of it later.
AskExpire ==
    /\ askJob.state = "active"
    /\ askJob' = Redelivered
    /\ UNCHANGED <<askTarget, askItem, askRun, askIntent, askRecord, github, askDoubt, askFaults>>

AskAborted(w) ==
    /\ ~AskAt(w, "idle") /\ askJob.holder # w /\ ~askRun[w].aborted
    /\ askRun' = [askRun EXCEPT ![w].aborted = TRUE]
    /\ UNCHANGED <<askTarget, durable, askIntent, github, askDoubt, askFaults>>

\* The worker of a handler dies; its job is active until it expires.
AskCrash(w) ==
    /\ ~AskAt(w, "idle") /\ AskMishap
    /\ askRun' = [askRun EXCEPT ![w] = IdleRun]
    /\ UNCHANGED <<askTarget, durable, askIntent, github, askDoubt>>

\* The diagnostics fail a running ask that no live job stands for; no hook runs.
AskWorkerLost ==
    /\ askItem.status = "running" /\ askJob.state = "done"
    /\ askItem' = [askItem EXCEPT !.status = "failed"]
    /\ UNCHANGED <<askTarget, askJob, askRun, askIntent, askRecord, github, askDoubt, askFaults>>

\* A request that was given up is accepted after all, or never was.
AskLateRequest(op, place) ==
    /\ askWire[op][place] > 0
    /\ askWire' = [askWire EXCEPT ![op][place] = @ - 1]
    /\ Accept(op, place) \/ UNCHANGED askPosted
    /\ UNCHANGED <<askTarget, durable, askRun, askIntent, askDoubt, askFaults>>

AskHandler(w) ==
    \/ AskAbandon(w) \/ AskClaim(w) \/ AskOpen(w) \/ AskFailing(w) \/ AskRetry(w)
    \/ AskMarkFailed(w) \/ AskSettle(w) \/ AskPublished(w) \/ AskRecover(w) \/ AskSearch(w)
    \/ AskAdoptRead(w) \/ AskAdoptWrite(w) \/ AskAdmit(w) \/ AskAgent(w) \/ AskRecheck(w)
    \/ AskPersist(w) \/ AskFinish(w) \/ AskLookup(w) \/ AskArm(w) \/ AskLook(w) \/ AskResolve(w)
    \/ AskStash(w) \/ AskReconcile(w) \/ AskSend(w) \/ AskMissed(w)
    \/ AskFallback(w) \/ AskRecordReply(w) \/ AskDegrade(w) \/ AskComplete(w)
    \/ AskStoreFails(w)

AskNext ==
    \/ \E w \in AskWorkers : AskFetch(w) \/ AskHandler(w) \/ AskAborted(w) \/ AskCrash(w)
    \/ AskExpire \/ AskWorkerLost
    \/ \E op \in AskOps, place \in AskPlaces : AskLateRequest(op, place)

AskSpec == AskInit /\ [][AskNext]_askVars

-----------------------------------------------------------------------------
(* Properties. *)

WireOf(op) == askWire[op]["inline"] + askWire[op]["conversation"]

\* The pull request never gets two answers to one ask, counting a request that may still
\* be accepted, unless a delivery stalled between publishOnce's reads of the intent and its
\* arming while another one armed or finished it (race), or an error of the listing after a lost inline
\* reply was taken for the refusal of that reply (misread).  The failure reply is sent once.
AnsweredOnce ==
    /\ PostedOf("answer") + WireOf("answer") <= 1 \/ askDoubt # {}
    /\ PostedOf("failure") + WireOf("failure") <= 1

\* What the rows say happened on GitHub: a result and a record name a comment that is
\* there and a reconciled intent has its result; outside those two cases a record belongs to
\* a reconciled answer, and a failed intent to a reply that was not and will not be accepted.
RowsTrue ==
    /\ \A op \in AskOps : LET i == askIntent[op] IN
        /\ i.result # "none" => askPosted[op][i.result] > 0
        /\ i.status = "reconciled" => i.result # "none"
        /\ i.status = "failed" => askDoubt # {} \/ PostedOf(op) + WireOf(op) = 0
    /\ askRecord # "none" => /\ askPosted["answer"][askRecord] > 0
                             /\ askDoubt # {} \/ askIntent["answer"].status = "reconciled"

\* An item that completed without a mark has the record of its answer.
CompletedMeansAnswered ==
    askItem.status = "completed" /\ ~askItem.degraded => askRecord # "none"

AskAccount == AnsweredOnce /\ RowsTrue /\ CompletedMeansAnswered

\* The terminal hook decides to tell the reader that the ask failed only where no answer
\* stands on the pull request at that moment (decideAskFailureReply).
HookLooksFirst ==
    [][\A w \in AskWorkers :
         askRun[w].op = "answer" /\ askRun'[w].op = "failure"
             => PostedOf("answer") = 0 \/ askDoubt # {}]_askVars

\* What was learned about an answer is not unlearned: a reconciled intent, the record and
\* the end of an item stay.
AskSettledForGood ==
    [][/\ \A op \in AskOps : askIntent[op].status = "reconciled" =>
              askIntent'[op].status = "reconciled" /\ askIntent'[op].result # "none"
       /\ askRecord # "none" => askRecord' # "none"
       /\ askItem.status \notin {"queued", "running"} => askItem'.status = askItem.status]_askVars

\* An ask is answered at most once and its rows tell the truth about it, whoever dies, loses an
\* answer or is overtaken; the terminal hook looks before it speaks, and what is settled stays.
AskSound == [](AskTypeOK /\ AskAccount) /\ HookLooksFirst /\ AskSettledForGood
=============================================================================
