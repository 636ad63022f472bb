--------------------------- MODULE WebhookRequest ---------------------------
(***************************************************************************)
(* The web process's side of a GitHub delivery: effect/server.ts reads the *)
(* body, processWebhookRequestEffect.ts checks the signature, parses the   *)
(* payload, turns it into an intake command and submits it, and answers    *)
(* GitHub before its response budget is over.                              *)
(*                                                                         *)
(* The submit runs in a detached fiber that cannot be interrupted, so the  *)
(* budget may end while the delivery's transaction is still running: the   *)
(* handler then has to find out what became of it before it answers.  The  *)
(* bot identity that authorizes a comment is looked up once and shared by  *)
(* the requests that arrive meanwhile.  What the transaction does with the *)
(* command is module Intake.                                               *)
(***************************************************************************)
EXTENDS Naturals, FiniteSets

CONSTANTS
    Requests,        \* concurrent POST /webhooks requests
    WebhookEvents,   \* the deliveries GitHub may send
    ApprovalMode     \* cfg.features.review = "approval"

ASSUME WebhookAssumption ==
    /\ ApprovalMode \in BOOLEAN
    /\ \A e \in WebhookEvents : {e.fits, e.signed, e.json, e.shape, e.extra,
                                 e.allowed, e.own} \subseteq BOOLEAN

VARIABLES
    whRequest,   \* per request: its delivery, where the handler is, its command
    whFiber,     \* the detached scheduler.submit of each request
    whStored,    \* requests whose delivery transaction committed
    whIdentity,  \* appBotIdentityByAppId: "none", "pending" or "known"
    whLookup     \* TRUE while GitHub is asked who the bot is

webhookVars == <<whRequest, whFiber, whStored, whIdentity, whLookup>>

Idle == [phase |-> "idle", event |-> "none", command |-> "none", answer |-> "none"]
Answers == {"none", "200", "400", "401", "413", "422", "503 failed", "503 timeout"}
IntakeCommands == {"none", "ignored", "pull_request", "review_approved", "slash",
                   "ci_refresh", "ci_state"}

WebhookTypeOK ==
    /\ \A r \in Requests :
         /\ whRequest[r].phase \in {"idle", "body", "read", "identity", "submit",
                                    "late", "answered", "gone"}
         /\ whRequest[r].answer \in Answers
         /\ whRequest[r].command \in IntakeCommands
    /\ whFiber \in [Requests -> {"none", "running", "success", "failure"}]
    /\ whStored \subseteq Requests
    /\ whIdentity \in {"none", "pending", "known"}
    /\ whLookup \in BOOLEAN

WebhookInit ==
    /\ whRequest = [r \in Requests |-> Idle]
    /\ whFiber = [r \in Requests |-> "none"]
    /\ whStored = {} /\ whIdentity = "none" /\ whLookup = FALSE

-----------------------------------------------------------------------------
(* The actions of each event the parser hands on; "status" has no action.  *)

HandledActions ==
    [pull_request |-> {"opened", "synchronize", "reopened", "closed"},
     pull_request_review |-> {"submitted"},
     issue_comment |-> {"created"},
     pull_request_review_comment |-> {"created"},
     workflow_run |-> {"completed", "in_progress"},
     check_suite |-> {"completed"},
     check_run |-> {"created", "completed"},
     status |-> {"none"}]

(* The parsed event's name, "ignored", or "parse_error" when the payload   *)
(* does not match the event's schema.  `extra` is the one further question *)
(* asked of a payload: is the review an approval, was the run triggered by *)
(* a pull request.                                                         *)
parseGithubPayload(e) ==
    IF e.name \notin DOMAIN HandledActions \/ e.action \notin HandledActions[e.name]
    THEN "ignored"
    ELSE IF ~e.shape THEN "parse_error"
    ELSE IF e.name = "pull_request_review" /\ ~e.extra THEN "ignored"
    ELSE IF e.name = "workflow_run" /\ e.action = "in_progress"
    THEN IF e.extra THEN "workflow_run_started" ELSE "ignored"
    ELSE e.name

(* Who may give an order.  Only a review carries the account's type; for a *)
(* comment the bot is recognised by its id, which needs the identity.      *)
authorize_Unknown(e, typed, bot) ==
    IF typed /\ e.author \in {"self", "bot"} THEN "ignored"
    ELSE IF (bot /\ e.author = "self") \/ ~e.allowed THEN "ignored"
    ELSE "granted"

authorize(e, typed, bot) ==
    IF typed /\ e.author \in {"self", "bot"} THEN "ignored"
    ELSE IF ~bot THEN "auth_required"
    ELSE IF e.author = "self" \/ ~e.allowed THEN "ignored"
    ELSE "granted"

(* The app's own checks and statuses say nothing new about the head.       *)
ciCommand(e, parsed) ==
    IF parsed \in {"check_suite", "check_run", "status"} /\ e.own THEN "ignored"
    ELSE IF parsed \in {"workflow_run", "check_suite"} THEN "ci_refresh"
    ELSE "ci_state"

toIntakeCommand(e, bot) ==
    LET parsed == parseGithubPayload(e)
        gate == authorize(e, parsed = "pull_request_review", bot)
    IN  IF parsed \in {"ignored", "pull_request"} THEN parsed
        ELSE IF parsed \in {"workflow_run_started", "pull_request_review"} /\ ~ApprovalMode
          THEN "ignored"
        ELSE IF parsed = "workflow_run_started" THEN "review_approved"
        ELSE IF parsed = "pull_request_review"
          THEN IF gate = "granted" THEN "review_approved" ELSE gate
        ELSE IF parsed \in {"issue_comment", "pull_request_review_comment"}
          THEN IF gate # "granted" THEN gate
               ELSE IF e.text = "plain" THEN "ignored" ELSE "slash"
        ELSE ciCommand(e, parsed)

verifyGithubWebhookSignature(e) == e.signed

Replied(r, status) == [whRequest EXCEPT ![r].phase = "answered", ![r].answer = status]

-----------------------------------------------------------------------------
(* effect/server.ts *)

ReceiveRequest(r, e) ==
    /\ whRequest[r].phase = "idle"
    /\ whRequest' = [whRequest EXCEPT ![r].phase = "body", ![r].event = e]
    /\ UNCHANGED <<whFiber, whStored, whIdentity, whLookup>>

(* The body is complete, is larger than maxBodyBytes (declared so, or      *)
(* counted while it arrives), or its stream fails.                         *)
readRawBody(r) ==
    /\ whRequest[r].phase = "body"
    /\ \/ whRequest' = IF whRequest[r].event.fits
                       THEN [whRequest EXCEPT ![r].phase = "read"]
                       ELSE Replied(r, "413")
       \/ whRequest' = [whRequest EXCEPT ![r].phase = "gone"]
    /\ UNCHANGED <<whFiber, whStored, whIdentity, whLookup>>

(* GitHub closes the connection: the handler is interrupted wherever it    *)
(* waits; a detached submit goes on.                                       *)
ClientAborts(r) ==
    /\ whRequest[r].phase \in {"identity", "submit", "late"}
    /\ whRequest' = [whRequest EXCEPT ![r].phase = "gone"]
    /\ UNCHANGED <<whFiber, whStored, whIdentity, whLookup>>

-----------------------------------------------------------------------------
(* processWebhookRequestEffect.ts *)

(* The submit is forked detached and started at once; from then on it      *)
(* cannot be interrupted.                                                  *)
SubmitIntake(r, command) ==
    /\ whRequest' = [whRequest EXCEPT ![r].phase = "submit", ![r].command = command]
    /\ whFiber' = [whFiber EXCEPT ![r] = "running"]

(* The cached identity answers at once; a pending lookup is joined; else   *)
(* one is started and its promise cached.                                  *)
getAppBotIdentity(r) ==
    /\ whIdentity # "known"
    /\ whRequest' = [whRequest EXCEPT ![r].phase = "identity"]
    /\ whIdentity' = "pending"
    /\ whLookup' = (whLookup \/ whIdentity = "none")
    /\ UNCHANGED whFiber

(* handleWebhook up to its first wait: signature, JSON, parse, command.    *)
admitted(r) ==
    LET e == whRequest[r].event
        early == toIntakeCommand(e, FALSE)
    IN  /\ whRequest[r].phase = "read"
        /\ UNCHANGED whStored
        /\ \/ /\ ~verifyGithubWebhookSignature(e)
              /\ whRequest' = Replied(r, "401") /\ UNCHANGED <<whFiber, whIdentity, whLookup>>
           \/ /\ verifyGithubWebhookSignature(e) /\ ~e.json
              /\ whRequest' = Replied(r, "400") /\ UNCHANGED <<whFiber, whIdentity, whLookup>>
           \/ /\ verifyGithubWebhookSignature(e) /\ e.json
              /\ \/ /\ parseGithubPayload(e) = "parse_error"
                    /\ whRequest' = Replied(r, "422")
                    /\ UNCHANGED <<whFiber, whIdentity, whLookup>>
                 \/ /\ parseGithubPayload(e) # "parse_error"
                    /\ \/ /\ early = "auth_required"
                          /\ getAppBotIdentity(r)
                       \/ /\ early # "auth_required"
                          /\ SubmitIntake(r, early) /\ UNCHANGED <<whIdentity, whLookup>>
                       \/ /\ early = "auth_required" /\ whIdentity = "known"
                          /\ SubmitIntake(r, toIntakeCommand(e, TRUE))
                          /\ UNCHANGED <<whIdentity, whLookup>>

(* GitHub says who the bot is: every request still waiting goes on.        *)
IdentityResolved ==
    /\ whLookup
    /\ whLookup' = FALSE /\ whIdentity' = "known"
    /\ whRequest' = [r \in Requests |->
         IF whRequest[r].phase = "identity"
         THEN [whRequest[r] EXCEPT !.phase = "submit",
                                   !.command = toIntakeCommand(whRequest[r].event, TRUE)]
         ELSE whRequest[r]]
    /\ whFiber' = [r \in Requests |->
         IF whRequest[r].phase = "identity" THEN "running" ELSE whFiber[r]]
    /\ UNCHANGED whStored

(* A rejected promise leaves the cache, so that the next comment asks      *)
(* again.                                                                  *)
ForgottenIdentity_Kept == whIdentity

ForgottenIdentity == "none"

IdentityFailed ==
    /\ whLookup
    /\ whLookup' = FALSE /\ whIdentity' = ForgottenIdentity
    /\ whRequest' = [r \in Requests |->
         IF whRequest[r].phase = "identity"
         THEN [whRequest[r] EXCEPT !.phase = "answered", !.answer = "503 failed"]
         ELSE whRequest[r]]
    /\ UNCHANGED <<whFiber, whStored>>

(* runDelivery ends: its transaction committed, was rolled back, or        *)
(* committed although its answer was lost.                                 *)
SubmitEnds(r) ==
    /\ whFiber[r] = "running"
    /\ \/ /\ whFiber' = [whFiber EXCEPT ![r] = "success"]
          /\ whStored' = whStored \cup {r}
       \/ /\ whFiber' = [whFiber EXCEPT ![r] = "failure"]
          /\ whStored' \in {whStored, whStored \cup {r}}
    /\ UNCHANGED <<whRequest, whIdentity, whLookup>>

FiberAnswer(r) == IF whFiber[r] = "success" THEN "200" ELSE "503 failed"

(* Fiber.join(detached) returns within the budget.                         *)
dispatchGithubEvent(r) ==
    /\ whRequest[r].phase = "submit" /\ whFiber[r] \in {"success", "failure"}
    /\ whRequest' = Replied(r, FiberAnswer(r))
    /\ UNCHANGED <<whFiber, whStored, whIdentity, whLookup>>

(* Effect.timeout: armed for the whole of dispatchGithubEvent.             *)
BudgetCovers_SubmitOnly(r) == whRequest[r].phase = "submit"

BudgetCovers(r) == whRequest[r].phase \in {"identity", "submit"}

ResponseBudgetOver(r) ==
    /\ BudgetCovers(r)
    /\ whRequest' = [whRequest EXCEPT ![r].phase = "late"]
    /\ UNCHANGED <<whFiber, whStored, whIdentity, whLookup>>

(* After the budget: no fiber was forked, the fiber has ended, or it is in *)
(* its uninterruptible region and is joined.  Only the first says timeout. *)
detachedCommitLanded_Interrupting(r) == whFiber[r] = "success"

detachedCommitLanded(r) == whFiber[r] # "none"

LateAnswer(r) ==
    /\ whRequest[r].phase = "late"
    /\ detachedCommitLanded(r) => whFiber[r] # "running"
    /\ whRequest' = Replied(r, IF detachedCommitLanded(r) THEN FiberAnswer(r)
                                ELSE "503 timeout")
    /\ UNCHANGED <<whFiber, whStored, whIdentity, whLookup>>

-----------------------------------------------------------------------------
HandlerStep(r) ==
    readRawBody(r) \/ admitted(r) \/ dispatchGithubEvent(r) \/ LateAnswer(r) \/ SubmitEnds(r)

WebhookNext ==
    \/ \E r \in Requests, e \in WebhookEvents : ReceiveRequest(r, e)
    \/ \E r \in Requests : readRawBody(r)
    \/ \E r \in Requests : admitted(r)
    \/ \E r \in Requests : dispatchGithubEvent(r)
    \/ \E r \in Requests : LateAnswer(r)
    \/ \E r \in Requests : SubmitEnds(r)
    \/ \E r \in Requests : ResponseBudgetOver(r)
    \/ \E r \in Requests : ClientAborts(r)
    \/ IdentityResolved
    \/ IdentityFailed

(* Timers and the event loop run, and a statement sent to PostgreSQL ends; *)
(* GitHub need not answer the identity lookup.                             *)
WebhookFair == \A r \in Requests :
    WF_webhookVars(HandlerStep(r)) /\ WF_webhookVars(ResponseBudgetOver(r))

WebhookSpec == WebhookInit /\ [][WebhookNext]_webhookVars /\ WebhookFair

-----------------------------------------------------------------------------
(* GitHub is told the truth about a delivery: 200 only for one whose       *)
(* transaction committed, and a refusal that says the delivery was not     *)
(* taken (too large, unsigned, unparsable, timed out) only when no         *)
(* transaction ran or will run for it, although the submit cannot be       *)
(* interrupted when the budget ends.                                       *)
AnswerMatchesCommit ==
    \A r \in Requests :
        /\ whRequest[r].answer = "200" => r \in whStored
        /\ whRequest[r].answer \in {"400", "401", "413", "422", "503 timeout"} =>
             whFiber[r] = "none" /\ r \notin whStored

(* A comment or a review becomes an order only when its author may give    *)
(* one and is not the bot itself, also for requests that arrived before    *)
(* the bot knew its own identity.                                          *)
OrdersAreAuthorized ==
    \A r \in whStored :
        whRequest[r].event.name \in {"issue_comment", "pull_request_review_comment",
                                     "pull_request_review"}
            /\ whRequest[r].command \in {"slash", "review_approved"}
        => whRequest[r].event.allowed /\ whRequest[r].event.author # "self"

(* A lookup in the cache is one that GitHub is still being asked about: a  *)
(* failed one never stays to fail every later comment.                     *)
CachedLookupIsLive == whIdentity = "pending" => whLookup

(* Every request whose body is read is answered, or its connection ends,   *)
(* even when GitHub never answers the identity lookup.                     *)
RequestAnswered ==
    \A r \in Requests :
        whRequest[r].phase = "read" ~> whRequest[r].phase \in {"answered", "gone"}

(* What the answer to GitHub promises: it says what became of the delivery, *)
(* commands come from who may give them, and a failed identity lookup is   *)
(* not kept.                                                               *)
WebhookSound ==
  /\ WebhookTypeOK
  /\ AnswerMatchesCommit
  /\ OrdersAreAuthorized
  /\ CachedLookupIsLive

=============================================================================
