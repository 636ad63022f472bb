--------------------------- MODULE ReviewVerdict ---------------------------
(***************************************************************************)
(* The verdict of one review on GitHub: its check run and its commit       *)
(* status (reviewVerdict.ts and the check_run row of                       *)
(* publishRecordRepository.ts).  The acknowledgement job and every         *)
(* execution of the review call pending(); an execution closes under its   *)
(* lease; the repairers (cancellation, lost-running reconciliation, the    *)
(* executor's late repair) close without one once the work item is         *)
(* terminal.  An operation key is sent by one process at a time and found  *)
(* again after an unknown answer, as PublishOnce shows.                    *)
(***************************************************************************)
EXTENDS Naturals, FiniteSets

CONSTANTS
  Acknowledged,      \* the acknowledgement runs too, and has not failed beforehand
  LastEpoch,         \* executions 1 .. LastEpoch, one per lease epoch (a bound)
  RepairerCount,     \* unleased closers
  Published,         \* pairs of partial coverage and conclusion a run may publish
  MaxVerdictFaults   \* crashes, rejected or unanswered calls, access changes (a bound)

ASSUME VerdictAssumption ==
  /\ Acknowledged \in BOOLEAN
  /\ LastEpoch \in Nat \ {0} /\ RepairerCount \in Nat /\ MaxVerdictFaults \in Nat
  /\ Published \subseteq BOOLEAN \X {"success", "failure", "neutral"}

VARIABLES
  vItem,     \* the status of the work item
  vLease,    \* the epoch of its lease row
  vRow,      \* the check_run row of publish_records
  vIntent,   \* the operation intents of the four mutations
  vGithub,   \* the check run and the commit status GitHub shows
  vSummary,  \* the verdict fields of the summary_comment row
  vAccess,   \* the installation may write checks and statuses
  vLock,     \* the holder of the own_verdict session lock
  vPc,       \* where each actor is
  vFaults

verdictVars ==
  <<vItem, vLease, vRow, vIntent, vGithub, vSummary, vAccess, vLock, vPc, vFaults>>

Ack == 0
Executions == 1 .. LastEpoch
Repairers == (LastEpoch + 1) .. (LastEpoch + RepairerCount)
VerdictActors == {Ack} \cup Executions \cup Repairers

-----------------------------------------------------------------------------
(* Outcomes and what they show *)

\* ownVerdictSurfaces; a published outcome is named by its conclusion.
ownVerdictSurfaces(outcome) ==
  CASE outcome \in {"success", "failure"} -> [check |-> outcome, status |-> outcome]
    [] outcome \in {"neutral", "partial"} -> [check |-> "neutral", status |-> "error"]
    [] outcome \in {"cancelled", "superseded", "stale_head"} ->
         [check |-> "cancelled", status |-> "error"]
    [] outcome \in {"crashed", "not_published"} ->
         [check |-> "action_required", status |-> "error"]

\* closeOutcomeForCoverage: how the run that composed the summary closes.
closeOutcomeForCoverage(partial, conclusion) ==
  IF partial /\ conclusion # "failure" THEN "partial" ELSE conclusion

\* summaryCommentVerdictMeta: what the summary row keeps of it.
summaryCommentVerdictMeta(partial, conclusion) ==
  [kind |-> IF closeOutcomeForCoverage(partial, conclusion) = "partial" THEN "partial"
            ELSE "published",
   reason |-> partial, failing |-> conclusion = "failure", incomplete |-> conclusion = "neutral"]

\* Mutant: an incomplete inventory is read back as a pass.
ownVerdictFromSummaryDetail_IncompletePasses(detail) ==
  IF detail.reason /\ detail.failing THEN "failure"
  ELSE IF detail.kind = "partial" THEN "partial"
  ELSE IF detail.failing THEN "failure" ELSE "success"

\* ownVerdictFromSummaryDetail: how a repairer reads it back.
ownVerdictFromSummaryDetail(detail) ==
  IF detail.reason /\ detail.failing THEN "failure"
  ELSE IF detail.kind = "partial" THEN "partial"
  ELSE IF detail.failing THEN "failure"
  ELSE IF detail.incomplete THEN "neutral" ELSE "success"

NoSummary == [kind |-> "none", reason |-> FALSE, failing |-> FALSE, incomplete |-> FALSE]

\* resolveOwnVerdictForTerminalReview
resolveOwnVerdictForTerminalReview ==
  CASE vItem = "failed" -> "crashed"
    [] vItem = "cancelled" -> "cancelled"
    [] vItem = "completed" /\ vSummary = NoSummary -> "not_published"
    [] OTHER -> ownVerdictFromSummaryDetail(vSummary)

-----------------------------------------------------------------------------
(* The row *)

NoVerdict == [check |-> "none", status |-> "none"]

\* starting: detail.status is "starting"; check and status are ownCheckState and
\* ownStatusState, where "open" is absent, unresolved or blocked.
NoCheckRow == [present |-> FALSE, id |-> FALSE, starting |-> FALSE, epoch |-> 0,
               sel |-> NoVerdict, check |-> "open", status |-> "open"]

VerdictEpoch(a) == IF a \in Executions THEN a ELSE 0

VerdictFenced(a) == a \in Executions => vLease = a

Selected == vRow.sel # NoVerdict

VerdictTerminal == vItem # "active"

AtPc(a, pc) == vPc' = [vPc EXCEPT ![a] = pc]

\* A reservation is stale once nobody is between reserving and recording.  The
\* five minutes of REVIEW_CHECK_RUN_RESERVATION_STALE_MS outlast that section.
StaleReservation ==
  \A a \in VerdictActors : vPc[a] \notin {"create", "creating", "record", "orphan", "release"}

\* releaseUnstartedReviewCheckRunReservation
Releasable(a, stale) ==
  /\ vRow.present /\ ~vRow.id
  /\ Selected => vRow.starting
  /\ \/ a \notin Executions /\ (stale => StaleReservation)
     \/ a \in Executions /\ (vRow.epoch = a \/ (stale /\ StaleReservation))

ReleasedRow == IF Selected THEN [vRow EXCEPT !.starting = FALSE] ELSE NoCheckRow

\* reserveReviewCheckRun: an insert, or a row that only carries a selection.
Reservable ==
  \/ ~vRow.present
  \/ ~vRow.id /\ Selected /\ vRow.check # "skipped" /\ ~vRow.starting

\* recordReviewCheckRun
RecordedRow(a) ==
  [vRow EXCEPT !.present = TRUE, !.id = TRUE, !.starting = FALSE,
               !.epoch = IF a \in Executions THEN a ELSE @]

\* Mutant: a call without an answer counts as accepted.
IntentAccepted_Unanswered(k) == vIntent[k] \in {"accepted", "unknown"}

\* acceptedIntent
IntentAccepted(k) == vIntent[k] = "accepted"

\* hasOwnVerdictSurfaceAcceptance
Applicable(keys) == \E k \in keys : vIntent[k] \in {"accepted", "unknown", "mutating"}

VerdictInit ==
  /\ vItem = "active" /\ vLease = 1
  /\ vRow = NoCheckRow
  /\ vIntent = [k \in {"start", "finish", "pending", "status"} |-> "none"]
  /\ vGithub = [check |-> "none", status |-> "none", orphaned |-> FALSE]
  /\ vSummary = NoSummary /\ vAccess = TRUE
  /\ vLock = {} /\ vFaults = 0
  /\ vPc = [a \in VerdictActors |-> CASE a \in Repairers -> "idle"
                                  [] a = Ack /\ ~Acknowledged -> "done"
                                  [] OTHER -> "begin"]

-----------------------------------------------------------------------------
(* pending(): the check run *)

\* ensureReviewCheckRunStarted; the acknowledgement has seen an active item and an
\* execution its lease.
EnsureStarted(a) ==
  /\ vPc[a] = "begin" /\ vItem = "active" /\ VerdictFenced(a)
  /\ AtPc(a, IF vRow.id \/ vRow.check = "skipped" \/ ~vAccess THEN "pendingStatus" ELSE "reserve")
  /\ UNCHANGED <<vItem, vLease, vRow, vIntent, vGithub, vSummary, vAccess, vLock, vFaults>>

\* reserveReviewCheckRunSlot
Reserve(a) ==
  /\ vPc[a] \in {"reserve", "reserveAgain"}
  /\ IF ~VerdictFenced(a) THEN AtPc(a, "dead") /\ UNCHANGED vRow
     ELSE IF Reservable
     THEN /\ vRow' = [vRow EXCEPT !.present = TRUE, !.starting = TRUE,
                                  !.epoch = IF a \in Executions THEN a ELSE @]
          /\ AtPc(a, "create")
     ELSE /\ AtPc(a, IF vPc[a] = "reserve" THEN "recover" ELSE "pendingStatus")
          /\ UNCHANGED vRow
  /\ UNCHANGED <<vItem, vLease, vIntent, vGithub, vSummary, vAccess, vLock, vFaults>>

\* recoverStaleReservationOrWaitForPeer; the wait ends with the peer's id or without.
RecoverReservation(a) ==
  /\ vPc[a] = "recover"
  /\ LET lost == ~vRow.id /\ ~VerdictFenced(a)
         again == ~lost /\ Releasable(a, TRUE)
     IN  /\ vRow' = IF again THEN ReleasedRow ELSE vRow
         /\ AtPc(a, IF lost THEN "dead" ELSE IF again THEN "reserveAgain" ELSE "pendingStatus")
  /\ UNCHANGED <<vItem, vLease, vIntent, vGithub, vSummary, vAccess, vLock, vFaults>>

\* createGithubCheckRunOnSurface up to the call: an accepted start is reused, one
\* without an answer is looked up on GitHub, one a peer is sending is left to it.
CreateCheck(a) ==
  LET found == \/ IntentAccepted("start")
               \/ vIntent["start"] \in {"unknown", "mutating"} /\ vGithub.check # "none"
      peer == \E b \in VerdictActors : vPc[b] = "creating"
  IN  /\ vPc[a] = "create"
      /\ CASE ~VerdictFenced(a) \/ peer -> AtPc(a, "release") /\ UNCHANGED vIntent
           [] VerdictFenced(a) /\ ~peer /\ found ->
                AtPc(a, "record") /\ vIntent' = [vIntent EXCEPT !["start"] = "accepted"]
           [] OTHER -> AtPc(a, "creating") /\ vIntent' = [vIntent EXCEPT !["start"] = "mutating"]
      /\ UNCHANGED <<vItem, vLease, vRow, vGithub, vSummary, vAccess, vLock, vFaults>>

VerdictFault == vFaults < MaxVerdictFaults /\ vFaults' = vFaults + 1

\* The answer of startReviewCheck.
CheckCreated(a) ==
  /\ vPc[a] = "creating"
  /\ \/ /\ vGithub' = [vGithub EXCEPT !.check = "open"]
        /\ vIntent' = [vIntent EXCEPT !["start"] = "accepted"]
        /\ AtPc(a, "record") /\ UNCHANGED vFaults
     \/ /\ VerdictFault /\ vIntent' = [vIntent EXCEPT !["start"] = "failed"]
        /\ AtPc(a, "release") /\ UNCHANGED vGithub
     \/ /\ VerdictFault /\ vIntent' = [vIntent EXCEPT !["start"] = "unknown"]
        /\ AtPc(a, "release")
        /\ \/ vGithub' = [vGithub EXCEPT !.check = "open"]
           \/ UNCHANGED vGithub
  /\ UNCHANGED <<vItem, vLease, vRow, vSummary, vAccess, vLock>>

\* recordCreatedCheckRunOrCleanup: the fence or the database may refuse the id.
RecordCheck(a) ==
  /\ vPc[a] = "record"
  /\ \/ VerdictFenced(a) /\ vRow' = RecordedRow(a) /\ AtPc(a, "pendingStatus") /\ UNCHANGED vFaults
     \/ ~VerdictFenced(a) /\ AtPc(a, "orphan") /\ UNCHANGED <<vRow, vFaults>>
     \/ VerdictFenced(a) /\ VerdictFault /\ AtPc(a, "orphan") /\ UNCHANGED vRow
  /\ UNCHANGED <<vItem, vLease, vIntent, vGithub, vSummary, vAccess, vLock>>

\* cancelOrphanedCheckRunAfterRecordFailure: an execution's surface confirms its
\* lease before the call, the acknowledgement's does not.
cancelOrphanedCheckRunAfterRecordFailure(a) ==
  /\ vPc[a] = "orphan"
  /\ vGithub' = IF VerdictFenced(a)
                THEN [vGithub EXCEPT !.check = "cancelled", !.orphaned = TRUE]
                ELSE vGithub
  /\ AtPc(a, "release")
  /\ UNCHANGED <<vItem, vLease, vRow, vIntent, vSummary, vAccess, vLock, vFaults>>

ReleaseReservation(a) ==
  /\ vPc[a] = "release"
  /\ vRow' = IF VerdictFenced(a) /\ Releasable(a, FALSE) THEN ReleasedRow ELSE vRow
  /\ AtPc(a, IF VerdictFenced(a) THEN "pendingStatus" ELSE "dead")
  /\ UNCHANGED <<vItem, vLease, vIntent, vGithub, vSummary, vAccess, vLock, vFaults>>

-----------------------------------------------------------------------------
(* pending(): the commit status, written once per state *)

AfterPending(a) == IF a = Ack THEN "done" ELSE "review"

WritePendingStatus(a) ==
  LET skip == \/ IntentAccepted("pending") \/ ~vAccess \/ ~VerdictFenced(a)
              \/ vIntent["status"] \in {"mutating", "unknown"}
              \/ \E b \in VerdictActors : vPc[b] = "pendingSent"
  IN  /\ vPc[a] = "pendingStatus"
      /\ IF skip THEN AtPc(a, AfterPending(a)) /\ UNCHANGED vIntent
         ELSE AtPc(a, "pendingSent") /\ vIntent' = [vIntent EXCEPT !["pending"] = "mutating"]
      /\ UNCHANGED <<vItem, vLease, vRow, vGithub, vSummary, vAccess, vLock, vFaults>>

PendingStatusWritten(a) ==
  /\ vPc[a] = "pendingSent"
  /\ \/ /\ vGithub' = [vGithub EXCEPT !.status = "pending"]
        /\ vIntent' = [vIntent EXCEPT !["pending"] = "accepted"] /\ UNCHANGED vFaults
     \/ /\ VerdictFault /\ vIntent' = [vIntent EXCEPT !["pending"] = "failed"] /\ UNCHANGED vGithub
  /\ AtPc(a, AfterPending(a))
  /\ UNCHANGED <<vItem, vLease, vRow, vSummary, vAccess, vLock>>

-----------------------------------------------------------------------------
(* The execution *)

\* publishSummaryOnly records the summary with its verdict fields, then closes.
PublishSummary(a) ==
  /\ vPc[a] = "review" /\ a \in Executions
  /\ \/ /\ VerdictFenced(a)
        /\ \E v \in Published : vSummary' = summaryCommentVerdictMeta(v[1], v[2])
        /\ AtPc(a, "close")
     \/ VerdictFenced(a) /\ vSummary = NoSummary /\ AtPc(a, "closeStale") /\ UNCHANGED vSummary
     \/ ~VerdictFenced(a) /\ AtPc(a, "dead") /\ UNCHANGED vSummary
  /\ UNCHANGED <<vItem, vLease, vRow, vIntent, vGithub, vAccess, vLock, vFaults>>

\* The run that composed the summary knows its outcome; the fields it stored do not
\* change between recording and closing.
OwnOutcome(a) ==
  IF vPc[a] = "claimStale" THEN "stale_head"
  ELSE LET conclusion == IF vSummary.failing THEN "failure"
                         ELSE IF vSummary.incomplete THEN "neutral" ELSE "success"
       IN  closeOutcomeForCoverage(vSummary.reason, conclusion)

Complete(a) ==
  /\ vPc[a] = "complete"
  /\ IF VerdictFenced(a)
     THEN vItem' = (IF vItem = "active" THEN "completed" ELSE vItem) /\ vLease' = 0
     ELSE UNCHANGED <<vItem, vLease>>
  /\ AtPc(a, "done")
  /\ UNCHANGED <<vRow, vIntent, vGithub, vSummary, vAccess, vLock, vFaults>>

-----------------------------------------------------------------------------
(* close(outcome) *)

\* Mutant: a review that died before it selected is not repaired.
SweepLists_SelectedOnly == Selected /\ (vRow.check = "open" \/ vRow.status = "open")

\* listTerminalReviewsWithOpenOwnChecks: a selection with an unresolved surface, a
\* check that was recorded and has no conclusion, or a pending status and no row.
SweepLists ==
  /\ vAccess
  /\ IF Selected THEN \/ vRow.check = "open" /\ vIntent["finish"] # "terminal"
                      \/ vRow.status = "open"
     ELSE \/ vRow.id
          \/ ~vRow.present /\ Applicable({"pending"})

\* repairIfOpen of a terminal item: a selection with an unresolved surface, or none.
\* The sweep's closeOpenOwnVerdict and the CI projection both end in it.
RepairOpen ==
  /\ VerdictTerminal
  /\ IF Selected THEN vRow.check = "open" \/ vRow.status = "open"
     ELSE vIntent["finish"] # "terminal"

\* closeOpenOwnVerdict: the pass leaves alone what is not open or cannot be written.
closeOpenOwnVerdict(a) ==
  /\ vPc[a] = "repair"
  /\ AtPc(a, IF RepairOpen /\ vAccess THEN "close" ELSE "idle")
  /\ UNCHANGED <<vItem, vLease, vRow, vIntent, vGithub, vSummary, vAccess, vLock, vFaults>>

\* withOwnVerdictClose in "try" mode: a contended close gives up.
BeginClose(a) ==
  /\ vPc[a] \in {"close", "closeStale"} \/ (vPc[a] = "idle" /\ RepairOpen)
  /\ IF vLock = {}
     THEN /\ vLock' = {a}
          /\ AtPc(a, IF vPc[a] = "closeStale" THEN "claimStale" ELSE "claim")
     ELSE /\ AtPc(a, IF a \in Repairers THEN "idle" ELSE "complete")
          /\ UNCHANGED vLock
  /\ UNCHANGED <<vItem, vLease, vRow, vIntent, vGithub, vSummary, vAccess, vFaults>>

\* Mutant: every close writes its own selection.
ClaimedRow_Overwrites(a, outcome) ==
  [(IF IntentAccepted("start") /\ ~vRow.id THEN RecordedRow(a) ELSE vRow)
     EXCEPT !.present = TRUE, !.sel = ownVerdictSurfaces(outcome)]

\* What claimOwnVerdict leaves: a saved start is recorded (reconcileSavedOwnVerdictAcceptance)
\* and the first selection stays.
ClaimedRow(a, outcome) ==
  [(IF IntentAccepted("start") /\ ~vRow.id THEN RecordedRow(a) ELSE vRow)
     EXCEPT !.present = TRUE, !.sel = IF Selected THEN @ ELSE ownVerdictSurfaces(outcome)]

claimOwnVerdict(a) ==
  /\ vPc[a] \in {"claim", "claimStale"}
  /\ IF VerdictFenced(a)
     THEN /\ vRow' = ClaimedRow(a, IF a \in Executions THEN OwnOutcome(a)
                                   ELSE resolveOwnVerdictForTerminalReview)
          /\ AtPc(a, "finish") /\ UNCHANGED vLock
     ELSE AtPc(a, "dead") /\ vLock' = vLock \ {a} /\ UNCHANGED vRow
  /\ UNCHANGED <<vItem, vLease, vIntent, vGithub, vSummary, vAccess, vFaults>>

\* Mutant: a peer's reservation does not keep the surface from being skipped.
SkipCheck_Reserved == vRow.check = "open" /\ ~vRow.id /\ ~Applicable({"start", "finish"})

\* The guard of recordOwnVerdictSurfaceState for "skipped-for-this-run".
SkipCheck == vRow.check = "open" /\ ~vRow.id /\ ~vRow.starting /\ ~Applicable({"start", "finish"})

\* completeSelectedCheck up to the call of finishReviewCheck.
completeSelectedCheck(a) ==
  LET settled == vRow.check # "open"
      applicable == vRow.id \/ Applicable({"start", "finish"})
      hasId == \/ vRow.id
               \/ IntentAccepted("start")
               \/ applicable /\ vAccess /\ vGithub.check # "none"
      row == IF hasId THEN RecordedRow(a) ELSE vRow
  IN  /\ vPc[a] = "finish"
      /\ \/ /\ settled \/ vIntent["finish"] = "terminal"
            /\ AtPc(a, "status") /\ UNCHANGED <<vRow, vIntent, vLock>>
         \/ /\ ~settled /\ ~VerdictFenced(a)
            /\ AtPc(a, "dead") /\ vLock' = vLock \ {a} /\ UNCHANGED <<vRow, vIntent>>
         \/ /\ ~settled /\ VerdictFenced(a) /\ IntentAccepted("finish")
            /\ vRow' = [vRow EXCEPT !.check = "applied"]
            /\ AtPc(a, "status") /\ UNCHANGED <<vIntent, vLock>>
         \/ /\ ~settled /\ VerdictFenced(a) /\ vIntent["finish"] \notin {"accepted", "terminal"}
            /\ IF vAccess /\ hasId
               THEN /\ vRow' = row
                    /\ vIntent' = [vIntent EXCEPT !["finish"] = "mutating"]
                    /\ AtPc(a, "finishing")
               ELSE /\ vRow' = row
                    /\ AtPc(a, IF applicable THEN "status" ELSE "skip") /\ UNCHANGED vIntent
            /\ UNCHANGED vLock
      /\ UNCHANGED <<vItem, vLease, vGithub, vSummary, vAccess, vFaults>>

\* The "skipped-for-this-run" that completeSelectedCheck records when nothing was started.
RecordSkipped(a) ==
  /\ vPc[a] = "skip"
  /\ vRow' = IF VerdictFenced(a) /\ SkipCheck THEN [vRow EXCEPT !.check = "skipped"] ELSE vRow
  /\ AtPc(a, "status")
  /\ UNCHANGED <<vItem, vLease, vIntent, vGithub, vSummary, vAccess, vLock, vFaults>>

\* applyReviewCheckRunCompletion: the answer, then the receipt, which the fence may refuse.
CheckFinished(a) ==
  /\ vPc[a] = "finishing"
  /\ \/ /\ vGithub' = [vGithub EXCEPT !.check = vRow.sel.check]
        /\ vIntent' = [vIntent EXCEPT !["finish"] = "accepted"]
        /\ AtPc(a, "finished") /\ UNCHANGED vFaults
     \/ /\ VerdictFault /\ vIntent' = [vIntent EXCEPT !["finish"] = "failed"]
        /\ AtPc(a, "status") /\ UNCHANGED vGithub
     \/ /\ VerdictFault /\ vIntent' = [vIntent EXCEPT !["finish"] = "unknown"]
        /\ AtPc(a, "status")
        /\ \/ vGithub' = [vGithub EXCEPT !.check = vRow.sel.check]
           \/ UNCHANGED vGithub
  /\ UNCHANGED <<vItem, vLease, vRow, vSummary, vAccess, vLock>>

\* recordOwnVerdictSurfaceApplied
RecordSurfaceApplied(a) ==
  /\ vPc[a] \in {"finished", "stated"}
  /\ vRow' = IF ~VerdictFenced(a) THEN vRow
             ELSE IF vPc[a] = "finished" THEN [vRow EXCEPT !.check = "applied"]
             ELSE [vRow EXCEPT !.status = "applied"]
  /\ AtPc(a, IF vPc[a] = "finished" THEN "status" ELSE "unlock")
  /\ UNCHANGED <<vItem, vLease, vIntent, vGithub, vSummary, vAccess, vLock, vFaults>>

\* The rest of closeReviewVerdict with writeOwnCommitStatus up to its call.
WriteVerdictStatus(a) ==
  LET send == vAccess /\ VerdictFenced(a) /\ ~IntentAccepted("status")
      skip == ~vAccess /\ ~Applicable({"pending", "status"}) /\ VerdictFenced(a)
  IN  /\ vPc[a] = "status"
      /\ IF vRow.status # "open"
         THEN AtPc(a, "unlock") /\ UNCHANGED <<vRow, vIntent>>
         ELSE /\ vIntent' = [vIntent EXCEPT !["status"] = IF send THEN "mutating" ELSE @]
              /\ vRow' = [vRow EXCEPT !.status = IF skip THEN "skipped" ELSE @]
              /\ AtPc(a, IF send THEN "stating" ELSE IF IntentAccepted("status") THEN "stated" ELSE "unlock")
      /\ UNCHANGED <<vItem, vLease, vGithub, vSummary, vAccess, vLock, vFaults>>

VerdictStatusWritten(a) ==
  /\ vPc[a] = "stating"
  /\ \/ /\ vGithub' = [vGithub EXCEPT !.status = vRow.sel.status]
        /\ vIntent' = [vIntent EXCEPT !["status"] = "accepted"]
        /\ AtPc(a, "stated") /\ UNCHANGED vFaults
     \/ /\ VerdictFault /\ vIntent' = [vIntent EXCEPT !["status"] = "unknown"]
        /\ AtPc(a, "unlock")
        /\ \/ vGithub' = [vGithub EXCEPT !.status = vRow.sel.status]
           \/ UNCHANGED vGithub
  /\ UNCHANGED <<vItem, vLease, vRow, vSummary, vAccess, vLock>>

UnlockClose(a) ==
  /\ vPc[a] = "unlock"
  /\ vLock' = vLock \ {a}
  /\ AtPc(a, IF a \in Repairers THEN "idle" ELSE "complete")
  /\ UNCHANGED <<vItem, vLease, vRow, vIntent, vGithub, vSummary, vAccess, vFaults>>

-----------------------------------------------------------------------------
(* Around the verdict *)

\* The process dies; the session lock goes with its connection, a request in flight
\* may still have been applied.
VerdictCrash(a) ==
  /\ vPc[a] \notin {"idle", "done", "dead"} /\ (vPc[a] = "begin" => vLease = a)
  /\ VerdictFault
  /\ AtPc(a, IF a \in Repairers THEN "idle" ELSE "dead")
  /\ vLock' = vLock \ {a}
  /\ \/ UNCHANGED vGithub
     \/ vPc[a] = "creating" /\ vGithub' = [vGithub EXCEPT !.check = "open"]
     \/ vPc[a] = "finishing" /\ vGithub' = [vGithub EXCEPT !.check = vRow.sel.check]
     \/ vPc[a] = "stating" /\ vGithub' = [vGithub EXCEPT !.status = vRow.sel.status]
     \/ vPc[a] = "pendingSent" /\ vGithub' = [vGithub EXCEPT !.status = "pending"]
  /\ UNCHANGED <<vItem, vLease, vRow, vIntent, vSummary, vAccess>>

\* The lease moves to the next execution; the old one may still run.
TakeOverLease ==
  /\ vItem = "active" /\ vLease \in 1 .. LastEpoch - 1
  /\ vLease' = vLease + 1
  /\ UNCHANGED <<vItem, vRow, vIntent, vGithub, vSummary, vAccess, vLock, vPc, vFaults>>

CancelVerdictReview ==
  /\ vItem = "active" /\ vItem' = "cancelled"
  /\ UNCHANGED <<vLease, vRow, vIntent, vGithub, vSummary, vAccess, vLock, vPc, vFaults>>

\* reconcileLostRunningWork after the last execution died: the pass that marks the
\* review failed goes on to close its verdict.
FailLostReview(a) ==
  /\ vItem = "active" /\ vLease = LastEpoch /\ vPc[LastEpoch] = "dead"
  /\ a \in Repairers /\ vPc[a] = "idle" /\ AtPc(a, "repair")
  /\ vItem' = "failed" /\ vLease' = 0
  /\ UNCHANGED <<vRow, vIntent, vGithub, vSummary, vAccess, vLock, vFaults>>

AccessChanges ==
  /\ VerdictFault /\ vAccess' = ~vAccess
  /\ UNCHANGED <<vItem, vLease, vRow, vIntent, vGithub, vSummary, vLock, vPc>>

\* A later close finds no evidence of an unanswered finish: unknownResolution terminal.
GiveUpFinish ==
  /\ vIntent["finish"] = "unknown" /\ vLock = {}
  /\ vIntent' = [vIntent EXCEPT !["finish"] = "terminal"]
  /\ UNCHANGED <<vItem, vLease, vRow, vGithub, vSummary, vAccess, vLock, vPc, vFaults>>

VerdictStep(a) ==
  \/ EnsureStarted(a) \/ Reserve(a) \/ RecoverReservation(a) \/ CreateCheck(a) \/ CheckCreated(a)
  \/ RecordCheck(a) \/ cancelOrphanedCheckRunAfterRecordFailure(a) \/ ReleaseReservation(a)
  \/ WritePendingStatus(a) \/ PendingStatusWritten(a) \/ PublishSummary(a) \/ Complete(a)
  \/ BeginClose(a) \/ closeOpenOwnVerdict(a) \/ claimOwnVerdict(a) \/ completeSelectedCheck(a) \/ RecordSkipped(a)
  \/ CheckFinished(a)
  \/ RecordSurfaceApplied(a) \/ WriteVerdictStatus(a) \/ VerdictStatusWritten(a) \/ UnlockClose(a)

\* Processes take their next step and the diagnostics pass comes back; of the closers
\* without a lease only that pass is sure to run again, on what it lists.
VerdictSure(a) == VerdictStep(a) /\ (vPc[a] = "idle" => SweepLists)

VerdictNext ==
  \/ \E a \in VerdictActors : VerdictStep(a) \/ VerdictCrash(a) \/ FailLostReview(a)
  \/ TakeOverLease \/ CancelVerdictReview \/ AccessChanges \/ GiveUpFinish

VerdictSpec == VerdictInit /\ [][VerdictNext]_verdictVars

-----------------------------------------------------------------------------
(* Properties *)

\* The verdict surfaces and the intents keep to the values the code knows, and the
\* close lock has at most one holder.
VerdictTypeOK ==
  /\ vItem \in {"active", "completed", "failed", "cancelled"}
  /\ vLease \in 0 .. LastEpoch
  /\ vRow.check \in {"open", "applied", "skipped"} /\ vRow.status \in {"open", "applied", "skipped"}
  /\ vRow.sel.check \in {"none", "success", "failure", "neutral", "cancelled", "action_required"}
  /\ vRow.sel.status \in {"none", "success", "failure", "error"}
  /\ \A k \in DOMAIN vIntent :
       vIntent[k] \in {"none", "mutating", "accepted", "failed", "unknown", "terminal"}
  /\ vGithub.status \in {"none", "pending", "success", "failure", "error"}
  /\ vLock \subseteq VerdictActors /\ Cardinality(vLock) <= 1
  /\ DOMAIN vPc = VerdictActors /\ vFaults \in 0 .. MaxVerdictFaults

\* However many closers run with however many outcomes, GitHub shows no verdict but
\* the selected one: the check and the status never disagree.  Only the cancellation
\* of a check whose id could not be recorded is outside the selection.
SurfacesAgree ==
  /\ vGithub.check \in {"none", "open", vRow.sel.check} \/ vGithub.orphaned
  /\ vGithub.status \in {"none", "pending", vRow.sel.status}

\* "Skipped for this run" is final, so it is only recorded when no check of this
\* review is or will be on GitHub.
SkippedHasNoCheck ==
  vRow.check = "skipped" =>
    /\ vGithub.check = "none"
    /\ \A a \in VerdictActors : vPc[a] \notin {"create", "creating", "record"}

\* A check recorded as applied is closed on GitHub: nobody will look at it again.
AppliedIsClosed == vRow.check = "applied" => vGithub.check \notin {"none", "open"}

\* No verdict is selected while the review may still run without the lease's consent:
\* an unleased closer selects only for a terminal item, and for a completed one what
\* the run that published the summary would have selected itself.
RepairSelectsIntended ==
  [][(~Selected /\ Selected') =>
       \/ \E a \in Executions : vPc[a] \in {"claim", "claimStale"} /\ vPc'[a] = "finish"
       \/ /\ VerdictTerminal
          /\ (vItem = "completed" /\ vSummary # NoSummary) =>
               \E v \in Published :
                 /\ vSummary = summaryCommentVerdictMeta(v[1], v[2])
                 /\ vRow.sel' = ownVerdictSurfaces(closeOutcomeForCoverage(v[1], v[2]))]_verdictVars

CheckClosed == vGithub.check # "open" \/ vIntent["finish"] = "terminal" \/ ~vAccess

\* Once its check is recorded or its verdict selected, a terminal review does not leave
\* the check in progress: the sweep finds it again after every failure, unless the
\* answer was given up or the installation lost its access.
VerdictCloses == (VerdictTerminal /\ (vRow.id \/ Selected)) ~> CheckClosed

\* ADR 0034: a required check does not stay in progress after a lost worker.
NoCheckLeftOpen == VerdictTerminal ~> CheckClosed

\* What reviewVerdict.ts promises of one review's check and status, whoever dies on the
\* way: both show the selected verdict, a skipped check was never created, an applied one
\* is closed, and a repair selects what the published summary says.
VerdictSound ==
  /\ [](VerdictTypeOK /\ SurfacesAgree /\ SkippedHasNoCheck /\ AppliedIsClosed)
  /\ RepairSelectsIntended

=============================================================================
