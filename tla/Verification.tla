---------------------------- MODULE Verification ----------------------------
(***************************************************************************)
(* Verification of one pull request's open finding threads: the inventory, *)
(* the answers to objections, the thread operations (stub, receipt,        *)
(* resolve), the thread ledger and the failure signal.  A run that loses   *)
(* its lease is overtaken by the next one and goes on until a fenced write *)
(* refuses it.                                                             *)
(*                                                                         *)
(* A thread has at most one objection at a time; an edit makes a new       *)
(* revision of it.  A verdict "fixed" also stands for "already-resolved",  *)
(* a decision "answered" for conceded and held.                            *)
(***************************************************************************)
EXTENDS Naturals, FiniteSets

CONSTANTS
  FindingThreads,  \* root comments of the bot's findings
  MaxVerifyRuns,   \* attempts over all work items (a bound)
  FirstRevisions,  \* revisions of the objection a thread may start with; 0: no objection
  MaxVerifyMoves   \* edits and deletions of one objection and pushes together (a bound)

ASSUME VerificationAssumption ==
  /\ FindingThreads # {} /\ IsFiniteSet(FindingThreads)
  /\ MaxVerifyRuns \in Nat /\ MaxVerifyMoves \in Nat /\ FirstRevisions \subseteq 0..MaxVerifyMoves

VARIABLES
  vfRun,     \* per run: the locals of execute and publishVerification
  vfLease,   \* the run that holds the pull request's lease (0: nobody)
  vfLock,    \* the run that holds the thread mutation lock (0: nobody)
  vfThread,  \* the threads on GitHub
  vfIntent,  \* operation intents per work item and thread
  vfLedger,  \* the verification_thread_actions record
  vfSignal,  \* the verification_failure record: the head it is active for (0: none)
  vfHead     \* the pull request's head

verificationVars == <<vfRun, vfLease, vfLock, vfThread, vfIntent, vfLedger, vfSignal, vfHead>>

VerifyRuns == 1..MaxVerifyRuns
Revisions == 1..MaxVerifyMoves
FindingVerdicts == {"fixed", "dismissed", "skipped"}
NoStub == [verdict |-> "none", item |-> 0]
NoThreadState == [verdict |-> "none", item |-> 0, stub |-> FALSE, terminal |-> FALSE, journal |-> {}]
NoLedger == [threads |-> [t \in FindingThreads |-> NoThreadState], failureSignal |-> 0]
NoIntent == [state |-> "none", verdict |-> "none", needsStub |-> FALSE, receipts |-> {}]
NotStarted == [at |-> "idle", item |-> 0, head |-> 0, todo |-> {}, mapped |-> {}, stubbed |-> {},
               seen |-> [t \in FindingThreads |-> 0], ledger |-> NoLedger, thread |-> "none",
               verdict |-> "none", decision |-> "none", writesStub |-> FALSE, journal |-> {}]
VerifyEnded == {"published", "stale", "skipped", "terminal"}
RunAt(r, place) == vfRun' = [vfRun EXCEPT ![r].at = place]
NoThread(run) == [run EXCEPT !.thread = "none", !.verdict = "none", !.decision = "none",
                             !.writesStub = FALSE, !.journal = {}]

\* The locals go with the call that held them.
Left(run, place) == [NotStarted EXCEPT !.at = place, !.item = run.item, !.head = run.head]
LeavesAt(r, place) == vfRun' = [vfRun EXCEPT ![r] = Left(@, place)]
Holds(r) == vfLease = r

\* Bound: the last run keeps its lease, and none of its calls is lost or refused.
MayFail(r) == r < MaxVerifyRuns

-----------------------------------------------------------------------------
(* Inventory *)

UnresolvedThreads == {t \in FindingThreads : ~vfThread[t].resolved}

\* The revision of the objection that no bot comment of the thread answers, 0 if none.
selectFindingObjections(t) ==
  IF vfThread[t].rev > 0 /\ vfThread[t].answers[vfThread[t].rev] = 0 THEN vfThread[t].rev ELSE 0

dropJournaledNonObjections(t, rev) ==
  IF <<rev, "not_objection">> \in vfLedger.threads[t].journal THEN 0 ELSE rev

\* The objections a run is shown: none when the comments were listed in part, and at
\* most VERIFICATION_MAX_OBJECTION_ANSWERS_PER_RUN, the others wait for a later run.
capObjectionAnswers(open) ==
  {[t \in FindingThreads |-> IF t \in shown THEN open[t] ELSE 0] : shown \in SUBSET FindingThreads}

\* escalatedVerificationInventory: a retry may look at the first threads only.
Narrowed(threads, retry) == IF retry THEN SUBSET threads \ {{}} ELSE {threads}

\* A run starts once the one before it has ended or has lost its lease: the next
\* attempt of the same work item, or the work item of a later push.  A thread whose
\* resolution the listing lacks is not mapped.
executeVerification(r, retry) ==
  LET before == vfRun[r - 1]
      item == IF r = 1 THEN 1 ELSE IF retry THEN before.item ELSE before.item + 1
      open == [t \in FindingThreads |-> dropJournaledNonObjections(t, selectFindingObjections(t))]
  IN  /\ vfRun[r].at = "idle"
      /\ r > 1 => before.at # "idle" /\ (vfLease = 0 \/ before.at \in VerifyEnded \cup {"thrown"})
      /\ retry => r > 1 /\ before.at \notin VerifyEnded
      /\ vfLease' = r
      /\ \E mapped \in {UnresolvedThreads, {}} :
           IF UnresolvedThreads = {}
             THEN vfRun' = [vfRun EXCEPT ![r] = [NotStarted EXCEPT !.at = "clear_gate", !.item = item,
                              !.head = IF retry THEN before.head ELSE vfHead]]
           ELSE \E threads \in Narrowed(UnresolvedThreads, retry), seen \in capObjectionAnswers(open) :
                  vfRun' = [vfRun EXCEPT ![r] = [NotStarted EXCEPT
                    !.at = "gate", !.item = item, !.head = IF retry THEN before.head ELSE vfHead,
                    !.todo = threads, !.mapped = mapped,
                    !.stubbed = {t \in threads : vfThread[t].stub # NoStub},
                    !.seen = [t \in FindingThreads |-> IF t \in threads THEN seen[t] ELSE 0]]]
      /\ UNCHANGED <<vfLock, vfThread, vfIntent, vfLedger, vfSignal, vfHead>>

\* The lease of a run that stalls or dies expires; its session keeps a lock it has
\* for as long as the process lives.
VerifyLeaseExpires(r) ==
  /\ Holds(r) /\ vfRun[r].at \notin VerifyEnded /\ MayFail(r)
  /\ vfLease' = 0
  /\ UNCHANGED <<vfRun, vfLock, vfThread, vfIntent, vfLedger, vfSignal, vfHead>>

\* checkCompletionGate: aborted, superseded or without its lease, then the head;
\* publishVerification begins by loading the ledger.
checkCompletionGate(r) ==
  LET run == vfRun[r]
  IN  /\ run.at \in {"gate", "clear_gate"}
      /\ vfRun' = [vfRun EXCEPT ![r] =
           CASE ~Holds(r) -> Left(run, "skipped")
             [] Holds(r) /\ run.head # vfHead -> Left(run, "stale")
             [] OTHER -> IF run.at = "gate" THEN [run EXCEPT !.at = "next", !.ledger = vfLedger]
                         ELSE Left(run, "clear")]
      /\ UNCHANGED <<vfLease, vfLock, vfThread, vfIntent, vfLedger, vfSignal, vfHead>>

-----------------------------------------------------------------------------
(* One thread: its lock and the answer to its objection *)

lockFree == vfLock = 0

\* One verdict of every thread of the inventory and one decision of every objection
\* shown (validateVerificationVerdicts); without an answer to give and without a
\* changed file a skipped thread takes no lock.
takeThread(r, t, verdict, decision, writesStub) ==
  LET run == vfRun[r]
  IN  /\ run.at = "next" /\ t \in run.todo /\ lockFree
      /\ (decision = "none") <=> (run.seen[t] = 0)
      /\ verdict = "skipped" \/ (t \in run.mapped /\ writesStub)
      /\ writesStub \/ decision = "answered"
      /\ vfLock' = r
      /\ vfRun' = [vfRun EXCEPT ![r].at = IF decision = "none" THEN "operation" ELSE "snapshot",
                     ![r].todo = @ \ {t}, ![r].thread = t, ![r].verdict = verdict,
                     ![r].decision = decision, ![r].writesStub = writesStub, ![r].journal = {}]
      /\ UNCHANGED <<vfLease, vfThread, vfIntent, vfLedger, vfSignal, vfHead>>

\* A verdict that would resolve a thread whose resolution is not known is dropped, and
\* a skipped thread with nothing to write is passed over.
passOver(r, t) ==
  LET run == vfRun[r]
  IN  /\ run.at = "next" /\ t \in run.todo /\ (t \notin run.mapped \/ run.seen[t] = 0)
      /\ vfRun' = [vfRun EXCEPT ![r].todo = @ \ {t}]
      /\ UNCHANGED <<vfLease, vfLock, vfThread, vfIntent, vfLedger, vfSignal, vfHead>>

\* The objection of such a thread was none: the journal alone is written.
journalQuietly(r, t) ==
  LET run == vfRun[r]
  IN  /\ run.at = "next" /\ t \in run.todo /\ run.seen[t] # 0
      /\ vfRun' = [vfRun EXCEPT ![r].at = "persist_journal", ![r].todo = @ \ {t}, ![r].thread = t,
                     ![r].verdict = "skipped", ![r].decision = "not_objection",
                     ![r].journal = {<<run.seen[t], "not_objection">>}]
      /\ UNCHANGED <<vfLease, vfLock, vfThread, vfIntent, vfLedger, vfSignal, vfHead>>

Unlocked(r) == vfLock' = IF vfLock = r THEN 0 ELSE vfLock

\* Mutant: the answer of an earlier run in the snapshot is not looked for.
existingAnswerCommentId_None(t, rev) == FALSE

existingAnswerCommentId(t, rev) == vfThread[t].answers[rev] > 0

\* postObjectionAnswers up to the first answer; complete is snapshot.commentsComplete.
\* An objection that was edited since is left with its whole thread, one that was
\* deleted is left alone.
postObjectionAnswers(r, complete) ==
  LET run == vfRun[r]
      t == run.thread
      rev == run.seen[t]
      readable == complete /\ t \in run.mapped /\ ~vfThread[t].resolved
      goOn == [vfRun EXCEPT ![r].at = "operation"]
  IN  /\ run.at = "snapshot"
      /\ \/ /\ run.decision = "not_objection"
            /\ vfRun' = [goOn EXCEPT ![r].journal = {<<rev, "not_objection">>}]
            /\ UNCHANGED vfLock
         \/ /\ run.decision = "answered" /\ (~readable \/ vfThread[t].rev = 0)
            /\ vfRun' = goOn /\ UNCHANGED vfLock
         \/ /\ run.decision = "answered" /\ readable /\ vfThread[t].rev \notin {0, rev}
            /\ vfRun' = [vfRun EXCEPT ![r] = NoThread([@ EXCEPT !.at = "next"])] /\ Unlocked(r)
         \/ /\ run.decision = "answered" /\ readable /\ vfThread[t].rev = rev
            /\ vfRun' = IF existingAnswerCommentId(t, rev)
                          THEN [goOn EXCEPT ![r].journal = {<<rev, "answered">>}]
                        ELSE [vfRun EXCEPT ![r].at = "answer"]
            /\ UNCHANGED vfLock
      /\ UNCHANGED <<vfLease, vfThread, vfIntent, vfLedger, vfSignal, vfHead>>

-----------------------------------------------------------------------------
(* Operation intents.  An intent that is open was claimed and has no result *)

\* Mutant: a send left open is made again.
MayClaim_Open == {"none", "refused", "open"}

\* Intents a run may send for: new ones, and those GitHub is known to have refused.
MayClaim == {"none", "refused"}

AnswerIntent(r) == vfIntent[vfRun[r].item][vfRun[r].thread].answer[vfRun[r].seen[vfRun[r].thread]]

AnswerBecomes(r, state) ==
  LET run == vfRun[r]
  IN  vfIntent' = [vfIntent EXCEPT ![run.item][run.thread].answer[run.seen[run.thread]] = state]

Operation(r) == vfIntent[vfRun[r].item][vfRun[r].thread].op

OperationBecomes(r, op) == vfIntent' = [vfIntent EXCEPT ![vfRun[r].item][vfRun[r].thread].op = op]

\* The run stops; the finally of the session lock releases it.
Throws(r) == LeavesAt(r, "thrown") /\ Unlocked(r)
EndsUnknown(r) == LeavesAt(r, "unknown") /\ Unlocked(r)

Answered(r) ==
  /\ vfRun' = [vfRun EXCEPT ![r].at = "operation",
                 ![r].journal = {<<vfRun[r].seen[vfRun[r].thread], "answered">>}]
  /\ UNCHANGED vfLock

\* Mutant: a send that was claimed is taken for an answer.
recoverObjectionAnswer_Assumed(r) == TRUE

\* Any comment of the bot that carries the answer's marker.
recoverObjectionAnswer(r) == vfThread[vfRun[r].thread].answers[vfRun[r].seen[vfRun[r].thread]] > 0

\* publishOnce of an answer: a retained result is taken, an open one is looked for and
\* never posted again; listed is FALSE when the comments could not all be read.
publishObjectionAnswer(r, listed) ==
  /\ vfRun[r].at = "answer"
  /\ \/ ~Holds(r) /\ Throws(r) /\ UNCHANGED vfIntent
     \/ Holds(r) /\ AnswerIntent(r) \in MayClaim
        /\ AnswerBecomes(r, "open") /\ RunAt(r, "reply") /\ UNCHANGED vfLock
     \/ Holds(r) /\ AnswerIntent(r) = "done" /\ Answered(r) /\ UNCHANGED vfIntent
     \/ Holds(r) /\ AnswerIntent(r) = "terminal" /\ EndsUnknown(r) /\ UNCHANGED vfIntent
     \/ /\ Holds(r) /\ AnswerIntent(r) = "open"
        /\ \/ listed /\ recoverObjectionAnswer(r) /\ AnswerBecomes(r, "done") /\ Answered(r)
           \/ listed /\ ~recoverObjectionAnswer(r) /\ AnswerBecomes(r, "terminal") /\ EndsUnknown(r)
           \/ ~listed /\ Throws(r) /\ UNCHANGED vfIntent
  /\ UNCHANGED <<vfLease, vfThread, vfLedger, vfSignal, vfHead>>

\* The request leaves after the claim: no fence covers it.  Its answer may be lost, and
\* then it was accepted or not.
replyAt(r) ==
  LET run == vfRun[r]
      posted == [vfThread EXCEPT ![run.thread].answers[run.seen[run.thread]] = @ + 1]
  IN  /\ run.at = "reply"
      /\ \/ vfThread' = posted /\ RunAt(r, "reply_settle")
         \/ MayFail(r) /\ vfThread' \in {posted, vfThread} /\ RunAt(r, "reply_lost")
      /\ UNCHANGED <<vfLease, vfLock, vfIntent, vfLedger, vfSignal, vfHead>>

\* Mutant: receipts and records are written without the lease's fence.
Fenced_Unchecked(r) == TRUE

\* Receipts and records are written under the lease epoch.
Fenced(r) == Holds(r)

\* The result is kept, or looked for after an error; what is not found stays open.
replySettles(r) ==
  /\ vfRun[r].at \in {"reply_settle", "reply_lost"}
  /\ IF Fenced(r) /\ (vfRun[r].at = "reply_settle" \/ recoverObjectionAnswer(r))
       THEN AnswerBecomes(r, "done") /\ Answered(r)
     ELSE Throws(r) /\ UNCHANGED vfIntent
  /\ UNCHANGED <<vfLease, vfThread, vfLedger, vfSignal, vfHead>>

\* GitHub refuses the reply outright (isKnownNoAcceptanceMutationError).
replyRefused(r) ==
  /\ vfRun[r].at = "reply" /\ MayFail(r) /\ Throws(r)
  /\ IF Fenced(r) THEN AnswerBecomes(r, "refused") ELSE UNCHANGED vfIntent
  /\ UNCHANGED <<vfLease, vfThread, vfLedger, vfSignal, vfHead>>

-----------------------------------------------------------------------------
(* The thread operation: stub, root receipt, resolve *)

knowsStub(r) == vfRun[r].ledger.threads[vfRun[r].thread].stub \/ vfRun[r].thread \in vfRun[r].stubbed

needsStub(r) ==
  IF Operation(r).state # "none" THEN Operation(r).needsStub
  ELSE vfRun[r].verdict # "fixed" \/ knowsStub(r)

\* Mutant: recovery is content with the stub.
recoverVerificationMutation_StubOnly(r, worded) ==
  vfThread[vfRun[r].thread].stub = [verdict |-> vfRun[r].verdict, item |-> vfRun[r].item]

\* The ledger's completion receipt, or for the stub and the resolution each a receipt
\* of the call or what GitHub shows: the stub with the operation's marker and this
\* run's very words, the thread resolved.
recoverVerificationMutation(r, worded) ==
  LET run == vfRun[r]
      thread == vfThread[run.thread]
      completed == vfLedger.threads[run.thread]
      stubProven == \/ ~needsStub(r) \/ "stub" \in Operation(r).receipts
                    \/ worded /\ thread.stub = [verdict |-> run.verdict, item |-> run.item]
      resolved == run.verdict = "skipped" \/ "resolve" \in Operation(r).receipts \/ thread.resolved
  IN  \/ completed.item = run.item /\ completed.verdict = run.verdict
      \/ stubProven /\ resolved

Operated(r) == RunAt(r, "persist") /\ Unlocked(r)

\* The claim.  An intent retained for another verdict ends the work item, and so does
\* an open one of which there is no evidence; listed is FALSE when the comments or
\* threads could not all be read, worded TRUE when the stub would read the same.
withVerificationThreadOperation(r, listed, worded) ==
  LET run == vfRun[r]
      op == Operation(r)
      claimed == [op EXCEPT !.state = "open", !.verdict = run.verdict, !.needsStub = needsStub(r)]
      agrees == op.state = "none" \/ op.verdict = run.verdict
      found == recoverVerificationMutation(r, worded)
  IN  /\ run.at = "operation" /\ run.writesStub
      /\ run.verdict = "fixed" => worded
      /\ \/ ~agrees /\ EndsUnknown(r) /\ UNCHANGED vfIntent
         \/ agrees /\ ~Holds(r) /\ Throws(r) /\ UNCHANGED vfIntent
         \/ /\ agrees /\ Holds(r) /\ op.state \in MayClaim
            /\ OperationBecomes(r, claimed)
            /\ RunAt(r, IF needsStub(r) THEN "stub" ELSE "resolve") /\ UNCHANGED vfLock
         \/ agrees /\ Holds(r) /\ op.state = "done" /\ Operated(r) /\ UNCHANGED vfIntent
         \/ agrees /\ Holds(r) /\ op.state = "terminal" /\ EndsUnknown(r) /\ UNCHANGED vfIntent
         \/ /\ agrees /\ Holds(r) /\ op.state = "open"
            /\ \/ found /\ OperationBecomes(r, [op EXCEPT !.state = "done"]) /\ Operated(r)
               \/ ~found /\ listed /\ OperationBecomes(r, [op EXCEPT !.state = "terminal"]) /\ EndsUnknown(r)
               \/ ~found /\ ~listed /\ Throws(r) /\ UNCHANGED vfIntent
      /\ UNCHANGED <<vfLease, vfThread, vfLedger, vfSignal, vfHead>>

\* A thread kept open in a file nobody changed gets no stub, only its answer.
journalAnswer(r) ==
  LET run == vfRun[r]
  IN  /\ run.at = "operation" /\ ~run.writesStub
      /\ vfRun' = [vfRun EXCEPT ![r] = IF run.journal = {} THEN NoThread([run EXCEPT !.at = "next"])
                                      ELSE [run EXCEPT !.at = "persist_journal"]]
      /\ Unlocked(r)
      /\ UNCHANGED <<vfLease, vfThread, vfIntent, vfLedger, vfSignal, vfHead>>

\* The stub is edited or created; the edit of a fixed thread's stub may find it gone.
upsertStubComment(r) ==
  LET run == vfRun[r]
      written == [vfThread EXCEPT
        ![run.thread].stub = [verdict |-> run.verdict, item |-> run.item],
        ![run.thread].sent[run.item] = @ + 1]
  IN  /\ run.at = "stub"
      /\ \/ vfThread' = written /\ RunAt(r, "stub_settle")
         \/ run.verdict = "fixed" /\ UNCHANGED vfThread /\ RunAt(r, "stub_settle")
         \/ MayFail(r) /\ vfThread' \in {written, vfThread} /\ RunAt(r, "lost")
      /\ UNCHANGED <<vfLease, vfLock, vfIntent, vfLedger, vfSignal, vfHead>>

\* The receipt of the call, then the next one.
stubSettles(r) ==
  /\ vfRun[r].at = "stub_settle"
  /\ IF Fenced(r)
       THEN /\ OperationBecomes(r, [Operation(r) EXCEPT !.receipts = @ \cup {"stub"}])
            /\ RunAt(r, IF vfRun[r].verdict = "skipped" THEN "op_settle" ELSE "resolve")
            /\ UNCHANGED vfLock
     ELSE Throws(r) /\ UNCHANGED vfIntent
  /\ UNCHANGED <<vfLease, vfThread, vfLedger, vfSignal, vfHead>>

\* Without a stub the finding's root gets the receipt first.
resolveInlineReviewThread(r) ==
  LET run == vfRun[r]
      done == [vfThread EXCEPT
        ![run.thread].resolved = TRUE, ![run.thread].everResolved = TRUE,
        ![run.thread].sent[run.item] = IF needsStub(r) THEN @ ELSE @ + 1]
  IN  /\ run.at = "resolve"
      /\ \/ vfThread' = done /\ RunAt(r, "resolve_settle")
         \/ MayFail(r) /\ vfThread' \in {done, vfThread} /\ RunAt(r, "lost")
      /\ UNCHANGED <<vfLease, vfLock, vfIntent, vfLedger, vfSignal, vfHead>>

\* The receipt of the resolution.
resolveSettles(r) ==
  /\ vfRun[r].at = "resolve_settle"
  /\ IF Fenced(r)
       THEN /\ OperationBecomes(r, [Operation(r) EXCEPT !.receipts = @ \cup {"resolve"}])
            /\ RunAt(r, "op_settle") /\ UNCHANGED vfLock
     ELSE Throws(r) /\ UNCHANGED vfIntent
  /\ UNCHANGED <<vfLease, vfThread, vfLedger, vfSignal, vfHead>>

\* GitHub refuses a call.  Before anything was accepted the intent may be claimed again;
\* a refused resolution after the stub stays open and ends the work item.
operationRefused(r) ==
  /\ vfRun[r].at \in {"stub", "resolve"} /\ MayFail(r)
  /\ IF vfRun[r].at = "stub" \/ ~needsStub(r)
       THEN /\ Throws(r)
            /\ IF Fenced(r) THEN OperationBecomes(r, [Operation(r) EXCEPT !.state = "refused"])
               ELSE UNCHANGED vfIntent
     ELSE EndsUnknown(r) /\ UNCHANGED vfIntent
  /\ UNCHANGED <<vfLease, vfThread, vfLedger, vfSignal, vfHead>>

\* The operation's result is kept, or looked for after an error.
operationSettles(r) ==
  /\ vfRun[r].at \in {"op_settle", "lost"}
  /\ IF Fenced(r) /\ (vfRun[r].at = "op_settle" \/ recoverVerificationMutation(r, TRUE))
       THEN OperationBecomes(r, [Operation(r) EXCEPT !.state = "done"]) /\ Operated(r)
     ELSE Throws(r) /\ UNCHANGED vfIntent
  /\ UNCHANGED <<vfLease, vfThread, vfLedger, vfSignal, vfHead>>

-----------------------------------------------------------------------------
(* The ledger *)

withObjectionJournal(prior, journal) == prior \cup journal

\* The state of one thread; a journal alone leaves the rest of it.
ThreadState(r) ==
  LET run == vfRun[r]
      prior == run.ledger.threads[run.thread]
      journal == withObjectionJournal(prior.journal, run.journal)
  IN  IF run.at = "persist_journal"
        THEN [prior EXCEPT !.journal = journal, !.verdict = IF @ = "none" THEN "skipped" ELSE @]
      ELSE [verdict |-> run.verdict, item |-> run.item, stub |-> knowsStub(r) \/ run.verdict # "fixed",
            terminal |-> run.verdict # "skipped", journal |-> journal]

\* The whole ledger the run loaded and kept up to date is written back.
persistThreadState(r) ==
  LET next == [vfRun[r].ledger EXCEPT !.threads[vfRun[r].thread] = ThreadState(r)]
  IN  /\ vfRun[r].at \in {"persist", "persist_journal"}
      /\ IF Fenced(r)
           THEN /\ vfLedger' = next
                /\ vfRun' = [vfRun EXCEPT ![r] = NoThread([@ EXCEPT !.at = "next", !.ledger = next])]
         ELSE LeavesAt(r, "thrown") /\ UNCHANGED vfLedger
      /\ UNCHANGED <<vfLease, vfLock, vfThread, vfIntent, vfSignal, vfHead>>

-----------------------------------------------------------------------------
(* The end of a run and the failure signal *)

publishVerificationEnds(r) ==
  /\ vfRun[r].at = "next" /\ vfRun[r].todo = {}
  /\ LeavesAt(r, "clear")
  /\ UNCHANGED <<vfLease, vfLock, vfThread, vfIntent, vfLedger, vfSignal, vfHead>>

\* Mutant: the record is left and only the ledger is cleared.
clearedSignal_Kept == vfSignal

clearedSignal == 0

\* writeVerificationSignal, inactive: the record first, then the ledger's copy; a crash
\* may fall between them.
clearVerificationFailureSignal(r) ==
  /\ vfRun[r].at = "clear"
  /\ IF Fenced(r) THEN RunAt(r, "clear_ledger") /\ vfSignal' = clearedSignal
     ELSE RunAt(r, "thrown") /\ UNCHANGED vfSignal
  /\ UNCHANGED <<vfLease, vfLock, vfThread, vfIntent, vfLedger, vfHead>>

clearVerificationFailureSignalFromLedger(r) ==
  /\ vfRun[r].at = "clear_ledger"
  /\ IF Fenced(r) \/ vfLedger.failureSignal = 0
       THEN /\ RunAt(r, "published") /\ vfLedger' = [vfLedger EXCEPT !.failureSignal = 0]
            /\ vfLease' = IF Holds(r) THEN 0 ELSE vfLease
     ELSE RunAt(r, "thrown") /\ UNCHANGED <<vfLedger, vfLease>>
  /\ UNCHANGED <<vfLock, vfThread, vfIntent, vfSignal, vfHead>>

\* onTerminalFailure, after an unknown outcome or the last attempt: the record,
\* then the ledger, under the attempt's epoch.
publishVerificationFailure(r) ==
  /\ vfRun[r].at \in {"unknown", "thrown"}
  /\ Holds(r)
  /\ vfSignal' = vfRun[r].head
  /\ RunAt(r, "failure_ledger")
  /\ UNCHANGED <<vfLease, vfLock, vfThread, vfIntent, vfLedger, vfHead>>

upsertVerificationFailureSignal(r) ==
  /\ vfRun[r].at = "failure_ledger"
  /\ RunAt(r, "terminal")
  /\ IF Fenced(r) THEN /\ vfLedger' = [vfLedger EXCEPT !.failureSignal = vfRun[r].head]
                       /\ vfLease' = 0
     ELSE UNCHANGED <<vfLedger, vfLease>>
  /\ UNCHANGED <<vfLock, vfThread, vfIntent, vfSignal, vfHead>>

VerifyPublishing ==
  {"next", "snapshot", "answer", "reply", "reply_settle", "reply_lost", "operation", "stub", "stub_settle",
   "resolve", "resolve_settle", "lost", "op_settle", "persist", "persist_journal", "clear",
   "clear_ledger", "failure_ledger"}

\* The worker dies, or a query fails: the session lock goes with the connection.
verificationThrows(r) ==
  /\ vfRun[r].at \in VerifyPublishing /\ MayFail(r)
  /\ Throws(r)
  /\ UNCHANGED <<vfLease, vfThread, vfIntent, vfLedger, vfSignal, vfHead>>

-----------------------------------------------------------------------------
(* People *)

ReplyOrEdit(t) ==
  /\ vfThread[t].last + vfHead <= MaxVerifyMoves
  /\ vfThread' = [vfThread EXCEPT ![t].rev = vfThread[t].last + 1, ![t].last = @ + 1]
  /\ UNCHANGED <<vfRun, vfLease, vfLock, vfIntent, vfLedger, vfSignal, vfHead>>

DeleteReply(t) ==
  /\ vfThread[t].rev # 0 /\ vfThread[t].last + vfHead <= MaxVerifyMoves
  /\ vfThread' = [vfThread EXCEPT ![t].rev = 0, ![t].last = @ + 1]
  /\ UNCHANGED <<vfRun, vfLease, vfLock, vfIntent, vfLedger, vfSignal, vfHead>>

\* Bound: only before the last run starts.
Unresolve(t) ==
  /\ vfThread[t].resolved /\ vfRun[MaxVerifyRuns].at = "idle"
  /\ vfThread' = [vfThread EXCEPT ![t].resolved = FALSE]
  /\ UNCHANGED <<vfRun, vfLease, vfLock, vfIntent, vfLedger, vfSignal, vfHead>>

VerifyPush ==
  /\ \A t \in FindingThreads : vfThread[t].last + vfHead <= MaxVerifyMoves
  /\ vfHead' = vfHead + 1
  /\ UNCHANGED <<vfRun, vfLease, vfLock, vfThread, vfIntent, vfLedger, vfSignal>>

VerificationInit ==
  /\ vfRun = [r \in VerifyRuns |-> NotStarted]
  /\ vfLease = 0 /\ vfLock = 0 /\ vfSignal = 0 /\ vfHead = 1
  /\ \E first \in [FindingThreads -> FirstRevisions] :
       vfThread = [t \in FindingThreads |->
         [resolved |-> FALSE, everResolved |-> FALSE, stub |-> NoStub, rev |-> first[t], last |-> first[t],
          answers |-> [n \in Revisions |-> 0], sent |-> [i \in VerifyRuns |-> 0]]]
  /\ vfIntent = [i \in VerifyRuns |-> [t \in FindingThreads |->
                   [op |-> NoIntent, answer |-> [n \in Revisions |-> "none"]]]]
  /\ vfLedger = NoLedger

VerificationRunStep(r) ==
  \/ checkCompletionGate(r) \/ publishVerificationEnds(r)
  \/ \E t \in FindingThreads, v \in FindingVerdicts, d \in {"none", "answered", "not_objection"},
        w \in BOOLEAN : takeThread(r, t, v, d, w)
  \/ \E t \in FindingThreads : journalQuietly(r, t) \/ passOver(r, t)
  \/ \E flag \in BOOLEAN : postObjectionAnswers(r, flag) \/ publishObjectionAnswer(r, flag)
  \/ replyAt(r) \/ replySettles(r) \/ replyRefused(r)
  \/ \E listed, worded \in BOOLEAN : withVerificationThreadOperation(r, listed, worded)
  \/ journalAnswer(r) \/ upsertStubComment(r) \/ stubSettles(r)
  \/ resolveInlineReviewThread(r) \/ resolveSettles(r) \/ operationRefused(r)
  \/ operationSettles(r) \/ persistThreadState(r)
  \/ clearVerificationFailureSignal(r) \/ clearVerificationFailureSignalFromLedger(r)
  \/ publishVerificationFailure(r) \/ upsertVerificationFailureSignal(r)

VerificationNext ==
  \/ \E r \in VerifyRuns : \/ VerificationRunStep(r) \/ VerifyLeaseExpires(r) \/ verificationThrows(r)
                           \/ \E retry \in BOOLEAN : executeVerification(r, retry)
  \/ \E t \in FindingThreads : ReplyOrEdit(t) \/ DeleteReply(t) \/ Unresolve(t)
  \/ VerifyPush

VerificationSpec == VerificationInit /\ [][VerificationNext]_verificationVars

-----------------------------------------------------------------------------
(* Properties *)

\* The lock and the lease name runs, and the ledger holds what was decided.
VerificationTypeOK ==
  /\ vfLease \in 0..MaxVerifyRuns /\ vfLock \in 0..MaxVerifyRuns
  /\ {vfSignal, vfLedger.failureSignal} \subseteq 0..MaxVerifyMoves + 1
  /\ \A t \in FindingThreads : /\ vfThread[t].stub.verdict \in FindingVerdicts \cup {"none"}
                               /\ vfThread[t].answers \in [Revisions -> Nat]
                               /\ vfLedger.threads[t].verdict \in FindingVerdicts \cup {"none"}

\* A revision of an objection is answered once, also when a run that lost its
\* lease is still publishing from its own inventory (threadMutationLock,
\* existingAnswerCommentId, recoverObjectionAnswer).
AnsweredOnce == \A t \in FindingThreads, n \in Revisions : vfThread[t].answers[n] <= 1

\* A work item writes to a thread once, whatever call failed, was lost or was tried
\* again by a later attempt (withVerificationThreadOperation).
OperatedOnce == \A t \in FindingThreads, i \in VerifyRuns : vfThread[t].sent[i] <= 1

\* The journal says "answered" of a revision only when its answer is on GitHub, though
\* the post is told by its result, by a listing or by an earlier run.
JournalTrue ==
  \A t \in FindingThreads, n \in Revisions :
    <<n, "answered">> \in vfLedger.threads[t].journal => vfThread[t].answers[n] > 0

\* What the journal of a thread says of an objection is never forgotten, though
\* every save writes the whole ledger (withObjectionJournal, the fence of record).
JournalKept ==
  [][\A t \in FindingThreads : vfLedger.threads[t].journal \subseteq vfLedger'.threads[t].journal]_vfLedger

\* A thread recorded as terminal was resolved on GitHub, whatever crash fell
\* between its stub and its resolution (recoverVerificationMutation).
TerminalWasResolved ==
  \A t \in FindingThreads : vfLedger.threads[t].terminal => vfThread[t].everResolved

\* A failure signal does not outlive a later verification that published
\* (clearVerificationFailureSignal): while the last run to end published, no
\* signal is active.
SignalCleared ==
  \A r \in VerifyRuns :
    vfRun[r].at = "published" /\ (\A q \in VerifyRuns : q > r => vfRun[q].at = "idle")
      => vfSignal = 0 /\ vfLedger.failureSignal = 0

\* What verification promises of the threads, overtaken runs, lost answers and crashes
\* included: one answer per revision of an objection, one operation per work item, a
\* terminal entry only for a resolved thread, a journal that is true and never loses an
\* entry, and no failure signal left by the run that published.
VerificationSound ==
  /\ [](/\ VerificationTypeOK /\ AnsweredOnce /\ OperatedOnce /\ JournalTrue
        /\ TerminalWasResolved /\ SignalCleared)
  /\ JournalKept

=============================================================================
