------------------------- MODULE OrchestratedReview -------------------------
(***************************************************************************)
(* The orchestrated review of one work item at one head: recon, the four   *)
(* specialists, one judgment turn per report, the summary; the publications *)
(* the model's tools and the host begin; the artifacts that let the next   *)
(* attempt resume after a crash.  A specialist either has nothing to say   *)
(* or reports findings, published as one batch.  Posting one operation key *)
(* twice is PublishOnce's subject: here a key is posted once.              *)
(***************************************************************************)
EXTENDS Naturals, FiniteSets, Sequences

CONSTANTS
  Specialists,     \* SPECIALIST_IDS
  RepairRounds,    \* VALIDATION_REPAIR_ROUNDS
  RecoveryRounds,  \* PUBLISH_RECOVERY_ROUNDS
  MaxReviewTries,  \* attempts of the work item (a bound)
  MaxReviewFaults, \* failed sends, failed posts and full stores (a bound)
  Interrupts       \* what may interrupt an attempt

ASSUME OrchestratedAssumption ==
  /\ Specialists # {} /\ IsFiniteSet(Specialists)
  /\ RepairRounds \in Nat /\ RecoveryRounds \in Nat
  /\ MaxReviewTries \in Nat /\ MaxReviewFaults \in Nat
  /\ Interrupts \subseteq {"superseded", "stale_head", "deadline", "abort", "crash"}

VARIABLES
  rv,         \* the attempt: OrchestratedRunState and the locals of the run
  rvPub,      \* per publisher ("tool", "host"): the publication it has under way
  rvEnv,      \* the interruptions that have happened
  rvStore,    \* review_run_artifacts and the summary_comment publish step
  rvGithub,   \* batches posted per specialist and the coverage the summary shows
  rvAnswered, \* specialists whose report was empty or judged (history)
  rvUsed      \* attempts and faults so far

orchestratedVars == <<rv, rvPub, rvEnv, rvStore, rvGithub, rvAnswered, rvUsed>>

NoCoverage == [failed |-> {"unpublished"}, unjudged |-> {}]
NoPub == [at |-> "none", kind |-> "none", source |-> "none", cov |-> NoCoverage, dec |-> 0]

initialState ==
  [step |-> "replay", life |-> "running", session |-> "none", send |-> "none", tries |-> 0,
   judging |-> "none", called |-> FALSE,
   recoveryRoundsRun |-> 0, phase |-> [s \in Specialists |-> "waiting"],
   flight |-> [s \in Specialists |-> "idle"], outcomes |-> {}, heard |-> {}, failed |-> {},
   brief |-> FALSE, published |-> FALSE, stopped |-> FALSE, round |-> 0, replayed |-> 0,
   sources |-> {}, recoveredSummary |-> FALSE, caching |-> TRUE, pending |-> 0, broken |-> FALSE]

Unjudged == {s \in Specialists : rv.phase[s] = "unjudged"}
reviewRunCoverage == [failed |-> rv.failed, unjudged |-> Unjudged]

retireSession(r) == [r EXCEPT !.session = IF @ = "live" THEN "retired" ELSE @]
Stopped(r) == retireSession([r EXCEPT !.life = "stopped"])
Finalizing(r) == retireSession([r EXCEPT !.life = "finalizing"])

\* What gate.check() makes of the run: the deadline is read first.
gateResult ==
  IF "deadline" \in rvEnv THEN "finalize"
  ELSE IF rvEnv \cap {"superseded", "stale_head"} # {} THEN "stop" ELSE "continue"

stopFromGateResult(r) ==
  CASE gateResult = "finalize" -> Finalizing(r)
    [] gateResult = "stop" -> Stopped(r)
    [] OTHER -> r

\* Mutant: only the abort signal stops a publication.
stopReason_AbortOnly == "abort" \in rvEnv

\* session.stopReason(): the abort signal, the row, the lease, then the head.
stopReason == rvEnv \cap {"superseded", "stale_head", "abort"} # {}

-----------------------------------------------------------------------------
(* The step graph *)

finish(r) ==
  IF r.life = "stopped" THEN "terminal_tick"
  ELSE IF r.life = "finalizing" THEN "finalize_deadline"
  ELSE IF r.failed = Specialists THEN "failure_notice"
  ELSE IF r.session = "live" THEN "synthesis" ELSE "deterministic_summary"

afterAbortCheck(r) == IF r.life # "stopped" THEN "dispatch_specialists" ELSE finish(r)
afterBrief(r) ==
  IF "abort" \in rvEnv /\ r.life = "running" THEN "stop_on_host_abort" ELSE afterAbortCheck(r)
briefOrAfter(r) == IF ~r.brief /\ r.session = "live" THEN "repair_brief" ELSE afterBrief(r)

summaryLoopOpen(r) == ~r.published /\ r.session = "live" /\ r.life = "running"
recoverOrSettle(r) ==
  IF summaryLoopOpen(r) /\ r.recoveryRoundsRun < RecoveryRounds THEN "recover_summary" ELSE "settle_summary"

nextStep(last, r) ==
  CASE last = "start" -> IF r.session # "none" THEN "recon" ELSE briefOrAfter(r)
    [] last = "recon" -> briefOrAfter(r)
    [] last = "repair_brief" -> afterBrief(r)
    [] last = "stop_on_host_abort" -> afterAbortCheck(r)
    [] last = "dispatch_specialists" -> finish(r)
    [] last = "synthesis" -> IF summaryLoopOpen(r) THEN "repair_summary" ELSE recoverOrSettle(r)
    [] last \in {"repair_summary", "recover_summary"} -> recoverOrSettle(r)
    [] OTHER -> "done"

Sends == {"recon", "repair_brief", "synthesis", "repair_summary", "recover_summary"}
AttemptEnded == {"idle", "done", "failed"}

\* throwIfRecoveryBlocked: a prepared publication left unsettled, or a store that
\* failed, ends the attempt for the next one to resume.
throwIfRecoveryBlocked(r) == r.broken \/ r.pending # 0

\* The loop takes the next step; a step that talks to the model starts at the gate.
Advance(r) ==
  LET next == nextStep(r.step, r)
  IN  IF throwIfRecoveryBlocked(r) THEN retireSession([r EXCEPT !.step = "failed", !.send = "none"])
      ELSE [r EXCEPT !.step = next, !.send = IF next \in Sends THEN "gate" ELSE "none",
                     !.tries = 0, !.round = 0,
                     !.recoveryRoundsRun = IF next = "recover_summary" THEN @ + 1 ELSE @]

markCompleteUnlessStopped(r) == [r EXCEPT !.life = IF @ = "stopped" THEN @ ELSE "complete"]

OnlyRun(r) ==
  /\ rv' = r
  /\ UNCHANGED <<rvPub, rvEnv, rvStore, rvGithub, rvAnswered, rvUsed>>

Fault == rvUsed.faults < MaxReviewFaults
UseFault == rvUsed' = [rvUsed EXCEPT !.faults = @ + 1]

-----------------------------------------------------------------------------
(* Outcomes *)

recordOutcome(r, s) ==
  IF s \in r.outcomes THEN r
  ELSE [r EXCEPT !.outcomes = @ \cup {s},
                 !.failed = IF r.flight[s] = "error" THEN @ \cup {s} ELSE @ \ {s},
                 !.phase[s] = CASE r.flight[s] = "error" -> "failed"
                                [] r.flight[s] = "empty" -> "no_findings"
                                [] OTHER -> @]

\* Mutant: a report nobody judged is left as it was.
recordUnjudgedReport_Silent(r, s) == [r EXCEPT !.judging = "none", !.send = "none"]

recordUnjudgedReport(r, s) ==
  LET idle == [r EXCEPT !.judging = "none", !.send = "none"]
  IN  CASE r.life = "stopped" -> idle
        [] r.life # "stopped" /\ stopReason -> Stopped(idle)
        [] OTHER -> [idle EXCEPT !.phase[s] = "unjudged"]

applyPublishStop(r) == IF r.stopped THEN Stopped(r) ELSE r

\* The judgment turn of r.judging is over.
judgmentEnds(r, sent) ==
  LET s == r.judging
      idle == [r EXCEPT !.judging = "none", !.send = "none"]
  IN  CASE ~sent -> recordUnjudgedReport(r, s)
        [] sent /\ r.stopped -> Stopped(idle)
        [] sent /\ ~r.stopped /\ ~r.called -> recordUnjudgedReport(r, s)
        [] OTHER -> [idle EXCEPT !.phase[s] = "done"]

\* Mutant: the repair rounds are not counted.
repairOrAdvance_Uncounted(r, owed) ==
  IF owed THEN [r EXCEPT !.send = "gate", !.tries = 0] ELSE Advance(r)

\* runValidationRepairLoop: another round while the step is still owed its result.
repairOrAdvance(r, owed) ==
  IF owed /\ r.round + 1 < RepairRounds
    THEN [r EXCEPT !.round = @ + 1, !.send = "gate", !.tries = 0] ELSE Advance(r)

\* What the caller of sendWithRetry does with its result.
SendReturns(r, sent) ==
  CASE r.step = "dispatch_specialists" -> judgmentEnds(r, sent)
    [] r.step = "recon" -> Advance(r)
    [] r.step = "repair_brief" -> repairOrAdvance(r, ~r.brief /\ r.session = "live")
    [] r.step = "repair_summary" ->
         LET q == applyPublishStop(r) IN repairOrAdvance(q, summaryLoopOpen(q))
    [] OTHER -> Advance(applyPublishStop(r))

-----------------------------------------------------------------------------
(* sendWithRetry *)

SendGate ==
  /\ rv.send = "gate"
  /\ OnlyRun(CASE rv.step = "recon" /\ rv.brief -> Advance(rv)
               [] ~(rv.step = "recon" /\ rv.brief) /\ rv.session # "live" -> SendReturns(rv, FALSE)
               [] ~(rv.step = "recon" /\ rv.brief) /\ rv.session = "live" /\ gateResult # "continue" ->
                    SendReturns(stopFromGateResult(rv), FALSE)
               [] OTHER -> [rv EXCEPT !.send = "open"])

\* A turn settles once its tool calls have.
SendSettles ==
  /\ rv.send = "open" /\ rvPub["tool"].at = "none" /\ rvEnv \cap {"deadline", "abort"} = {}
  /\ OnlyRun(SendReturns(rv, TRUE))

\* settleBefore gives up on a turn; a tool call it left running goes on.
SendDeadline ==
  /\ rv.send = "open" /\ "deadline" \in rvEnv
  /\ OnlyRun(SendReturns(Finalizing(rv), FALSE))

SendAborted ==
  /\ rv.send = "open" /\ "abort" \in rvEnv
  /\ OnlyRun(SendReturns(stopFromGateResult(rv), FALSE))

SendRejected(refused) ==
  /\ rv.send = "open" /\ rvPub["tool"].at = "none" /\ Fault /\ UseFault
  /\ rv' = CASE throwIfRecoveryBlocked(rv) ->
                  IF rv.judging # "none" THEN [rv EXCEPT !.judging = "none", !.send = "none"]
                  ELSE Advance(rv)
             [] ~throwIfRecoveryBlocked(rv) /\ refused -> SendReturns(retireSession(rv), FALSE)
             [] ~throwIfRecoveryBlocked(rv) /\ ~refused /\ rv.tries = 0 ->
                  [rv EXCEPT !.tries = 1, !.send = "gate"]
             [] OTHER -> SendReturns(rv, FALSE)
  /\ UNCHANGED <<rvPub, rvEnv, rvStore, rvGithub, rvAnswered>>

submitSpecialistBrief ==
  /\ rv.send = "open" /\ rv.step \in {"recon", "repair_brief"} /\ ~rv.brief
  /\ rv' = [rv EXCEPT !.brief = TRUE]
  /\ rvStore' = [rvStore EXCEPT !.brief = @ \/ rv.caching]
  /\ UNCHANGED <<rvPub, rvEnv, rvGithub, rvAnswered, rvUsed>>

\* Every awaiting candidate needs a disposition, so one call answers the report.
publish_thread ==
  /\ rv.send = "open" /\ rv.session = "live" /\ rv.judging # "none" /\ ~rv.called
  /\ rvPub["tool"].at = "none"
  /\ rvPub' = [rvPub EXCEPT !["tool"] =
                 [NoPub EXCEPT !.at = "check", !.kind = "threads", !.source = rv.judging]]
  /\ UNCHANGED <<rv, rvEnv, rvStore, rvGithub, rvAnswered, rvUsed>>

publish_summary ==
  /\ rv.send = "open" /\ rv.session = "live" /\ ~rv.published
  /\ rv.step \in {"synthesis", "repair_summary", "recover_summary"}
  /\ rvPub["tool"].at = "none"
  /\ rvPub' = [rvPub EXCEPT !["tool"] =
                 [NoPub EXCEPT !.at = "check", !.kind = "summary", !.cov = reviewRunCoverage]]
  /\ UNCHANGED <<rv, rvEnv, rvStore, rvGithub, rvAnswered, rvUsed>>

-----------------------------------------------------------------------------
(* Publications.  The tool's and the host's may be under way together: a   *)
(* turn given up at its deadline leaves its publish call running.          *)

Log == rvStore.log
Posted(p) == IF p.kind = "summary" THEN rvGithub.cov # NoCoverage
             ELSE p.dec # 0 /\ Log[p.dec].posted

PubMoves(a, p) == rvPub' = [rvPub EXCEPT ![a] = p]

\* Mutant: a recovered summary keeps the lists of the new attempt.
restoreCoverageLists_Fresh(r, cov) == r

restoreCoverageLists(r, cov) ==
  [r EXCEPT !.failed = @ \cup cov.failed,
            !.phase = [s \in Specialists |-> IF s \in cov.unjudged THEN "unjudged" ELSE @[s]]]

\* The host was publishing for a step of the loop, or replaying a decision.
HostDone(r, p, result) ==
  IF r.step # "replay"
    THEN CASE result = "published" -> Advance(markCompleteUnlessStopped([r EXCEPT !.published = TRUE]))
           [] result = "stopped" -> Advance([r EXCEPT !.life = "stopped"])
           [] OTHER -> retireSession([r EXCEPT !.step = "failed"])
  ELSE CASE result = "thrown" -> [r EXCEPT !.step = "failed"]
         [] result # "thrown" /\ p.kind = "threads" ->
              IF result = "stopped" THEN [r EXCEPT !.stopped = TRUE, !.step = "create"]
              ELSE [r EXCEPT !.replayed = @ + 1, !.sources = @ \cup {p.source}]
         [] OTHER -> restoreCoverageLists(
              [r EXCEPT !.replayed = @ + 1, !.recoveredSummary = (result = "published"),
                        !.published = (result = "published")], p.cov)

ToolDone(r, p, result) ==
  CASE result = "published" /\ p.kind = "threads" -> [r EXCEPT !.called = (p.source = r.judging)]
    [] result = "published" /\ p.kind = "summary" -> [r EXCEPT !.published = TRUE, !.stopped = FALSE]
    [] result = "stopped" -> [r EXCEPT !.stopped = TRUE]
    [] OTHER -> r

PubDone(a, r, result) ==
  /\ PubMoves(a, NoPub)
  /\ rv' = IF a = "host" THEN HostDone(r, rvPub[a], result) ELSE ToolDone(r, rvPub[a], result)

\* Unresolved publications, the retained summary, then the stop reason.
PubCheck(a) ==
  LET p == rvPub[a]
      fresh == p.kind = "summary" /\ p.dec = 0
  IN  /\ p.at = "check"
      /\ \/ fresh /\ rv.pending # 0 /\ PubDone(a, rv, "thrown")
         \/ ~(fresh /\ rv.pending # 0) /\ stopReason /\ PubDone(a, rv, "stopped")
         \/ /\ ~(fresh /\ rv.pending # 0) /\ ~stopReason
            /\ PubMoves(a, [p EXCEPT !.at = "prepare",
                 !.cov = IF fresh /\ rvStore.summary # NoCoverage THEN rvStore.summary ELSE @])
            /\ UNCHANGED rv
      /\ UNCHANGED <<rvEnv, rvStore, rvGithub, rvAnswered, rvUsed>>

Decision(p) == [kind |-> p.kind, source |-> p.source, cov |-> p.cov, state |-> "prepared",
                posted |-> FALSE]

\* The store keeps the first envelope of a key and a pending decision is only
\* taken over by the same one.
ArtifactConflict(p) ==
  p.kind = "summary" /\ (\/ rvStore.summary \notin {NoCoverage, p.cov}
                         \/ rv.pending # 0 /\ Log[rv.pending].kind # "summary")

\* saveSummary and prepare.
PubPrepare(a) ==
  LET p == rvPub[a]
      open == rv.caching /\ p.dec = 0
      unresolved == open /\ p.kind = "threads" /\ rv.pending # 0
      refused == open /\ ~unresolved /\ ("superseded" \in rvEnv \/ ArtifactConflict(p))
      ready == ~unresolved /\ ~refused
  IN  /\ p.at = "prepare"
      /\ \/ unresolved /\ PubDone(a, rv, "thrown") /\ UNCHANGED <<rvStore, rvUsed>>
         \/ refused /\ PubDone(a, [rv EXCEPT !.broken = TRUE], "thrown") /\ UNCHANGED <<rvStore, rvUsed>>
         \/ ready /\ ~open /\ PubMoves(a, [p EXCEPT !.at = "post"]) /\ UNCHANGED <<rv, rvStore, rvUsed>>
         \/ /\ ready /\ open /\ rv.pending # 0
            /\ PubMoves(a, [p EXCEPT !.at = "post", !.dec = rv.pending])
            /\ UNCHANGED <<rv, rvStore, rvUsed>>
         \/ /\ ready /\ open /\ rv.pending = 0
            /\ rvStore' = [rvStore EXCEPT !.log = Append(@, Decision(p)),
                             !.summary = IF p.kind = "summary" THEN p.cov ELSE @]
            /\ rv' = [rv EXCEPT !.pending = Len(Log) + 1]
            /\ PubMoves(a, [p EXCEPT !.at = "post", !.dec = Len(Log) + 1])
            /\ UNCHANGED rvUsed
         \/ /\ ready /\ open /\ rv.pending = 0 /\ Fault /\ UseFault
            /\ rv' = [rv EXCEPT !.caching = FALSE]
            /\ rvStore' = [rvStore EXCEPT !.full = TRUE]
            /\ PubMoves(a, [p EXCEPT !.at = "post"])
      /\ UNCHANGED <<rvEnv, rvGithub, rvAnswered>>

MarkPosted(p) ==
  /\ rvGithub' = IF Posted(p) THEN rvGithub
                 ELSE IF p.kind = "summary" THEN [rvGithub EXCEPT !.cov = p.cov]
                 ELSE [rvGithub EXCEPT !.posts[p.source] = @ + 1]
  /\ rvStore' = IF p.dec = 0 THEN rvStore ELSE [rvStore EXCEPT !.log[p.dec].posted = TRUE]

\* publishOnce: accepted, rejected for certain, or unknown.
PubPost(a) ==
  LET p == rvPub[a]
  IN  /\ p.at = "post"
      /\ \/ MarkPosted(p) /\ PubMoves(a, [p EXCEPT !.at = "settle"]) /\ UNCHANGED <<rv, rvUsed>>
         \/ /\ ~Posted(p) /\ Fault /\ UseFault
            /\ rvStore' = IF p.dec = 0 THEN rvStore ELSE [rvStore EXCEPT !.log[p.dec].state = "stopped"]
            /\ PubDone(a, [rv EXCEPT !.pending = IF @ = p.dec THEN 0 ELSE @], "thrown")
            /\ UNCHANGED rvGithub
         \/ /\ Fault /\ UseFault /\ PubDone(a, rv, "thrown")
            /\ MarkPosted(p) \/ UNCHANGED <<rvGithub, rvStore>>
      /\ UNCHANGED <<rvEnv, rvAnswered>>

\* recordPublishStep, then the settlement of the decision.
PubSettle(a) ==
  LET p == rvPub[a]
      refused == p.dec # 0 /\ Log[p.dec].state = "prepared" /\ "superseded" \in rvEnv
  IN  /\ p.at = "settle"
      /\ rvStore' = [rvStore EXCEPT
           !.record = IF p.kind = "summary" THEN p.cov ELSE @,
           !.log = IF p.dec = 0 \/ refused THEN @ ELSE [@ EXCEPT ![p.dec].state = "settled"]]
      /\ IF refused THEN PubDone(a, [rv EXCEPT !.broken = TRUE], "thrown")
         ELSE PubDone(a, [rv EXCEPT !.pending = IF p.dec # 0 /\ @ = p.dec THEN 0 ELSE @], "published")
      /\ rvAnswered' = IF p.kind = "threads" THEN rvAnswered \cup {p.source} ELSE rvAnswered
      /\ UNCHANGED <<rvEnv, rvGithub, rvUsed>>

HostPublishes(p) ==
  /\ rvPub["host"].at = "none"
  /\ PubMoves("host", p)
  /\ UNCHANGED <<rvEnv, rvStore, rvGithub, rvAnswered, rvUsed>>

-----------------------------------------------------------------------------
(* Recovery of an earlier attempt, then the session *)

\* Decisions in order; a gate that does not continue breaks off the replay.
ReplayDecision ==
  LET d == Log[rv.replayed + 1]
  IN  /\ rv.step = "replay" /\ rv.replayed < Len(Log) /\ rvPub["host"].at = "none"
      /\ IF d.kind = "threads" /\ gateResult # "continue" THEN OnlyRun([rv EXCEPT !.step = "create"])
         ELSE IF d.state = "stopped" THEN OnlyRun([rv EXCEPT !.replayed = @ + 1])
         ELSE /\ HostPublishes([NoPub EXCEPT !.at = "check", !.kind = d.kind, !.source = d.source,
                                             !.cov = d.cov, !.dec = rv.replayed + 1])
              /\ UNCHANGED rv

settledPublicationStopped == \E i \in DOMAIN Log : Log[i].kind = "summary" /\ Log[i].state = "stopped"

SavedFinalSummary ==
  /\ ~rv.recoveredSummary /\ ~settledPublicationStopped /\ rvStore.summary # NoCoverage

ReplayFinalSummary ==
  /\ rv.step = "replay" /\ rv.replayed = Len(Log) /\ SavedFinalSummary
  /\ HostPublishes([NoPub EXCEPT !.at = "check", !.kind = "summary", !.cov = rvStore.summary])
  /\ UNCHANGED rv

\* createSession raced against the deadline and the abort signal.
CreateSession ==
  /\ \/ rv.step = "create"
     \/ rv.step = "replay" /\ rvPub["host"].at = "none" /\ rv.replayed >= Len(Log)
        /\ ~(rv.replayed = Len(Log) /\ SavedFinalSummary)
  /\ LET r == [rv EXCEPT !.step = "start", !.brief = rvStore.brief]
         open == ~rv.recoveredSummary /\ "abort" \notin rvEnv
     IN  \/ open /\ "deadline" \notin rvEnv /\ OnlyRun(Advance([r EXCEPT !.session = "live"]))
         \/ open /\ "deadline" \in rvEnv /\ OnlyRun(Advance(Finalizing(r)))
         \/ ~open /\ OnlyRun(Advance(r))
         \/ /\ open /\ Fault /\ UseFault /\ rv' = Advance(r)
            /\ UNCHANGED <<rvPub, rvEnv, rvStore, rvGithub, rvAnswered>>

-----------------------------------------------------------------------------
(* The specialists and the completion pump *)

stop_on_host_abort ==
  /\ rv.step = "stop_on_host_abort"
  /\ LET r == stopFromGateResult(rv)
     IN  OnlyRun(Advance(IF r.life = "running" THEN Stopped(r) ELSE r))

Dispatching == rv.step = "dispatch_specialists"
Results == {"report", "empty", "error"}

dispatchSpecialists ==
  /\ Dispatching /\ \A s \in Specialists : rv.flight[s] = "idle"
  /\ OnlyRun(IF rv.recoveredSummary THEN Advance([rv EXCEPT !.life = "complete"])
             ELSE [rv EXCEPT !.phase = [s \in Specialists |-> "running"],
                             !.flight = [s \in Specialists |-> IF rvStore.reports[s] = "none"
                                           THEN "running" ELSE rvStore.reports[s]]])

\* runSpecialist: a validated report is saved before the promise resolves.
runSpecialist(s, result) ==
  /\ rv.flight[s] = "running"
  /\ result = "error" => Fault \/ rv.life # "running" \/ rvEnv # {}
  /\ rv' = [rv EXCEPT !.flight[s] = result]
  /\ rvStore' = IF result = "error" \/ ~rv.caching THEN rvStore
                ELSE [rvStore EXCEPT !.reports[s] = result]
  /\ rvUsed' = IF result = "error" /\ rv.life = "running" /\ rvEnv = {}
               THEN [rvUsed EXCEPT !.faults = @ + 1] ELSE rvUsed
  /\ UNCHANGED <<rvPub, rvEnv, rvGithub, rvAnswered>>

\* Mutant: a batch recovered by replay does not count as a judgment.
recoveredSource_None(r, s) == FALSE

recoveredSource(r, s) == s \in r.sources

\* The pump hands outcomes over one at a time and only counts them once stopped.
Handled(s) ==
  LET r == [rv EXCEPT !.heard = @ \cup {s}]
      q == recordOutcome(r, s)
  IN  IF rv.life # "running" THEN r
      ELSE IF gateResult # "continue" THEN stopFromGateResult(r)
      ELSE IF rv.flight[s] # "report" THEN q
      ELSE IF recoveredSource(rv, s) THEN [q EXCEPT !.phase[s] = "done"]
      ELSE IF rv.session # "live" THEN recordUnjudgedReport(q, s)
      ELSE [q EXCEPT !.judging = s, !.called = FALSE, !.send = "gate", !.tries = 0]

Waiting == {s \in Specialists : rv.flight[s] \in Results /\ s \notin rv.heard}

pumpSpecialistCompletions(s) ==
  /\ Dispatching /\ rv.judging = "none" /\ s \in Waiting
  /\ rv' = Handled(s)
  /\ rvAnswered' = IF s \in rv'.outcomes /\ rv.flight[s] = "empty" THEN rvAnswered \cup {s}
                   ELSE rvAnswered
  /\ UNCHANGED <<rvPub, rvEnv, rvStore, rvGithub, rvUsed>>

\* The handler threw before it reached the outcome.
outcomeHandlerFails(s) ==
  LET q == recordOutcome([rv EXCEPT !.heard = @ \cup {s}], s)
  IN  /\ Dispatching /\ rv.judging = "none" /\ s \in Waiting /\ rv.life = "running"
      /\ ~throwIfRecoveryBlocked(rv) /\ Fault /\ UseFault
      /\ rv' = IF rv.flight[s] = "report" THEN recordUnjudgedReport(q, s) ELSE q
      /\ rvAnswered' = IF rv.flight[s] = "empty" THEN rvAnswered \cup {s} ELSE rvAnswered
      /\ UNCHANGED <<rvPub, rvEnv, rvStore, rvGithub>>

dispatchEnds ==
  /\ Dispatching /\ rv.judging = "none" /\ rv.heard = Specialists
  /\ OnlyRun(Advance(rv))

-----------------------------------------------------------------------------
(* Endings *)

\* Outcomes the pump did not hand over are recorded now; a report still running
\* was never judged.
Accounted(r) ==
  LET recorded == [r EXCEPT !.outcomes = @ \cup r.heard,
        !.failed = (@ \ {s \in r.heard \ r.outcomes : r.flight[s] # "error"})
                     \cup {s \in r.heard \ r.outcomes : r.flight[s] = "error"},
        !.phase = [s \in Specialists |-> IF s \notin r.heard \ r.outcomes THEN @[s]
                     ELSE CASE r.flight[s] = "error" -> "failed" [] r.flight[s] = "empty" -> "no_findings"
                            [] OTHER -> @[s]]]
      unjudged == {s \in r.heard : r.flight[s] = "report" /\ r.phase[s] = "running"}
  IN  IF unjudged # {} /\ stopReason THEN Stopped(recorded)
      ELSE [recorded EXCEPT !.phase = [s \in Specialists |-> IF s \in unjudged THEN "unjudged" ELSE @[s]]]

NewlyEmpty(r) == {s \in r.heard \ r.outcomes : r.flight[s] = "empty"}

publishDeterministicSummary(r) ==
  /\ rv' = r
  /\ rvPub["host"].at = "none"
  /\ PubMoves("host", [NoPub EXCEPT !.at = "check", !.kind = "summary",
       !.cov = [failed |-> r.failed, unjudged |-> {s \in Specialists : r.phase[s] = "unjudged"}]])
  /\ UNCHANGED <<rvEnv, rvStore, rvGithub, rvUsed>>

finalizeDeadline ==
  /\ rv.step = "finalize_deadline" /\ rvPub["host"].at = "none"
  /\ rvAnswered' = rvAnswered \cup NewlyEmpty(rv)
  /\ LET r == Accounted(rv)
     IN  IF r.failed = Specialists \/ r.published
           THEN /\ rv' = Advance(markCompleteUnlessStopped(r))
                /\ UNCHANGED <<rvPub, rvEnv, rvStore, rvGithub, rvUsed>>
         ELSE publishDeterministicSummary(r)

settleSummary ==
  /\ rv.step \in {"settle_summary", "deterministic_summary"} /\ rvPub["host"].at = "none"
  /\ IF rv.published \/ (rv.step = "settle_summary" /\ rv.stopped)
       THEN OnlyRun(Advance(markCompleteUnlessStopped(rv)))
     ELSE publishDeterministicSummary(rv) /\ UNCHANGED rvAnswered

\* failure_notice completes the run without a summary; terminal_tick only reports.
endWithoutSummary ==
  /\ rv.step \in {"failure_notice", "terminal_tick"}
  /\ OnlyRun(Advance(IF rv.step = "failure_notice" THEN [rv EXCEPT !.life = "complete"] ELSE rv))

-----------------------------------------------------------------------------
(* Attempts *)

\* decisions(): the last decision may have been left unsettled.
Unsettled == {i \in DOMAIN Log : Log[i].state = "prepared"}

\* An attempt that finds a summary receipt completes from it without a run.
runClaimedReview ==
  /\ rv.step \in {"idle", "failed"} /\ rvUsed.attempts < MaxReviewTries
  /\ rvEnv \cap {"superseded", "stale_head"} = {}
  /\ rv' = IF rvStore.record # NoCoverage
             THEN [initialState EXCEPT !.step = "done", !.published = TRUE, !.life = "complete",
                     !.failed = rvStore.record.failed,
                     !.phase = [s \in Specialists |-> IF s \in rvStore.record.unjudged
                                                      THEN "unjudged" ELSE "done"]]
           ELSE [initialState EXCEPT !.pending = IF Unsettled = {} THEN 0 ELSE Len(Log)]
  /\ rvPub' = [a \in {"tool", "host"} |-> NoPub]
  /\ rvEnv' = rvEnv \ {"deadline", "abort", "crash"}
  /\ rvUsed' = [rvUsed EXCEPT !.attempts = @ + 1]
  /\ UNCHANGED <<rvStore, rvGithub, rvAnswered>>

Interrupt(what) ==
  /\ rv.step \notin AttemptEnded /\ what \in Interrupts \ (rvEnv \cup {"crash"})
  /\ rvEnv' = rvEnv \cup {what}
  /\ UNCHANGED <<rv, rvPub, rvStore, rvGithub, rvAnswered, rvUsed>>

Crash ==
  /\ rv.step \notin AttemptEnded /\ "crash" \in Interrupts /\ rvUsed.attempts < MaxReviewTries
  /\ rv' = [initialState EXCEPT !.step = "idle"]
  /\ rvPub' = [a \in {"tool", "host"} |-> NoPub]
  /\ UNCHANGED <<rvEnv, rvStore, rvGithub, rvAnswered, rvUsed>>

OrchestratedInit ==
  /\ rv = [initialState EXCEPT !.step = "idle"]
  /\ rvPub = [a \in {"tool", "host"} |-> NoPub]
  /\ rvEnv = {}
  /\ rvStore = [brief |-> FALSE, reports |-> [s \in Specialists |-> "none"], summary |-> NoCoverage,
                log |-> <<>>, record |-> NoCoverage, full |-> FALSE]
  /\ rvGithub = [posts |-> [s \in Specialists |-> 0], cov |-> NoCoverage]
  /\ rvAnswered = {}
  /\ rvUsed = [attempts |-> 0, faults |-> 0]

ReviewStepped ==
  \/ SendGate \/ SendSettles \/ SendDeadline \/ SendAborted
  \/ \E refused \in BOOLEAN : SendRejected(refused)
  \/ \E a \in {"tool", "host"} : PubCheck(a) \/ PubPrepare(a) \/ PubPost(a) \/ PubSettle(a)
  \/ ReplayDecision \/ ReplayFinalSummary \/ CreateSession
  \/ stop_on_host_abort \/ dispatchSpecialists \/ dispatchEnds
  \/ \E s \in Specialists : \/ pumpSpecialistCompletions(s) \/ outcomeHandlerFails(s)
                            \/ \E result \in Results : runSpecialist(s, result)
  \/ finalizeDeadline \/ settleSummary \/ endWithoutSummary

ModelCalls == submitSpecialistBrief \/ publish_thread \/ publish_summary

OrchestratedNext ==
  \/ ReviewStepped \/ ModelCalls
  \/ runClaimedReview \/ Crash
  \/ \E what \in Interrupts : Interrupt(what)

\* The event loop runs whatever is ready; the tool budget and the timers of a
\* session let no turn call tools forever.
OrchestratedFair ==
  /\ WF_orchestratedVars(ReviewStepped)
  /\ SF_orchestratedVars(SendSettles \/ SendDeadline \/ SendAborted)

OrchestratedSpec ==
  OrchestratedInit /\ [][OrchestratedNext]_orchestratedVars /\ OrchestratedFair

-----------------------------------------------------------------------------
(* Properties *)

Covers == [failed : SUBSET (Specialists \cup {"unpublished"}), unjudged : SUBSET Specialists]

\* The run's state has the shape OrchestratedRunState gives it.
OrchestratedTypeOK ==
  /\ rv.life \in {"running", "finalizing", "stopped", "complete"}
  /\ rv.session \in {"none", "live", "retired"} /\ rv.send \in {"none", "gate", "open"}
  /\ rv.phase \in [Specialists -> {"waiting", "running", "no_findings", "failed", "done", "unjudged"}]
  /\ rv.failed \subseteq Specialists /\ rv.heard \subseteq Specialists
  /\ rv.pending \in 0..Len(Log) /\ rvGithub.cov \in Covers /\ rvStore.record \in Covers
  /\ \A a \in {"tool", "host"} : rvPub[a].at \in {"none", "check", "prepare", "post", "settle"}

\* The summary on the pull request never passes over a lens: a specialist its
\* coverage line leaves out had an empty report or was judged, also when the
\* deadline, a provider failure or a crash cut the run short
\* (reviewRunCoverage, recordUnjudgedReport, finalize_deadline).
CoverageHonest ==
  rvGithub.cov # NoCoverage =>
    Specialists \ (rvGithub.cov.failed \cup rvGithub.cov.unjudged) \subseteq rvAnswered

\* The coverage the verdict is closed with is the one the posted summary shows,
\* across a turn given up with its publish call running and across restarts
\* (canReuseSummary, saveSummary, prepare, restoreCoverageLists), unless the
\* artifact store ran full or GitHub rejected an earlier summary.
VerdictMatchesSummary ==
  rv.step = "done" /\ rv.published /\ ~rvStore.full /\ ~settledPublicationStopped
    => reviewRunCoverage = rvGithub.cov

\* A specialist's batch is posted once over all attempts: an unsettled decision
\* is replayed and its source is not judged again (decisions, recoveredSources).
BatchPostedOnce == ~rvStore.full => \A s \in Specialists : rvGithub.posts[s] <= 1

\* A stopped attempt starts no publication of its own: settle_summary still runs
\* after a stop and relies on the publish session's check (session.stopReason).
StoppedStaysSilent ==
  [][rv.life = "stopped" /\ rvPub["host"].at \in {"none", "check"} =>
       rvPub'["host"].at \in {"none", "check"}]_orchestratedVars

\* Every attempt comes to an end, whatever the model, the specialists and the
\* publications do (nextStep, the round limits, sendWithRetry).
AttemptEnds == rv.step \notin AttemptEnded ~> rv.step \in AttemptEnded

\* What an interrupted and resumed review promises: the coverage it shows was reached,
\* its verdict is the summary's, a batch is posted once, and a stopped run is silent.
ReviewSound ==
  /\ [](OrchestratedTypeOK /\ CoverageHonest /\ VerdictMatchesSummary /\ BatchPostedOnce)
  /\ StoppedStaysSilent

=============================================================================
