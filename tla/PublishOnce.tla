----------------------------- MODULE PublishOnce -----------------------------
(***************************************************************************)
(* Publishing to GitHub from leased executions: createLeaseMutationBoundary*)
(* around publishOnce, over the operation_intents rows of one (resource,   *)
(* work type).  An operation is one (work item, operation key) pair.  The  *)
(* execution checks the lease, writes the intent, checks again, calls      *)
(* GitHub and records the result; each SQL statement is a step of its own, *)
(* and so is each read of the lease that precedes one, because the lease   *)
(* may lapse, be stolen or be cleared in between.  A request that is on    *)
(* the wire outlives the execution that sent it.                           *)
(***************************************************************************)
EXTENDS ActorLease, FiniteSets

CONSTANTS
  Execs,        \* executions that may be alive at once
  Ops,          \* (work item, operation key) pairs
  NoOp,
  Owner,        \* the work item of an operation
  MarkedOps,    \* operations whose effect carries evidence (a marker or an id)
  VoidOps,      \* operations whose method returns no value
  Budget        \* how often each environment event may happen (a bound)

Events == {"claim", "crash", "lapse", "revive", "abort", "cancel",
           "reject", "timeout", "unread", "call"}

ASSUME OpsAssumption ==
  /\ NoOp \notin Ops
  /\ Owner \in [Ops -> Items]
  /\ MarkedOps \subseteq Ops /\ VoidOps \subseteq Ops
  /\ Budget \in [Events -> Nat]

VARIABLES
  lease,      \* the pr_actor_leases row
  cancelled,  \* items that intake cancelled
  intents,    \* operation_intents, by operation
  exec,       \* what each execution holds in memory
  wire,       \* requests GitHub has not answered yet
  accepted,   \* how often GitHub carried out each operation
  budget      \* what is left of Budget

vars == <<lease, cancelled, intents, exec, wire, accepted, budget>>

-----------------------------------------------------------------------------
(* State *)

IntentStatus == {"absent", "pending", "reconciled", "failed", "outcome_unknown"}

\* mutating, started, armed, result and terminal are the keys __mutating,
\* __sendStarted, __mutatingEpoch, __result and unknownResolution of detail.
IntentRow == [status: IntentStatus, mutating: BOOLEAN, started: BOOLEAN, armed: Nat,
              result: BOOLEAN, terminal: BOOLEAN]

AbsentIntent == [status |-> "absent", mutating |-> FALSE, started |-> FALSE, armed |-> 0,
                 result |-> FALSE, terminal |-> FALSE]

Phases == {"idle", "ready", "persist", "decide", "lookup", "armCheck", "arm", "sendCheck",
           "mark", "gate", "confirm", "send", "await", "check", "write", "unsent",
           "repersist", "evidence", "observed"}

\* The completion write an execution is about to make.
Writes == {"none", "stash", "done", "resume", "failed", "unknown", "terminal", "recovered"}

\* How the recovery was entered: from the call's own error, or for an intent that
\* somebody left in flight or unknown.
Modes == {"none", "catch", "inflight"}

Outcomes == {"none", "success", "leaseLost", "aborted", "failed", "unknown", "terminal",
             "recoveryFailed"}

\* lost: the reason of the aborted signal is a lost renewal.
Execution == [pc: Phases, item: Items \cup {NoItem}, epoch: Nat, op: Ops \cup {NoOp},
              target: Ops \cup {NoOp}, write: Writes, mode: Modes, found: BOOLEAN,
              aborted: BOOLEAN, lost: BOOLEAN, reply: {"none", "ok", "rejected"}, outcome: Outcomes]

IdleExec == [pc |-> "idle", item |-> NoItem, epoch |-> 0, op |-> NoOp, target |-> NoOp,
             write |-> "none", mode |-> "none", found |-> FALSE, aborted |-> FALSE,
             lost |-> FALSE, reply |-> "none", outcome |-> "none"]

Request == [op: Ops, epoch: Nat]

Init ==
  /\ lease = NoLease
  /\ cancelled = {}
  /\ intents = [o \in Ops |-> AbsentIntent]
  /\ exec = [x \in Execs |-> IdleExec]
  /\ wire = {}
  /\ accepted = [o \in Ops |-> 0]
  /\ budget = Budget

Spend(e) == budget[e] > 0 /\ budget' = [budget EXCEPT ![e] = @ - 1]

At(x, pc) == exec[x].pc = pc

Goto(x, pc) == exec' = [exec EXCEPT ![x].pc = pc]

\* The call returns or throws; the execution goes on or ends.
Finish(x, outcome) ==
  exec' = [exec EXCEPT ![x] =
    [IdleExec EXCEPT !.pc = "ready", !.item = exec[x].item, !.epoch = exec[x].epoch,
                     !.aborted = exec[x].aborted, !.lost = exec[x].lost, !.op = exec[x].op, !.outcome = outcome]]

\* A completion write is preceded by a read of the lease (CheckWrite).
GotoWrite(x, o, k) ==
  exec' = [exec EXCEPT ![x] = [@ EXCEPT !.pc = "check", !.target = o, !.write = k]]

Recover(x, o, m) ==
  exec' = [exec EXCEPT ![x] = [@ EXCEPT !.pc = "evidence", !.target = o, !.mode = m]]

-----------------------------------------------------------------------------
(* operationIntentRepository.ts *)

Held(x) == isPrActorLeaseHeld(lease, exec[x].item, exec[x].epoch)

\* assertMutationReady: the signal, then the lease
Ready(x) == ~exec[x].aborted /\ Held(x)

NotReadyOutcome(x) == IF exec[x].aborted /\ ~exec[x].lost THEN "aborted" ELSE "leaseLost"

SetIntent(o, row) == intents' = [intents EXCEPT ![o] = row]

\* Mutant: the insert's conflict clause opens the existing row again.
persistOperationIntent_Reopens(o) ==
  SetIntent(o, IF intents[o].status = "absent"
               THEN [AbsentIntent EXCEPT !.status = "pending"]
               ELSE [intents[o] EXCEPT !.status = "pending"])

persistOperationIntent(o) ==
  IF intents[o].status = "absent"
  THEN SetIntent(o, [AbsentIntent EXCEPT !.status = "pending"])
  ELSE UNCHANGED intents

Mergeable(o) == intents[o].status \in {"pending", "failed"}

\* mergeOperationIntentDetail reopens a failed intent.
Merged(o) == [intents[o] EXCEPT !.status = "pending"]

\* Mutants: only the epoch counts, not the started send; and the other way round,
\* an intent that was never sent blocks whoever comes later.
InFlight_LiveEpoch(o) ==
  /\ intents[o].status = "pending" /\ intents[o].mutating /\ ~intents[o].result
  /\ lease.epoch = intents[o].armed /\ lease.live

InFlight_AnyArmed(o) ==
  intents[o].status = "pending" /\ intents[o].mutating /\ ~intents[o].result

\* A pending intent whose send has started, or may still start under a live epoch.
InFlight(o) ==
  /\ intents[o].status = "pending" /\ intents[o].mutating /\ ~intents[o].result
  /\ intents[o].started \/ (lease.epoch = intents[o].armed /\ lease.live)

\* findInFlightMutatingIntent: the caller's own, or any of another work item while
\* the caller's item holds the lease.  created_at picks one; the model picks any.
findInFlightMutatingIntent(x) ==
  {o \in Ops :
     /\ InFlight(o)
     /\ \/ o = exec[x].op
        \/ /\ Owner[o] # exec[x].item
           /\ lease.holder = exec[x].item /\ lease.live}

\* The status guard of reconcileOperationIntent
Reconcilable(o, s) ==
  \/ intents[o].status \in {"pending", s}
  \/ intents[o].status = "outcome_unknown" /\ s = "reconciled"

\* reconcileOperationIntent: fenced, a no-op when the fence or the guard fails
reconcileOperationIntent(x, o, row) ==
  IF Held(x) /\ Reconcilable(o, row.status) THEN SetIntent(o, row) ELSE UNCHANGED intents

-----------------------------------------------------------------------------
(* An execution: claim, calls, release *)

Claim(x, i) ==
  /\ At(x, "idle")
  /\ i \notin cancelled
  /\ Acquirable(lease)
  /\ Spend("claim")
  /\ lease' = acquirePrActorLease(lease, i)
  /\ exec' = [exec EXCEPT ![x] =
       [IdleExec EXCEPT !.pc = "ready", !.item = i, !.epoch = lease.epoch + 1]]
  /\ UNCHANGED <<cancelled, intents, wire, accepted>>

\* boundary.run: the durable cancellation is read before anything is written.
Call(x, o) ==
  /\ At(x, "ready")
  /\ Owner[o] = exec[x].item
  /\ Spend("call")
  /\ exec' = [exec EXCEPT ![x] =
       IF exec[x].aborted \/ exec[x].item \in cancelled
       THEN [@ EXCEPT !.op = o, !.outcome = "aborted"]
       ELSE [@ EXCEPT !.pc = "persist", !.op = o, !.outcome = "none"]]
  /\ UNCHANGED <<lease, cancelled, intents, wire, accepted>>

Leave(x) ==
  /\ At(x, "ready")
  /\ lease' = releasePrActorLease(lease, exec[x].epoch)
  /\ exec' = [exec EXCEPT ![x] = IdleExec]
  /\ UNCHANGED <<cancelled, intents, wire, accepted, budget>>

-----------------------------------------------------------------------------
(* publishOnceBody up to the send *)

Persist(x) ==
  /\ At(x, "persist")
  /\ IF Ready(x)
     THEN persistOperationIntent(exec[x].op) /\ Goto(x, "decide")
     ELSE Finish(x, NotReadyOutcome(x)) /\ UNCHANGED intents
  /\ UNCHANGED <<lease, cancelled, wire, accepted, budget>>

\* The row persist returned: only the holder writes it, so under Ready it is current.
Decide(x) ==
  LET o == exec[x].op
      row == intents[o]
  IN  /\ At(x, "decide")
      /\ \/ ~Ready(x) /\ Finish(x, NotReadyOutcome(x))
         \/ /\ Ready(x) /\ row.result
            /\ IF row.status = "reconciled" THEN Finish(x, "success") ELSE GotoWrite(x, o, "resume")
         \/ /\ Ready(x) /\ ~row.result /\ row.status = "outcome_unknown"
            /\ IF row.terminal THEN Finish(x, "terminal") ELSE Recover(x, o, "inflight")
         \/ /\ Ready(x) /\ ~row.result /\ row.status \in {"pending", "failed"}
            /\ Goto(x, "lookup")
      /\ UNCHANGED <<lease, cancelled, intents, wire, accepted, budget>>

Lookup(x) ==
  /\ At(x, "lookup")
  /\ \/ \E o \in findInFlightMutatingIntent(x) : Recover(x, o, "inflight")
     \/ findInFlightMutatingIntent(x) = {} /\ Goto(x, "armCheck")
  /\ UNCHANGED <<lease, cancelled, intents, wire, accepted, budget>>

\* The lease read of fencedWrite, then the fenced statement, whose result is ignored.
ArmCheck(x) ==
  /\ At(x, "armCheck")
  /\ IF Held(x) THEN Goto(x, "arm") ELSE Finish(x, "leaseLost")
  /\ UNCHANGED <<lease, cancelled, intents, wire, accepted, budget>>

Armed(o, e) == [Merged(o) EXCEPT !.mutating = TRUE, !.started = FALSE, !.armed = e]

Arm(x) ==
  LET o == exec[x].op
  IN  /\ At(x, "arm")
      /\ IF Held(x) /\ Mergeable(o)
         THEN SetIntent(o, Armed(o, exec[x].epoch))
         ELSE UNCHANGED intents
      /\ Goto(x, "sendCheck")
      /\ UNCHANGED <<lease, cancelled, wire, accepted, budget>>

SendCheck(x) ==
  /\ At(x, "sendCheck")
  /\ \/ Ready(x) /\ Goto(x, "mark")
     \/ ~Ready(x) /\ NotReadyOutcome(x) = "aborted" /\ GotoWrite(x, exec[x].op, "failed")
     \/ ~Ready(x) /\ NotReadyOutcome(x) = "leaseLost" /\ Goto(x, "unsent")
  /\ UNCHANGED <<lease, cancelled, intents, wire, accepted, budget>>

\* __sendStarted: a mark that touches no row means the lease is lost.
Mark(x) ==
  LET o == exec[x].op
  IN  /\ At(x, "mark")
      /\ IF Held(x) /\ Mergeable(o)
         THEN SetIntent(o, [Merged(o) EXCEPT !.started = TRUE]) /\ Goto(x, "gate")
         ELSE UNCHANGED intents /\ Goto(x, "unsent")
      /\ UNCHANGED <<lease, cancelled, wire, accepted, budget>>

\* The boundary's own gate: cancellation and lease, before mutationStarted.
Gate(x) ==
  /\ At(x, "gate")
  /\ IF exec[x].item \in cancelled \/ ~Held(x)
     THEN GotoWrite(x, exec[x].op, "failed")
     ELSE Goto(x, "confirm")
  /\ UNCHANGED <<lease, cancelled, intents, wire, accepted, budget>>

\* The surface's last look at the signal and the lease, after mutationStarted.
Confirm(x) ==
  /\ At(x, "confirm")
  /\ IF Ready(x) THEN Goto(x, "send") ELSE Goto(x, "repersist")
  /\ UNCHANGED <<lease, cancelled, intents, wire, accepted, budget>>

Send(x) ==
  /\ At(x, "send")
  /\ wire' = wire \cup {[op |-> exec[x].op, epoch |-> exec[x].epoch]}
  /\ exec' = [exec EXCEPT ![x] = [@ EXCEPT !.pc = "await", !.reply = "none"]]
  /\ UNCHANGED <<lease, cancelled, intents, accepted, budget>>

\* releaseUnsentInFlightIntent is not fenced: it names the arming epoch instead.
Unsent(x) ==
  LET o == exec[x].op
      row == intents[o]
  IN  /\ At(x, "unsent")
      /\ IF /\ row.status = "pending" /\ row.mutating /\ ~row.result
            /\ ~row.started /\ row.armed = exec[x].epoch
         THEN SetIntent(o, [row EXCEPT !.mutating = FALSE])
         ELSE UNCHANGED intents
      /\ Finish(x, "leaseLost")
      /\ UNCHANGED <<lease, cancelled, wire, accepted, budget>>

-----------------------------------------------------------------------------
(* publishOnceBody after the send, and recovery *)

\* Mutant: every error of the call counts as a rejection.
Respond_ErrorFails(x) ==
  /\ At(x, "await")
  /\ \/ exec[x].reply = "ok" /\ GotoWrite(x, exec[x].op, "stash") /\ UNCHANGED budget
     \/ exec[x].reply # "ok" /\ Spend("timeout") /\ GotoWrite(x, exec[x].op, "failed")
  /\ UNCHANGED <<lease, cancelled, intents, wire, accepted>>

\* The response: a result (which may fail to decode: then nothing is written), a
\* proven rejection, or an error that proves nothing.
Respond(x) ==
  /\ At(x, "await")
  /\ \/ /\ exec[x].reply = "ok"
        /\ GotoWrite(x, exec[x].op, "stash")
        /\ UNCHANGED budget
     \/ /\ exec[x].reply = "ok"
        /\ Spend("unread")
        /\ Finish(x, "terminal")
     \/ /\ exec[x].reply = "rejected"
        /\ GotoWrite(x, exec[x].op, "failed")
        /\ UNCHANGED budget
     \/ /\ exec[x].reply # "rejected"
        /\ Spend("timeout")
        /\ Goto(x, "repersist")
  /\ UNCHANGED <<lease, cancelled, intents, wire, accepted>>

Repersist(x) ==
  /\ At(x, "repersist")
  /\ IF Held(x)
     THEN persistOperationIntent(exec[x].op) /\ Recover(x, exec[x].op, "catch")
     ELSE Finish(x, "leaseLost") /\ UNCHANGED intents
  /\ UNCHANGED <<lease, cancelled, wire, accepted, budget>>

\* Mutant: the marker stored with the intent is taken for the marker on GitHub.
HasEvidence_Stored(t) == t \in MarkedOps /\ intents[t].started

\* recoverPrSurfaceMutation: the evidence of the target intent on GitHub
HasEvidence(t) == t \in MarkedOps /\ accepted[t] > 0

Evidence(x) ==
  /\ At(x, "evidence")
  /\ \/ /\ exec' = [exec EXCEPT ![x] =
             [@ EXCEPT !.pc = "observed",
                       !.found = HasEvidence(exec[x].target)]]
        /\ UNCHANGED budget
     \/ /\ Spend("unread")
        /\ Finish(x, IF Ready(x) THEN "recoveryFailed" ELSE NotReadyOutcome(x))
  /\ UNCHANGED <<lease, cancelled, intents, wire, accepted>>

\* decodeResult accepts a value of the caller's own kind only.
Decodes(o, t) == (o \in VoidOps) = (t \in VoidOps)

\* recoverByExactEvidence and recoverAfterMutatingWithoutResult after the read
Observed(x) ==
  LET t == exec[x].target
  IN  /\ At(x, "observed")
      /\ \/ ~Ready(x) /\ Finish(x, NotReadyOutcome(x))
         \/ /\ Ready(x) /\ exec[x].found
            /\ IF Decodes(exec[x].op, t)
               THEN GotoWrite(x, t, "recovered")
               ELSE Finish(x, "terminal")
         \/ /\ Ready(x) /\ ~exec[x].found
            /\ \/ exec[x].mode = "catch" /\ GotoWrite(x, t, "unknown")
               \/ exec[x].mode = "inflight" /\ GotoWrite(x, t, "terminal")
      /\ UNCHANGED <<lease, cancelled, intents, wire, accepted, budget>>

\* The writes that assertMutationReady precedes; the others only read the lease.
SignalledWrites == {"stash", "resume", "terminal"}

CheckWrite(x) ==
  /\ At(x, "check")
  /\ \/ Held(x) /\ ~(exec[x].aborted /\ exec[x].write \in SignalledWrites) /\ Goto(x, "write")
     \/ exec[x].aborted /\ exec[x].write \in SignalledWrites /\ Finish(x, NotReadyOutcome(x))
     \/ ~Held(x) /\ Finish(x, "leaseLost")
  /\ UNCHANGED <<lease, cancelled, intents, wire, accepted, budget>>

Reconciled(o) == [intents[o] EXCEPT !.status = "reconciled", !.result = TRUE]

\* Mutant: a status the column does not know.
Settled_Misspelt(o, s, terminal) ==
  [intents[o] EXCEPT !.status = IF s = "outcome_unknown" THEN "unknown" ELSE s, !.mutating = FALSE]

\* The settled row: __mutating is cleared, terminal stays once set.
Settled(o, s, terminal) ==
  [intents[o] EXCEPT !.status = s, !.mutating = FALSE, !.terminal = @ \/ terminal]

\* mergeOperationIntentDetail with __result, then the reconciliation
WriteResult(x) ==
  LET o == exec[x].target
  IN  /\ At(x, "write")
      /\ \/ /\ exec[x].write = "stash"
            /\ IF Held(x) /\ Mergeable(o)
               THEN SetIntent(o, [Merged(o) EXCEPT !.result = TRUE])
               ELSE UNCHANGED intents
            /\ GotoWrite(x, o, "done")
         \/ /\ exec[x].write \in {"done", "resume", "recovered"}
            /\ reconcileOperationIntent(x, o, Reconciled(o))
            /\ Finish(x, "success")
      /\ UNCHANGED <<lease, cancelled, wire, accepted, budget>>

WriteFailure(x) ==
  LET o == exec[x].target
  IN  /\ At(x, "write")
      /\ \/ /\ exec[x].write = "failed"
            /\ reconcileOperationIntent(x, o, Settled(o, "failed", FALSE))
            /\ Finish(x, "failed")
         \/ /\ exec[x].write = "unknown"
            /\ reconcileOperationIntent(x, o, Settled(o, "outcome_unknown", FALSE))
            /\ Finish(x, "unknown")
         \/ /\ exec[x].write = "terminal"
            /\ reconcileOperationIntent(x, o, Settled(o, "outcome_unknown", TRUE))
            /\ Finish(x, IF Held(x) THEN "terminal" ELSE "leaseLost")
      /\ UNCHANGED <<lease, cancelled, wire, accepted, budget>>

-----------------------------------------------------------------------------
(* GitHub, the clock, intake and crashes *)

Awaits(x, r) == At(x, "await") /\ exec[x].epoch = r.epoch /\ exec[x].op = r.op

Reply(r, s) ==
  exec' = [x \in Execs |-> IF Awaits(x, r) THEN [exec[x] EXCEPT !.reply = s] ELSE exec[x]]

GithubAccepts(r) ==
  /\ wire' = wire \ {r}
  /\ accepted' = [accepted EXCEPT ![r.op] = @ + 1]
  /\ Reply(r, "ok")
  /\ UNCHANGED <<lease, cancelled, intents, budget>>

GithubRejects(r) ==
  /\ Spend("reject")
  /\ wire' = wire \ {r}
  /\ Reply(r, "rejected")
  /\ UNCHANGED <<lease, cancelled, intents, accepted>>

\* expires_at passes: by the clock alone once nobody renews, else because of a stall.
LeaseExpires ==
  /\ lease.holder # NoItem /\ lease.live
  /\ IF \E x \in Execs : ~At(x, "idle") /\ Renewable(lease, exec[x].item, exec[x].epoch)
     THEN Spend("lapse")
     ELSE UNCHANGED budget
  /\ lease' = [lease EXCEPT !.live = FALSE]
  /\ UNCHANGED <<cancelled, intents, exec, wire, accepted>>

\* A late renewal brings a lapsed row back: renewPrActorLease never reads expires_at.
LateRenewal(x) ==
  /\ ~At(x, "idle")
  /\ Renewable(lease, exec[x].item, exec[x].epoch) /\ ~lease.live
  /\ Spend("revive")
  /\ lease' = renewPrActorLease(lease)
  /\ UNCHANGED <<cancelled, intents, exec, wire, accepted>>

\* Intake cancels an item and clears the lease it holds.
CancelItem(i) ==
  /\ i \notin cancelled
  /\ Spend("cancel")
  /\ cancelled' = cancelled \cup {i}
  /\ lease' = releasePrActorLeaseHeldByWorkItems(lease, {<<i, lease.epoch>>})
  /\ UNCHANGED <<intents, exec, wire, accepted>>

\* The job's signal or the cancel observer; once the lease is gone, the renewal loop.
Abort(x) ==
  /\ ~At(x, "idle") /\ ~exec[x].aborted
  /\ Spend("abort")
  /\ \E lost \in BOOLEAN :
       /\ lost => ~Renewable(lease, exec[x].item, exec[x].epoch)
       /\ exec' = [exec EXCEPT ![x].aborted = TRUE, ![x].lost = lost]
  /\ UNCHANGED <<lease, cancelled, intents, wire, accepted>>

Crash(x) ==
  /\ ~At(x, "idle")
  /\ Spend("crash")
  /\ exec' = [exec EXCEPT ![x] = IdleExec]
  /\ UNCHANGED <<lease, cancelled, intents, wire, accepted>>

-----------------------------------------------------------------------------
(* Specification *)

ExecStep(x) ==
  \/ \E i \in Items : Claim(x, i)
  \/ \E o \in Ops : Call(x, o)
  \/ Leave(x)
  \/ Persist(x) \/ Decide(x) \/ Lookup(x) \/ ArmCheck(x) \/ Arm(x) \/ SendCheck(x)
  \/ Mark(x) \/ Gate(x) \/ Confirm(x) \/ Send(x) \/ Unsent(x)
  \/ Respond(x) \/ Repersist(x) \/ Evidence(x) \/ Observed(x)
  \/ CheckWrite(x) \/ WriteResult(x) \/ WriteFailure(x)

Environment ==
  \/ \E r \in wire : GithubAccepts(r) \/ GithubRejects(r)
  \/ LeaseExpires
  \/ \E i \in Items : CancelItem(i)
  \/ \E x \in Execs : LateRenewal(x) \/ Abort(x) \/ Crash(x)

Next == Environment \/ \E x \in Execs : ExecStep(x)

Spec == Init /\ [][Next]_vars

-----------------------------------------------------------------------------
(* Properties *)

\* Every variable stays in its type.
TypeOK ==
  /\ lease \in LeaseRow
  /\ cancelled \in SUBSET Items
  /\ intents \in [Ops -> IntentRow]
  /\ exec \in [Execs -> Execution]
  /\ wire \in SUBSET Request
  /\ accepted \in [Ops -> Nat]
  /\ budget \in [Events -> Nat]

Sent(o) == accepted[o] + Cardinality({r \in wire : r.op = o})

\* GitHub never carries out an operation twice, and a second request is never on its
\* way either: not after a crash between the acceptance and the stashed result, a
\* timeout whose request is still accepted later, a stolen lease or a retry.
AtMostOnce == \A o \in Ops : Sent(o) <= 1

\* An intent is marked failed, and so may be sent again, only while nothing of it can
\* have reached GitHub: "a provider-proven pre-acceptance rejection".
FailedIsUnsent == \A o \in Ops : intents[o].status = "failed" => Sent(o) = 0

\* A reconciled intent is never rewritten, and an unknown outcome only by evidence.
OutcomeFinal ==
  [][\A o \in Ops :
       /\ intents[o].status = "reconciled" => intents'[o].status = "reconciled"
       /\ intents[o].status = "outcome_unknown" =>
            intents'[o].status \in {"outcome_unknown", "reconciled"}]_vars

\* A row that says reconciled or holds a result is about something GitHub carried out,
\* whether the sender wrote it, a retry, or the next holder from evidence.
ReconciledIsReal ==
  \A o \in Ops : intents[o].status = "reconciled" \/ intents[o].result => accepted[o] > 0

\* A call of the mutation boundary that returns means that its own mutation was done.
SuccessIsReal == \A x \in Execs : exec[x].outcome = "success" => accepted[exec[x].op] > 0

\* An outcome is declared unknown only if the send of that intent had started: a
\* stalled or crashed holder that armed an intent cannot force outcome_unknown.
UnknownWasStarted ==
  [][\A o \in Ops :
       intents[o].status # "outcome_unknown" /\ intents'[o].status = "outcome_unknown"
         => intents[o].started]_vars

\* How the status of an intent may move, in whatever order the sender, its retries and
\* the next holder write it: outcomes are final, and none is given up before its send.
OutcomesHonest == OutcomeFinal /\ UnknownWasStarted

=============================================================================
