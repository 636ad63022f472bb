-------------------------- MODULE PublishOnceProofs --------------------------
(***************************************************************************)
(* Proofs about PublishOnce.  Typing needs one fact more than the types:   *)
(* an execution inside a call has an operation.  Every step keeps a frame  *)
(* of the intents, their type and the finality of settled outcomes, which  *)
(* is shown once per statement and cited by each action that makes it.     *)
(***************************************************************************)
EXTENDS PublishOnce, TLAPS

(* The inductive invariant *)

\* An execution inside a call has an operation.
BoundOps == \A x \in Execs : exec[x].pc \notin {"idle", "ready"} => exec[x].op \in Ops

IInv == TypeOK /\ BoundOps

ExecFrame ==
  /\ exec' \in [Execs -> Execution]
  /\ \A x \in Execs : exec'[x].pc \notin {"idle", "ready"} => exec'[x].op \in Ops

\* What a statement may do to the status of an intent.
FinalRow(old, new) ==
  /\ old.status = "reconciled" => new.status = "reconciled"
  /\ old.status = "outcome_unknown" => new.status \in {"outcome_unknown", "reconciled"}

IntentFrame ==
  /\ intents' \in [Ops -> IntentRow]
  /\ \A o \in Ops : FinalRow(intents[o], intents'[o])

RestFrame ==
  /\ lease' \in LeaseRow
  /\ cancelled' \in SUBSET Items
  /\ wire' \in SUBSET Request
  /\ accepted' \in [Ops -> Nat]
  /\ budget' \in [Events -> Nat]

Frame == ExecFrame /\ IntentFrame /\ RestFrame

-----------------------------------------------------------------------------
(* The initial state *)

LEMMA IdleTyped == IdleExec \in Execution
BY DEF IdleExec, Execution, Phases, Writes, Modes, Outcomes

LEMMA InitIInv == Init => IInv
<1> SUFFICES ASSUME Init PROVE IInv
  OBVIOUS
<1>1. lease \in LeaseRow /\ cancelled \in SUBSET Items
  BY DEF Init, LeaseRow, NoLease
<1>2. intents \in [Ops -> IntentRow]
  BY DEF Init, AbsentIntent, IntentRow, IntentStatus
<1>3. exec \in [Execs -> Execution] /\ BoundOps
  BY IdleTyped DEF Init, BoundOps, IdleExec
<1>4. wire \in SUBSET Request /\ accepted \in [Ops -> Nat] /\ budget \in [Events -> Nat]
  BY OpsAssumption DEF Init
<1> QED
  BY <1>1, <1>2, <1>3, <1>4 DEF IInv, TypeOK

-----------------------------------------------------------------------------
(* Moves of an execution *)

LEMMA MoveFrame ==
  ASSUME IInv, NEW x \in Execs, NEW r \in Execution,
         r.pc \notin {"idle", "ready"} => r.op \in Ops,
         exec' = [exec EXCEPT ![x] = r]
  PROVE  ExecFrame
BY DEF IInv, TypeOK, BoundOps, ExecFrame

LEMMA ExecTyped ==
  ASSUME IInv, NEW x \in Execs
  PROVE  exec[x] \in Execution
BY DEF IInv, TypeOK

\* Going to another place of the same call.
LEMMA GotoFrame ==
  ASSUME IInv, NEW x \in Execs, NEW pc \in Phases, exec[x].op \in Ops, Goto(x, pc)
  PROVE  ExecFrame
<1>1. [exec[x] EXCEPT !.pc = pc] \in Execution
  BY ExecTyped DEF Execution
<1> QED
  BY <1>1, MoveFrame, ExecTyped DEF Goto, Execution

LEMMA FinishFrame ==
  ASSUME IInv, NEW x \in Execs, NEW outcome \in Outcomes, Finish(x, outcome)
  PROVE  ExecFrame
<1> DEFINE r == [IdleExec EXCEPT !.pc = "ready", !.item = exec[x].item, !.epoch = exec[x].epoch,
                   !.aborted = exec[x].aborted, !.lost = exec[x].lost, !.op = exec[x].op,
                   !.outcome = outcome]
<1>1. r \in Execution /\ r.pc = "ready"
  BY ExecTyped, IdleTyped DEF Execution, Phases, IdleExec
<1>2. exec' = [exec EXCEPT ![x] = r]
  BY DEF Finish
<1> HIDE DEF r
<1> QED
  BY <1>1, <1>2, MoveFrame

LEMMA GotoWriteFrame ==
  ASSUME IInv, NEW x \in Execs, exec[x].op \in Ops, NEW o \in Ops \cup {NoOp},
         NEW k \in Writes, GotoWrite(x, o, k)
  PROVE  ExecFrame
<1> DEFINE r == [exec[x] EXCEPT !.pc = "check", !.target = o, !.write = k]
<1>1. r \in Execution /\ r.op = exec[x].op
  BY ExecTyped DEF Execution, Phases
<1>2. exec' = [exec EXCEPT ![x] = r]
  BY DEF GotoWrite
<1> HIDE DEF r
<1> QED
  BY <1>1, <1>2, MoveFrame

LEMMA RecoverFrame ==
  ASSUME IInv, NEW x \in Execs, exec[x].op \in Ops, NEW o \in Ops \cup {NoOp},
         NEW m \in Modes, Recover(x, o, m)
  PROVE  ExecFrame
<1> DEFINE r == [exec[x] EXCEPT !.pc = "evidence", !.target = o, !.mode = m]
<1>1. r \in Execution /\ r.op = exec[x].op
  BY ExecTyped DEF Execution, Phases
<1>2. exec' = [exec EXCEPT ![x] = r]
  BY DEF Recover
<1> HIDE DEF r
<1> QED
  BY <1>1, <1>2, MoveFrame

LEMMA NotReadyOutcomes ==
  ASSUME NEW x \in Execs
  PROVE  NotReadyOutcome(x) \in Outcomes
BY DEF NotReadyOutcome, Outcomes

LEMMA SameExec ==
  ASSUME IInv, UNCHANGED exec
  PROVE  ExecFrame
BY DEF IInv, TypeOK, BoundOps, ExecFrame

LEMMA SpendFrame ==
  ASSUME IInv, NEW e \in Events, Spend(e)
  PROVE  budget' \in [Events -> Nat]
BY DEF IInv, TypeOK, Spend

-----------------------------------------------------------------------------
(* Statements over the intents *)

LEMMA SameIntents ==
  ASSUME IInv, UNCHANGED intents
  PROVE  IntentFrame
BY DEF IInv, TypeOK, IntentFrame, FinalRow

LEMMA SetIntentFrame ==
  ASSUME IInv, NEW o, NEW row, SetIntent(o, row),
         o \in Ops => row \in IntentRow /\ FinalRow(intents[o], row)
  PROVE  IntentFrame
<1>1. CASE o \in Ops
  BY <1>1 DEF IInv, TypeOK, IntentFrame, FinalRow, SetIntent
<1>2. CASE o \notin Ops
  BY <1>2 DEF IInv, TypeOK, IntentFrame, FinalRow, SetIntent
<1> QED
  BY <1>1, <1>2

LEMMA PersistIntentFrame ==
  ASSUME IInv, NEW o, persistOperationIntent(o)
  PROVE  IntentFrame
<1>1. [AbsentIntent EXCEPT !.status = "pending"] \in IntentRow
  BY DEF AbsentIntent, IntentRow, IntentStatus
<1>2. CASE intents[o].status = "absent"
  BY <1>1, <1>2, SetIntentFrame DEF persistOperationIntent, FinalRow
<1>3. CASE intents[o].status # "absent"
  BY <1>3, SameIntents DEF persistOperationIntent
<1> QED
  BY <1>2, <1>3

\* mergeOperationIntentDetail only finds pending and failed rows.
LEMMA MergeFrame ==
  ASSUME IInv, NEW o, Mergeable(o), NEW row, SetIntent(o, row),
         o \in Ops => row \in IntentRow
  PROVE  IntentFrame
BY SetIntentFrame DEF Mergeable, FinalRow

LEMMA ReconcileFrame ==
  ASSUME IInv, NEW x, NEW o, NEW row, reconcileOperationIntent(x, o, row),
         o \in Ops => row \in IntentRow
  PROVE  IntentFrame
<1>1. CASE Held(x) /\ Reconcilable(o, row.status)
  <2>1. FinalRow(intents[o], row)
    BY <1>1 DEF Reconcilable, FinalRow
  <2> QED
    BY <1>1, <2>1, SetIntentFrame DEF reconcileOperationIntent
<1>2. CASE ~(Held(x) /\ Reconcilable(o, row.status))
  BY <1>2, SameIntents DEF reconcileOperationIntent
<1> QED
  BY <1>1, <1>2

LEMMA RowsTyped ==
  ASSUME IInv, NEW o \in Ops
  PROVE  /\ \A e \in Nat : Armed(o, e) \in IntentRow
         /\ [Merged(o) EXCEPT !.started = TRUE] \in IntentRow
         /\ [Merged(o) EXCEPT !.result = TRUE] \in IntentRow
         /\ [intents[o] EXCEPT !.mutating = FALSE] \in IntentRow
         /\ Reconciled(o) \in IntentRow
         /\ \A s \in IntentStatus, t \in BOOLEAN : Settled(o, s, t) \in IntentRow
<1>1. intents[o] \in IntentRow
  BY DEF IInv, TypeOK
<1>2. Merged(o) \in IntentRow
  BY <1>1 DEF Merged, IntentRow, IntentStatus
<1> QED
  BY <1>1, <1>2 DEF Armed, Reconciled, Settled, IntentRow, IntentStatus

-----------------------------------------------------------------------------
(* The actions of an execution *)

LEMMA SameRest ==
  ASSUME IInv, UNCHANGED <<lease, cancelled, wire, accepted, budget>>
  PROVE  RestFrame
BY DEF IInv, TypeOK, RestFrame

LEMMA SpentRest ==
  ASSUME IInv, UNCHANGED <<lease, cancelled, wire, accepted>>,
         NEW e \in Events, Spend(e)
  PROVE  RestFrame
BY SpendFrame DEF IInv, TypeOK, RestFrame

LEMMA InCall ==
  ASSUME IInv, NEW x \in Execs, NEW pc, At(x, pc), pc \notin {"idle", "ready"}
  PROVE  exec[x].op \in Ops
BY DEF IInv, BoundOps, At

LEMMA ExecFields ==
  ASSUME IInv, NEW x \in Execs
  PROVE  /\ exec[x].target \in Ops \cup {NoOp} /\ exec[x].op \in Ops \cup {NoOp}
         /\ exec[x].epoch \in Nat
BY ExecTyped DEF Execution

LEMMA ClaimFrame ==
  ASSUME IInv, NEW x \in Execs, NEW i \in Items, Claim(x, i)
  PROVE  Frame
<1> DEFINE r == [IdleExec EXCEPT !.pc = "ready", !.item = i, !.epoch = lease.epoch + 1]
<1>1. lease' \in LeaseRow /\ lease.epoch + 1 \in Nat
  BY DEF Claim, acquirePrActorLease, IInv, TypeOK, LeaseRow
<1>2. r \in Execution /\ r.pc = "ready"
  BY <1>1, IdleTyped DEF Execution, Phases, IdleExec
<1>3. exec' = [exec EXCEPT ![x] = r]
  BY DEF Claim
<1>4. ExecFrame
  <2> HIDE DEF r
  <2> QED
    BY <1>2, <1>3, MoveFrame
<1>5. budget' \in [Events -> Nat]
  BY SpendFrame DEF Claim, Events
<1>6. IntentFrame
  BY SameIntents DEF Claim
<1> QED
  BY <1>1, <1>4, <1>5, <1>6 DEF Claim, Frame, RestFrame, IInv, TypeOK

LEMMA CallFrame ==
  ASSUME IInv, NEW x \in Execs, NEW o \in Ops, Call(x, o)
  PROVE  Frame
<1>1. RestFrame /\ IntentFrame
  BY SpentRest, SameIntents DEF Call, Events
<1>2. [exec[x] EXCEPT !.op = o, !.outcome = "aborted"] \in Execution
  BY ExecTyped DEF Execution, Outcomes
<1>3. [exec[x] EXCEPT !.pc = "persist", !.op = o, !.outcome = "none"] \in Execution
  BY ExecTyped DEF Execution, Outcomes, Phases
<1>4. ExecFrame
  <2>1. CASE exec[x].aborted \/ exec[x].item \in cancelled
    BY <1>2, <2>1, MoveFrame, ExecTyped DEF Call, Execution
  <2>2. CASE ~(exec[x].aborted \/ exec[x].item \in cancelled)
    BY <1>3, <2>2, MoveFrame, ExecTyped DEF Call, Execution
  <2> QED
    BY <2>1, <2>2
<1> QED
  BY <1>1, <1>4 DEF Frame

LEMMA ReleaseTyped ==
  ASSUME IInv
  PROVE  /\ Cleared(lease) \in LeaseRow
         /\ \A e : releasePrActorLease(lease, e) \in LeaseRow
         /\ \A S : releasePrActorLeaseHeldByWorkItems(lease, S) \in LeaseRow
<1>1. Cleared(lease) \in LeaseRow
  BY DEF IInv, TypeOK, LeaseRow, Cleared
<1> QED
  BY <1>1 DEF IInv, TypeOK, releasePrActorLease, releasePrActorLeaseHeldByWorkItems

LEMMA BackToIdle ==
  ASSUME IInv, NEW x \in Execs, exec' = [exec EXCEPT ![x] = IdleExec]
  PROVE  ExecFrame
BY IdleTyped, MoveFrame DEF IdleExec

LEMMA LeaveFrame ==
  ASSUME IInv, NEW x \in Execs, Leave(x)
  PROVE  Frame
<1>1. ExecFrame /\ IntentFrame
  BY BackToIdle, SameIntents DEF Leave
<1> QED
  BY <1>1, ReleaseTyped DEF Leave, Frame, RestFrame, IInv, TypeOK

LEMMA PersistFrame ==
  ASSUME IInv, NEW x \in Execs, Persist(x)
  PROVE  Frame
<1>1. RestFrame
  BY SameRest DEF Persist
<1>2. exec[x].op \in Ops
  BY InCall DEF Persist
<1>3. CASE Ready(x)
  BY <1>1, <1>2, <1>3, PersistIntentFrame, GotoFrame DEF Persist, Frame, Phases
<1>4. CASE ~Ready(x)
  BY <1>1, <1>4, SameIntents, FinishFrame, NotReadyOutcomes DEF Persist, Frame
<1> QED
  BY <1>3, <1>4

LEMMA DecideFrame ==
  ASSUME IInv, NEW x \in Execs, Decide(x)
  PROVE  Frame
<1>1. RestFrame /\ IntentFrame
  BY SameRest, SameIntents DEF Decide
<1>2. exec[x].op \in Ops
  BY InCall DEF Decide
<1>3. \/ \E outcome \in Outcomes : Finish(x, outcome)
      \/ GotoWrite(x, exec[x].op, "resume")
      \/ Recover(x, exec[x].op, "inflight")
      \/ Goto(x, "lookup")
  BY NotReadyOutcomes DEF Decide, Outcomes
<1>4. ExecFrame
  BY <1>2, <1>3, FinishFrame, GotoWriteFrame, RecoverFrame, GotoFrame DEF Writes, Modes, Phases
<1> QED
  BY <1>1, <1>4 DEF Frame

LEMMA LookupFrame ==
  ASSUME IInv, NEW x \in Execs, Lookup(x)
  PROVE  Frame
<1>1. RestFrame /\ IntentFrame
  BY SameRest, SameIntents DEF Lookup
<1>2. exec[x].op \in Ops
  BY InCall DEF Lookup
<1>3. (\E o \in Ops : Recover(x, o, "inflight")) \/ Goto(x, "armCheck")
  BY DEF Lookup, findInFlightMutatingIntent
<1>4. ExecFrame
  BY <1>2, <1>3, RecoverFrame, GotoFrame DEF Modes, Phases
<1> QED
  BY <1>1, <1>4 DEF Frame

\* ArmCheck, SendCheck, Gate and Confirm: only reads.
LEMMA ChecksFrame ==
  ASSUME IInv, NEW x \in Execs, ArmCheck(x) \/ SendCheck(x) \/ Gate(x) \/ Confirm(x)
  PROVE  Frame
<1>1. RestFrame /\ IntentFrame
  BY SameRest, SameIntents DEF ArmCheck, SendCheck, Gate, Confirm
<1>2. exec[x].op \in Ops
  BY InCall DEF ArmCheck, SendCheck, Gate, Confirm
<1>3. \/ \E pc \in Phases : Goto(x, pc)
      \/ Finish(x, "leaseLost")
      \/ GotoWrite(x, exec[x].op, "failed")
  BY DEF ArmCheck, SendCheck, Gate, Confirm, Phases
<1>4. ExecFrame
  BY <1>2, <1>3, GotoFrame, FinishFrame, GotoWriteFrame DEF Outcomes, Writes
<1> QED
  BY <1>1, <1>4 DEF Frame

LEMMA ArmFrame ==
  ASSUME IInv, NEW x \in Execs, Arm(x)
  PROVE  Frame
<1>1. RestFrame
  BY SameRest DEF Arm
<1>2. exec[x].op \in Ops /\ exec[x].epoch \in Nat
  BY InCall, ExecFields DEF Arm
<1>3. ExecFrame
  BY <1>2, GotoFrame DEF Arm, Phases
<1>4. IntentFrame
  <2>1. Armed(exec[x].op, exec[x].epoch) \in IntentRow
    BY <1>2, RowsTyped
  <2> QED
    BY <2>1, MergeFrame, SameIntents DEF Arm
<1> QED
  BY <1>1, <1>3, <1>4 DEF Frame

LEMMA MarkFrame ==
  ASSUME IInv, NEW x \in Execs, Mark(x)
  PROVE  Frame
<1>1. RestFrame
  BY SameRest DEF Mark
<1>2. exec[x].op \in Ops
  BY InCall DEF Mark
<1>3. ExecFrame
  BY <1>2, GotoFrame DEF Mark, Phases
<1>4. IntentFrame
  <2>1. [Merged(exec[x].op) EXCEPT !.started = TRUE] \in IntentRow
    BY <1>2, RowsTyped
  <2> QED
    BY <2>1, MergeFrame, SameIntents DEF Mark
<1> QED
  BY <1>1, <1>3, <1>4 DEF Frame

LEMMA SendFrame ==
  ASSUME IInv, NEW x \in Execs, Send(x)
  PROVE  Frame
<1>1. exec[x].op \in Ops /\ exec[x].epoch \in Nat
  BY InCall, ExecFields DEF Send
<1>2. wire' \in SUBSET Request
  BY <1>1 DEF Send, Request, IInv, TypeOK
<1>3. ExecFrame
  <2> DEFINE r == [exec[x] EXCEPT !.pc = "await", !.reply = "none"]
  <2>1. r \in Execution /\ r.op = exec[x].op
    BY ExecTyped DEF Execution, Phases
  <2>2. exec' = [exec EXCEPT ![x] = r]
    BY DEF Send
  <2> HIDE DEF r
  <2> QED
    BY <1>1, <2>1, <2>2, MoveFrame
<1>4. IntentFrame
  BY SameIntents DEF Send
<1> QED
  BY <1>2, <1>3, <1>4 DEF Send, Frame, RestFrame, IInv, TypeOK

LEMMA UnsentFrame ==
  ASSUME IInv, NEW x \in Execs, Unsent(x)
  PROVE  Frame
<1> DEFINE o == exec[x].op
           row == [intents[o] EXCEPT !.mutating = FALSE]
<1>1. RestFrame
  BY SameRest DEF Unsent
<1>2. ExecFrame
  BY FinishFrame DEF Unsent, Outcomes
<1>3. o \in Ops
  BY InCall DEF Unsent
<1>4. row \in IntentRow
  BY <1>3, RowsTyped
<1>5. \/ intents[o].status = "pending" /\ SetIntent(o, row)
      \/ UNCHANGED intents
  BY DEF Unsent
<1>6. IntentFrame
  <2>1. CASE intents[o].status = "pending" /\ SetIntent(o, row)
    <3>1. FinalRow(intents[o], row)
      BY <2>1 DEF FinalRow
    <3> HIDE DEF row
    <3> QED
      BY <2>1, <3>1, <1>4, SetIntentFrame
  <2> QED
    BY <2>1, <1>5, SameIntents
<1> QED
  BY <1>1, <1>2, <1>6 DEF Frame

LEMMA RespondFrame ==
  ASSUME IInv, NEW x \in Execs, Respond(x)
  PROVE  Frame
<1>1. IntentFrame
  BY SameIntents DEF Respond
<1>2. RestFrame
  BY SameRest, SpentRest DEF Respond, Events
<1>3. exec[x].op \in Ops
  BY InCall DEF Respond
<1>4. \/ \E k \in Writes : GotoWrite(x, exec[x].op, k)
      \/ Finish(x, "terminal")
      \/ Goto(x, "repersist")
  BY DEF Respond, Writes
<1>5. ExecFrame
  BY <1>3, <1>4, GotoFrame, FinishFrame, GotoWriteFrame DEF Outcomes, Phases
<1> QED
  BY <1>1, <1>2, <1>5 DEF Frame

LEMMA RepersistFrame ==
  ASSUME IInv, NEW x \in Execs, Repersist(x)
  PROVE  Frame
<1>1. RestFrame
  BY SameRest DEF Repersist
<1>2. exec[x].op \in Ops
  BY InCall DEF Repersist
<1>3. CASE Held(x)
  BY <1>1, <1>2, <1>3, PersistIntentFrame, RecoverFrame DEF Repersist, Frame, Modes
<1>4. CASE ~Held(x)
  BY <1>1, <1>4, SameIntents, FinishFrame DEF Repersist, Frame, Outcomes
<1> QED
  BY <1>3, <1>4

LEMMA EvidenceFrame ==
  ASSUME IInv, NEW x \in Execs, Evidence(x)
  PROVE  Frame
<1> DEFINE r == [exec[x] EXCEPT !.pc = "observed", !.found = HasEvidence(exec[x].target)]
<1>1. IntentFrame
  BY SameIntents DEF Evidence
<1>2. RestFrame
  BY SameRest, SpentRest DEF Evidence, Events
<1>3. exec[x].op \in Ops
  BY InCall DEF Evidence
<1>4. HasEvidence(exec[x].target) \in BOOLEAN
  BY DEF HasEvidence
<1>5. r \in Execution /\ r.op = exec[x].op
  BY <1>4, ExecTyped DEF Execution, Phases
<1>6. CASE exec' = [exec EXCEPT ![x] = r]
  <2> HIDE DEF r
  <2> QED
    BY <1>1, <1>2, <1>3, <1>5, <1>6, MoveFrame DEF Frame
<1>7. CASE \E outcome \in Outcomes : Finish(x, outcome)
  BY <1>1, <1>2, <1>7, FinishFrame DEF Frame
<1>8. (IF Ready(x) THEN "recoveryFailed" ELSE NotReadyOutcome(x)) \in Outcomes
  BY NotReadyOutcomes DEF Outcomes
<1> QED
  BY <1>6, <1>7, <1>8 DEF Evidence

LEMMA ObservedFrame ==
  ASSUME IInv, NEW x \in Execs, Observed(x)
  PROVE  Frame
<1>1. RestFrame /\ IntentFrame
  BY SameRest, SameIntents DEF Observed
<1>2. exec[x].op \in Ops /\ exec[x].target \in Ops \cup {NoOp}
  BY InCall, ExecFields DEF Observed
<1>3. \/ \E outcome \in Outcomes : Finish(x, outcome)
      \/ \E k \in Writes : GotoWrite(x, exec[x].target, k)
  BY NotReadyOutcomes DEF Observed, Outcomes, Writes
<1>4. ExecFrame
  BY <1>2, <1>3, FinishFrame, GotoWriteFrame
<1> QED
  BY <1>1, <1>4 DEF Frame

LEMMA CheckWriteFrame ==
  ASSUME IInv, NEW x \in Execs, CheckWrite(x)
  PROVE  Frame
<1>1. RestFrame /\ IntentFrame
  BY SameRest, SameIntents DEF CheckWrite
<1>2. exec[x].op \in Ops
  BY InCall DEF CheckWrite
<1>3. Goto(x, "write") \/ \E outcome \in Outcomes : Finish(x, outcome)
  BY NotReadyOutcomes DEF CheckWrite, Outcomes
<1>4. ExecFrame
  BY <1>2, <1>3, FinishFrame, GotoFrame DEF Phases
<1> QED
  BY <1>1, <1>4 DEF Frame

LEMMA WriteResultFrame ==
  ASSUME IInv, NEW x \in Execs, WriteResult(x)
  PROVE  Frame
<1> DEFINE o == exec[x].target
<1>1. RestFrame
  BY SameRest DEF WriteResult
<1>2. exec[x].op \in Ops /\ o \in Ops \cup {NoOp}
  BY InCall, ExecFields DEF WriteResult
<1>3. CASE exec[x].write = "stash"
  <2>1. GotoWrite(x, o, "done")
    BY <1>3 DEF WriteResult
  <2>2. ExecFrame
    BY <1>2, <2>1, GotoWriteFrame DEF Writes
  <2>3. o \in Ops => [Merged(o) EXCEPT !.result = TRUE] \in IntentRow
    BY RowsTyped
  <2>4. \/ Mergeable(o) /\ SetIntent(o, [Merged(o) EXCEPT !.result = TRUE])
        \/ UNCHANGED intents
    BY <1>3 DEF WriteResult
  <2>5. IntentFrame
    BY <2>3, <2>4, MergeFrame, SameIntents
  <2> QED
    BY <1>1, <2>2, <2>5 DEF Frame
<1>4. CASE exec[x].write # "stash"
  <2>1. Finish(x, "success") /\ reconcileOperationIntent(x, o, Reconciled(o))
    BY <1>4 DEF WriteResult
  <2>2. ExecFrame
    BY <2>1, FinishFrame DEF Outcomes
  <2>3. IntentFrame
    BY <2>1, RowsTyped, ReconcileFrame
  <2> QED
    BY <1>1, <2>2, <2>3 DEF Frame
<1> QED
  BY <1>3, <1>4

LEMMA WriteFailureFrame ==
  ASSUME IInv, NEW x \in Execs, WriteFailure(x)
  PROVE  Frame
<1> DEFINE o == exec[x].target
<1>1. RestFrame
  BY SameRest DEF WriteFailure
<1>2. \E outcome \in Outcomes : Finish(x, outcome)
  BY DEF WriteFailure, Outcomes
<1>3. ExecFrame
  BY <1>2, FinishFrame
<1>4. \E s \in IntentStatus, t \in BOOLEAN : reconcileOperationIntent(x, o, Settled(o, s, t))
  BY DEF WriteFailure, IntentStatus
<1>5. IntentFrame
  BY <1>4, RowsTyped, ReconcileFrame
<1> QED
  BY <1>1, <1>3, <1>5 DEF Frame

-----------------------------------------------------------------------------
(* The environment *)

LEMMA ReplyFrame ==
  ASSUME IInv, NEW r, NEW s \in {"ok", "rejected"}, Reply(r, s)
  PROVE  ExecFrame
<1>1. \A x \in Execs : [exec[x] EXCEPT !.reply = s] \in Execution
  BY ExecTyped DEF Execution
<1>2. \A x \in Execs : /\ exec'[x] \in Execution
                       /\ exec'[x].pc = exec[x].pc /\ exec'[x].op = exec[x].op
  BY <1>1, ExecTyped DEF Reply, Execution
<1> QED
  BY <1>2 DEF Reply, ExecFrame, IInv, BoundOps

LEMMA GithubFrame ==
  ASSUME IInv, NEW r \in wire, GithubAccepts(r) \/ GithubRejects(r)
  PROVE  Frame
<1>1. IntentFrame
  BY SameIntents DEF GithubAccepts, GithubRejects
<1>2. ExecFrame
  BY ReplyFrame DEF GithubAccepts, GithubRejects
<1>3. r.op \in Ops
  BY DEF IInv, TypeOK, Request
<1>4. CASE GithubAccepts(r)
  <2>1. wire' \in SUBSET Request /\ accepted' \in [Ops -> Nat]
    BY <1>3, <1>4 DEF GithubAccepts, IInv, TypeOK
  <2> QED
    BY <1>1, <1>2, <1>4, <2>1 DEF GithubAccepts, Frame, RestFrame, IInv, TypeOK
<1>5. CASE GithubRejects(r)
  <2>1. wire' \in SUBSET Request /\ budget' \in [Events -> Nat]
    BY <1>5, SpendFrame DEF GithubRejects, IInv, TypeOK, Events
  <2> QED
    BY <1>1, <1>2, <1>5, <2>1 DEF GithubRejects, Frame, RestFrame, IInv, TypeOK
<1> QED
  BY <1>4, <1>5

LEMMA LeaseEventsFrame ==
  ASSUME IInv,
         \/ LeaseExpires
         \/ \E i \in Items : CancelItem(i)
         \/ \E x \in Execs : LateRenewal(x)
  PROVE  Frame
<1>1. IntentFrame /\ ExecFrame
  BY SameIntents, SameExec DEF LeaseExpires, CancelItem, LateRenewal
<1>2. lease' \in LeaseRow
  BY ReleaseTyped
     DEF LeaseExpires, CancelItem, LateRenewal, renewPrActorLease, IInv, TypeOK, LeaseRow
<1>3. budget' \in [Events -> Nat]
  BY SpendFrame DEF LeaseExpires, CancelItem, LateRenewal, Events, IInv, TypeOK
<1>4. cancelled' \in SUBSET Items
  BY DEF LeaseExpires, CancelItem, LateRenewal, IInv, TypeOK
<1> QED
  BY <1>1, <1>2, <1>3, <1>4
     DEF LeaseExpires, CancelItem, LateRenewal, Frame, RestFrame, IInv, TypeOK

LEMMA AbortFrame ==
  ASSUME IInv, NEW x \in Execs, Abort(x)
  PROVE  Frame
<1>1. IntentFrame /\ RestFrame
  BY SameIntents, SpentRest DEF Abort, Events
<1>2. PICK lost \in BOOLEAN : exec' = [exec EXCEPT ![x].aborted = TRUE, ![x].lost = lost]
  BY DEF Abort
<1> DEFINE r == [exec[x] EXCEPT !.aborted = TRUE, !.lost = lost]
<1>3. r \in Execution /\ r.pc = exec[x].pc /\ r.op = exec[x].op
  BY ExecTyped DEF Execution
<1>4. exec' = [exec EXCEPT ![x] = r]
  BY <1>2 DEF IInv, TypeOK
<1>5. exec[x].pc \notin {"idle", "ready"} => exec[x].op \in Ops
  BY DEF IInv, BoundOps
<1> HIDE DEF r
<1> QED
  BY <1>1, <1>3, <1>4, <1>5, MoveFrame DEF Frame

LEMMA CrashFrame ==
  ASSUME IInv, NEW x \in Execs, Crash(x)
  PROVE  Frame
BY SameIntents, SpentRest, BackToIdle DEF Crash, Events, Frame

-----------------------------------------------------------------------------
(* Theorems *)

LEMMA StepFrame ==
  ASSUME IInv, [Next]_vars
  PROVE  Frame
<1>1. CASE UNCHANGED vars
  BY <1>1, SameExec, SameIntents, SameRest DEF vars, Frame
<1>2. CASE Environment
  BY <1>2, GithubFrame, LeaseEventsFrame, AbortFrame, CrashFrame DEF Environment
<1>3. ASSUME NEW x \in Execs, ExecStep(x)
      PROVE  Frame
  BY <1>3, ClaimFrame, CallFrame, LeaveFrame, PersistFrame, DecideFrame, LookupFrame,
     ChecksFrame, ArmFrame, MarkFrame, SendFrame, UnsentFrame, RespondFrame, RepersistFrame,
     EvidenceFrame, ObservedFrame, CheckWriteFrame, WriteResultFrame, WriteFailureFrame
     DEF ExecStep
<1> QED
  BY <1>1, <1>2, <1>3 DEF Next

LEMMA FrameKeepsIInv ==
  ASSUME IInv, Frame
  PROVE  IInv'
BY DEF Frame, ExecFrame, IntentFrame, RestFrame, IInv, TypeOK, BoundOps

LEMMA FrameKeepsOutcomes ==
  ASSUME Frame
  PROVE  \A o \in Ops :
           /\ intents[o].status = "reconciled" => intents'[o].status = "reconciled"
           /\ intents[o].status = "outcome_unknown" =>
                intents'[o].status \in {"outcome_unknown", "reconciled"}
BY DEF Frame, IntentFrame, FinalRow

THEOREM Inductive == Spec => []IInv
<1>1. IInv /\ [Next]_vars => IInv'
  BY StepFrame, FrameKeepsIInv
<1> QED
  BY <1>1, InitIInv, PTL DEF Spec

\* Whatever GitHub, the clock and intake do, and however many executions there are,
\* every state of the publishing protocol is well typed.
THEOREM TypeCorrect == Spec => []TypeOK
<1>1. IInv => TypeOK
  BY DEF IInv
<1> QED
  BY <1>1, Inductive, PTL

\* No statement of operationIntentRepository.ts rewrites a reconciled intent, nor an
\* unknown outcome except by evidence: not a late failure, a retry's insert, an arming
\* write or the release of an unsent intent.
THEOREM OutcomesAreFinal == Spec => OutcomeFinal
<1>1. IInv /\ [Next]_vars =>
        [\A o \in Ops :
           /\ intents[o].status = "reconciled" => intents'[o].status = "reconciled"
           /\ intents[o].status = "outcome_unknown" =>
                intents'[o].status \in {"outcome_unknown", "reconciled"}]_vars
  BY StepFrame, FrameKeepsOutcomes
<1> QED
  BY <1>1, Inductive, PTL DEF Spec, OutcomeFinal

-----------------------------------------------------------------------------
(* What is recorded as done was done *)

\* The writes that record a success.
SuccessWrites == {"stash", "done", "resume", "recovered"}

\* Whatever an execution takes for a success rests on something GitHub carried out.
RestsOnAccepted(x) ==
  /\ exec[x].reply # "none" => exec[x].pc \notin {"idle", "ready"}
  /\ exec[x].reply = "ok" => accepted[exec[x].op] > 0
  /\ exec[x].pc \in {"check", "write"} /\ exec[x].write \in SuccessWrites =>
       exec[x].target \in Ops /\ accepted[exec[x].target] > 0
  /\ exec[x].pc = "observed" /\ exec[x].found =>
       exec[x].target \in Ops /\ accepted[exec[x].target] > 0

RInv == IInv /\ ReconciledIsReal /\ \A x \in Execs : RestsOnAccepted(x)

\* GitHub takes nothing back.
Grows == \A o \in Ops : accepted[o] > 0 => accepted'[o] > 0

\* The others' grounds stay as they are.
LEMMA OthersRest ==
  ASSUME RInv, Grows, NEW x \in Execs, exec'[x] = exec[x]
  PROVE  RestsOnAccepted(x)'
<1>1. exec[x].reply # "none" => exec[x].op \in Ops
  BY DEF RInv, RestsOnAccepted, IInv, BoundOps
<1> QED
  BY <1>1 DEF RInv, RestsOnAccepted, Grows

\* The forms in which an execution moves on within a call.
LEMMA MovesRest ==
  ASSUME RInv, Grows, NEW x \in Execs, exec[x].pc \notin {"idle", "ready"}
  PROVE  /\ \A pc \in Phases \ {"idle", "ready", "check", "write", "observed"} :
              Goto(x, pc) => RestsOnAccepted(x)'
         /\ exec[x].pc = "check" /\ Goto(x, "write") => RestsOnAccepted(x)'
         /\ \A outcome : Finish(x, outcome) => RestsOnAccepted(x)'
         /\ \A o, k : GotoWrite(x, o, k) /\ (k \in SuccessWrites => o \in Ops /\ accepted[o] > 0)
                        => RestsOnAccepted(x)'
         /\ \A o, m : Recover(x, o, m) => RestsOnAccepted(x)'
<1>1. /\ exec \in [Execs -> Execution] /\ exec[x] \in Execution /\ exec[x].op \in Ops
      /\ RestsOnAccepted(x)
  BY ExecTyped DEF RInv, IInv, TypeOK, BoundOps
<1>2. ASSUME NEW pc \in Phases \ {"idle", "ready", "check", "write", "observed"}, Goto(x, pc)
      PROVE  RestsOnAccepted(x)'
  BY <1>1, <1>2 DEF Goto, Execution, RestsOnAccepted, Grows
<1>3. ASSUME exec[x].pc = "check", Goto(x, "write")
      PROVE  RestsOnAccepted(x)'
  BY <1>1, <1>3 DEF Goto, Execution, RestsOnAccepted, Grows
<1>4. ASSUME NEW outcome, Finish(x, outcome)
      PROVE  RestsOnAccepted(x)'
  <2> DEFINE r == [IdleExec EXCEPT !.pc = "ready", !.item = exec[x].item, !.epoch = exec[x].epoch,
                     !.aborted = exec[x].aborted, !.lost = exec[x].lost, !.op = exec[x].op,
                     !.outcome = outcome]
  <2>1. r.pc = "ready" /\ r.reply = "none"
    BY DEF IdleExec
  <2>2. exec' = [exec EXCEPT ![x] = r]
    BY <1>4 DEF Finish
  <2> HIDE DEF r
  <2> QED
    BY <1>1, <2>1, <2>2 DEF RestsOnAccepted
<1>5. ASSUME NEW o, NEW k, GotoWrite(x, o, k), k \in SuccessWrites => o \in Ops /\ accepted[o] > 0
      PROVE  RestsOnAccepted(x)'
  <2> DEFINE r == [exec[x] EXCEPT !.pc = "check", !.target = o, !.write = k]
  <2>1. r.pc = "check" /\ r.target = o /\ r.write = k /\ r.reply = exec[x].reply /\ r.op = exec[x].op
    BY <1>1 DEF Execution
  <2>2. exec' = [exec EXCEPT ![x] = r]
    BY <1>5 DEF GotoWrite
  <2> HIDE DEF r
  <2> QED
    BY <1>1, <1>5, <2>1, <2>2 DEF RestsOnAccepted, Grows
<1>6. ASSUME NEW o, NEW m, Recover(x, o, m)
      PROVE  RestsOnAccepted(x)'
  <2> DEFINE r == [exec[x] EXCEPT !.pc = "evidence", !.target = o, !.mode = m]
  <2>1. r.pc = "evidence" /\ r.reply = exec[x].reply /\ r.op = exec[x].op
    BY <1>1 DEF Execution
  <2>2. exec' = [exec EXCEPT ![x] = r]
    BY <1>6 DEF Recover
  <2> HIDE DEF r
  <2> QED
    BY <1>1, <2>1, <2>2 DEF RestsOnAccepted, Grows
<1> QED
  BY <1>2, <1>3, <1>4, <1>5, <1>6

\* A row that is written keeps its ground when it records nothing new, or something done.
RowRests(o, row) == (row.status = "reconciled" \/ row.result) /\ o \in Ops => accepted[o] > 0

\* The statements over the intents record nothing that was not done.
LEMMA StatementsRest ==
  ASSUME RInv, Grows
  PROVE  /\ UNCHANGED intents => ReconciledIsReal'
         /\ \A o, row : SetIntent(o, row) /\ RowRests(o, row) => ReconciledIsReal'
         /\ \A o : persistOperationIntent(o) => ReconciledIsReal'
         /\ \A x, o, row : reconcileOperationIntent(x, o, row) /\ RowRests(o, row)
                             => ReconciledIsReal'
<1>1. intents \in [Ops -> IntentRow]
  BY DEF RInv, IInv, TypeOK
<1>2. UNCHANGED intents => ReconciledIsReal'
  BY DEF RInv, ReconciledIsReal, Grows
<1>3. \A o, row : SetIntent(o, row) /\ RowRests(o, row) => ReconciledIsReal'
  BY <1>1 DEF RInv, ReconciledIsReal, Grows, SetIntent, RowRests
<1>4. \A o : persistOperationIntent(o) => ReconciledIsReal'
  <2>1. [AbsentIntent EXCEPT !.status = "pending"].status = "pending"
        /\ ~[AbsentIntent EXCEPT !.status = "pending"].result
    BY DEF AbsentIntent
  <2> QED
    BY <1>2, <1>3, <2>1 DEF persistOperationIntent, RowRests
<1> QED
  BY <1>2, <1>3, <1>4 DEF reconcileOperationIntent

\* The rows the statements write.
LEMMA RowsRest ==
  ASSUME RInv, NEW o \in Ops
  PROVE  /\ \A e : RowRests(o, Armed(o, e))
         /\ RowRests(o, [Merged(o) EXCEPT !.started = TRUE])
         /\ RowRests(o, [intents[o] EXCEPT !.mutating = FALSE])
         /\ \A s \in {"failed", "outcome_unknown"} : \A t : RowRests(o, Settled(o, s, t))
         /\ accepted[o] > 0 => RowRests(o, Reconciled(o)) /\ RowRests(o, [Merged(o) EXCEPT !.result = TRUE])
<1>1. /\ intents[o] \in IntentRow
      /\ intents[o].status = "reconciled" \/ intents[o].result => accepted[o] > 0
  BY DEF RInv, IInv, TypeOK, ReconciledIsReal
<1>2. /\ Merged(o).status = "pending" /\ Merged(o).result = intents[o].result
      /\ Merged(o) \in IntentRow
  BY <1>1 DEF Merged, IntentRow, IntentStatus
<1>3. \A e : Armed(o, e).status = "pending" /\ Armed(o, e).result = intents[o].result
  BY <1>2 DEF Armed, IntentRow
<1>4. /\ [Merged(o) EXCEPT !.started = TRUE].status = "pending"
      /\ [Merged(o) EXCEPT !.started = TRUE].result = intents[o].result
  BY <1>2 DEF IntentRow
<1>5. /\ [intents[o] EXCEPT !.mutating = FALSE].status = intents[o].status
      /\ [intents[o] EXCEPT !.mutating = FALSE].result = intents[o].result
  BY <1>1 DEF IntentRow
<1>6. \A s, t : Settled(o, s, t).status = s /\ Settled(o, s, t).result = intents[o].result
  BY <1>1 DEF Settled, IntentRow
<1> QED
  BY <1>1, <1>3, <1>4, <1>5, <1>6 DEF RowRests

\* The part of the invariant an action moves: its own execution, the rows, what GitHub did.
RestStep(x) ==
  /\ RestsOnAccepted(x)' /\ ReconciledIsReal' /\ Grows
  /\ \A y \in Execs \ {x} : exec'[y] = exec[y]

LEMMA RestStepKeeps ==
  ASSUME RInv, IInv', NEW x \in Execs, RestStep(x)
  PROVE  RInv'
BY OthersRest DEF RestStep, RInv

\* An execution enters and leaves without a reply.
LEMMA EntryRests ==
  ASSUME RInv, NEW x \in Execs,
         \/ \E i \in Items : Claim(x, i)
         \/ \E o \in Ops : Call(x, o)
         \/ Leave(x) \/ Crash(x)
  PROVE  RestStep(x)
<1>1. /\ exec \in [Execs -> Execution] /\ exec[x] \in Execution
      /\ RestsOnAccepted(x)
  BY ExecTyped DEF RInv, IInv, TypeOK
<1>2. Grows /\ ReconciledIsReal'
  BY StatementsRest DEF Claim, Call, Leave, Crash, Grows
<1>3. \A y \in Execs \ {x} : exec'[y] = exec[y]
  BY <1>1 DEF Claim, Call, Leave, Crash
<1>4. CASE \E i \in Items : Claim(x, i)
  <2>1. PICK i \in Items : Claim(x, i)
    BY <1>4
  <2> DEFINE r == [IdleExec EXCEPT !.pc = "ready", !.item = i, !.epoch = lease.epoch + 1]
  <2>2. r.pc = "ready" /\ r.reply = "none"
    BY DEF IdleExec
  <2>3. exec' = [exec EXCEPT ![x] = r]
    BY <2>1 DEF Claim
  <2> HIDE DEF r
  <2> QED
    BY <1>1, <1>2, <1>3, <2>2, <2>3 DEF RestStep, RestsOnAccepted
<1>5. CASE \E o \in Ops : Call(x, o)
  <2>1. PICK o \in Ops : Call(x, o)
    BY <1>5
  <2>2. exec[x].reply = "none" /\ exec[x].pc = "ready"
    BY <1>1, <2>1 DEF Call, At, RestsOnAccepted
  <2> DEFINE r == [exec[x] EXCEPT !.op = o, !.outcome = "aborted"]
             s == [exec[x] EXCEPT !.pc = "persist", !.op = o, !.outcome = "none"]
  <2>3. r.reply = "none" /\ r.pc = "ready" /\ s.reply = "none" /\ s.pc = "persist"
    BY <1>1, <2>2 DEF Execution
  <2>4. exec'[x] = r \/ exec'[x] = s
    BY <1>1, <2>1 DEF Call
  <2> HIDE DEF r, s
  <2> QED
    BY <1>2, <1>3, <2>3, <2>4 DEF RestStep, RestsOnAccepted
<1>6. CASE Leave(x) \/ Crash(x)
  <2>1. exec'[x].pc = "idle" /\ exec'[x].reply = "none"
    BY <1>1, <1>6 DEF Leave, Crash, IdleExec
  <2> QED
    BY <1>2, <1>3, <2>1 DEF RestStep, RestsOnAccepted
<1> QED
  BY <1>4, <1>5, <1>6

\* A step of a call leaves the other executions and what GitHub did alone.
LEMMA CallSteps ==
  ASSUME RInv, NEW x \in Execs,
         \/ Persist(x) \/ Decide(x) \/ Lookup(x) \/ ArmCheck(x) \/ Arm(x) \/ SendCheck(x)
         \/ Mark(x) \/ Gate(x) \/ Confirm(x) \/ Send(x) \/ Unsent(x)
         \/ Respond(x) \/ Repersist(x) \/ Evidence(x) \/ Observed(x)
         \/ CheckWrite(x) \/ WriteResult(x) \/ WriteFailure(x)
  PROVE  /\ Grows
         /\ \A y \in Execs \ {x} : exec'[y] = exec[y]
         /\ exec[x].pc \notin {"idle", "ready"} /\ exec[x].op \in Ops
         /\ exec[x] \in Execution /\ RestsOnAccepted(x)
<1>1. /\ exec \in [Execs -> Execution] /\ exec[x] \in Execution
      /\ RestsOnAccepted(x)
  BY ExecTyped DEF RInv, IInv, TypeOK
<1>2. exec[x].pc \notin {"idle", "ready"}
  BY DEF At, Persist, Decide, Lookup, ArmCheck, Arm, SendCheck, Mark, Gate, Confirm, Send, Unsent,
         Respond, Repersist, Evidence, Observed, CheckWrite, WriteResult, WriteFailure
<1>3. exec[x].op \in Ops
  BY <1>2 DEF RInv, IInv, BoundOps
<1>4. UNCHANGED accepted
  BY DEF Persist, Decide, Lookup, ArmCheck, Arm, SendCheck, Mark, Gate, Confirm, Send, Unsent,
         Respond, Repersist, Evidence, Observed, CheckWrite, WriteResult, WriteFailure
<1>5. /\ \A pc : Goto(x, pc) => \A y \in Execs \ {x} : exec'[y] = exec[y]
      /\ \A outcome : Finish(x, outcome) => \A y \in Execs \ {x} : exec'[y] = exec[y]
      /\ \A o, k : GotoWrite(x, o, k) => \A y \in Execs \ {x} : exec'[y] = exec[y]
      /\ \A o, m : Recover(x, o, m) => \A y \in Execs \ {x} : exec'[y] = exec[y]
  BY <1>1 DEF Goto, Finish, GotoWrite, Recover
<1>6. CASE Persist(x) \/ Decide(x) \/ Lookup(x) \/ ArmCheck(x) \/ Arm(x) \/ SendCheck(x)
           \/ Mark(x) \/ Gate(x) \/ Confirm(x)
  BY <1>1, <1>2, <1>3, <1>4, <1>5, <1>6
  DEF Persist, Decide, Lookup, ArmCheck, Arm, SendCheck, Mark, Gate, Confirm, Grows
<1>7. CASE Send(x) \/ Unsent(x) \/ Respond(x) \/ Repersist(x) \/ Evidence(x) \/ Observed(x)
  BY <1>1, <1>2, <1>3, <1>4, <1>5, <1>7
  DEF Send, Unsent, Respond, Repersist, Evidence, Observed, Grows
<1>8. CASE CheckWrite(x) \/ WriteResult(x) \/ WriteFailure(x)
  BY <1>1, <1>2, <1>3, <1>4, <1>5, <1>8 DEF CheckWrite, WriteResult, WriteFailure, Grows
<1> QED
  BY <1>6, <1>7, <1>8

\* Up to the send.
LEMMA BeforeSendRests ==
  ASSUME RInv, NEW x \in Execs,
         \/ Persist(x) \/ Decide(x) \/ Lookup(x) \/ ArmCheck(x) \/ Arm(x) \/ SendCheck(x)
         \/ Mark(x) \/ Gate(x) \/ Confirm(x) \/ Send(x) \/ Unsent(x)
  PROVE  RestStep(x)
<1>1. /\ Grows /\ \A y \in Execs \ {x} : exec'[y] = exec[y]
      /\ exec[x].pc \notin {"idle", "ready"} /\ exec[x].op \in Ops
      /\ exec[x] \in Execution /\ RestsOnAccepted(x)
  BY CallSteps
<1>2. RestsOnAccepted(x)'
  <2>1. CASE Persist(x) \/ Lookup(x) \/ ArmCheck(x) \/ Arm(x) \/ SendCheck(x)
             \/ Mark(x) \/ Gate(x) \/ Confirm(x) \/ Unsent(x)
    BY <1>1, <2>1, MovesRest
    DEF Persist, Lookup, ArmCheck, Arm, SendCheck, Mark, Gate, Confirm, Unsent, SuccessWrites, Phases
  <2>2. CASE Decide(x)
    <3>1. intents[exec[x].op].result => accepted[exec[x].op] > 0
      BY <1>1 DEF RInv, ReconciledIsReal
    <3> QED
      BY <1>1, <2>2, <3>1, MovesRest DEF Decide, Phases
  <2>3. CASE Send(x)
    <3> DEFINE r == [exec[x] EXCEPT !.pc = "await", !.reply = "none"]
    <3>1. r.pc = "await" /\ r.reply = "none"
      BY <1>1 DEF Execution
    <3>2. exec'[x] = r
      BY <2>3 DEF Send, RInv, IInv, TypeOK
    <3> HIDE DEF r
    <3> QED
      BY <3>1, <3>2 DEF RestsOnAccepted
  <2> QED
    BY <2>1, <2>2, <2>3
<1>3. ReconciledIsReal'
  BY <1>1, StatementsRest, RowsRest
  DEF Persist, Decide, Lookup, ArmCheck, Arm, SendCheck, Mark, Gate, Confirm, Send, Unsent
<1> QED
  BY <1>1, <1>2, <1>3 DEF RestStep

\* After the send: a success is written only from a result, or from what was found on GitHub.
LEMMA AfterSendRests ==
  ASSUME RInv, NEW x \in Execs,
         \/ Respond(x) \/ Repersist(x) \/ Evidence(x) \/ Observed(x)
         \/ CheckWrite(x) \/ WriteResult(x) \/ WriteFailure(x)
  PROVE  RestStep(x)
<1>1. /\ Grows /\ \A y \in Execs \ {x} : exec'[y] = exec[y]
      /\ exec[x].pc \notin {"idle", "ready"} /\ exec[x].op \in Ops
      /\ exec[x] \in Execution /\ RestsOnAccepted(x)
  BY CallSteps
<1>2. RestsOnAccepted(x)'
  <2>1. CASE Respond(x) \/ Repersist(x) \/ CheckWrite(x) \/ WriteFailure(x)
    BY <1>1, <2>1, MovesRest
    DEF Respond, Repersist, CheckWrite, WriteFailure, SuccessWrites, Phases, At, RestsOnAccepted
  <2>2. CASE Observed(x)
    <3>1. exec[x].found => exec[x].target \in Ops /\ accepted[exec[x].target] > 0
      BY <1>1, <2>2 DEF Observed, At, RestsOnAccepted
    <3> QED
      BY <1>1, <2>2, <3>1, MovesRest DEF Observed, SuccessWrites
  <2>3. CASE WriteResult(x)
    <3>1. exec[x].write \in SuccessWrites => exec[x].target \in Ops /\ accepted[exec[x].target] > 0
      BY <1>1, <2>3 DEF WriteResult, At, RestsOnAccepted
    <3> QED
      BY <1>1, <2>3, <3>1, MovesRest DEF WriteResult, SuccessWrites
  <2>4. CASE Evidence(x)
    <3>1. HasEvidence(exec[x].target) => exec[x].target \in Ops /\ accepted[exec[x].target] > 0
      BY OpsAssumption DEF HasEvidence
    <3> DEFINE r == [exec[x] EXCEPT !.pc = "observed", !.found = HasEvidence(exec[x].target)]
    <3>2. /\ r.pc = "observed" /\ r.found = HasEvidence(exec[x].target)
          /\ r.target = exec[x].target /\ r.reply = exec[x].reply /\ r.op = exec[x].op
      BY <1>1 DEF Execution
    <3> HIDE DEF r
    <3>3. ASSUME exec' = [exec EXCEPT ![x] = r]
          PROVE  RestsOnAccepted(x)'
      <4>1. exec'[x] = r
        BY <3>3 DEF RInv, IInv, TypeOK
      <4>2. UNCHANGED accepted
        BY <2>4 DEF Evidence
      <4> QED
        BY <1>1, <3>1, <3>2, <4>1, <4>2 DEF RestsOnAccepted
    <3> QED
      BY <1>1, <2>4, <3>3, MovesRest DEF Evidence, r
  <2> QED
    BY <2>1, <2>2, <2>3, <2>4
<1>3. ReconciledIsReal'
  <2>1. CASE Respond(x) \/ Repersist(x) \/ Evidence(x) \/ Observed(x) \/ CheckWrite(x)
    BY <1>1, <2>1, StatementsRest DEF Respond, Repersist, Evidence, Observed, CheckWrite
  <2>2. CASE WriteResult(x)
    <3>1. PICK o \in Ops \cup {NoOp} : o = exec[x].target
      BY <1>1 DEF Execution
    <3>2. exec[x].write \in SuccessWrites => o \in Ops /\ accepted[o] > 0
      BY <1>1, <2>2, <3>1 DEF WriteResult, At, RestsOnAccepted
    <3>3. exec[x].write \in SuccessWrites =>
            RowRests(o, Reconciled(o)) /\ RowRests(o, [Merged(o) EXCEPT !.result = TRUE])
      BY <3>2, RowsRest
    <3> QED
      BY <1>1, <2>2, <3>1, <3>3, StatementsRest DEF WriteResult, SuccessWrites
  <2>3. CASE WriteFailure(x)
    <3>1. PICK o \in Ops \cup {NoOp} : o = exec[x].target
      BY <1>1 DEF Execution
    <3>2. \A s \in {"failed", "outcome_unknown"} : \A t : RowRests(o, Settled(o, s, t))
      BY RowsRest DEF RowRests
    <3> QED
      BY <1>1, <2>3, <3>1, <3>2, StatementsRest DEF WriteFailure
  <2> QED
    BY <2>1, <2>2, <2>3
<1> QED
  BY <1>1, <1>2, <1>3 DEF RestStep

\* A success is reported to those who wait for the request that GitHub just carried out.
LEMMA GithubRests ==
  ASSUME RInv, IInv', NEW r \in wire, GithubAccepts(r) \/ GithubRejects(r)
  PROVE  RInv'
<1>1. /\ exec \in [Execs -> Execution] /\ r \in Request /\ accepted \in [Ops -> Nat]
  BY DEF RInv, IInv, TypeOK
<1>2. Grows /\ (GithubAccepts(r) => accepted'[r.op] > 0)
  BY <1>1 DEF GithubAccepts, GithubRejects, Request, Grows
<1>3. ReconciledIsReal'
  BY <1>2, StatementsRest DEF GithubAccepts, GithubRejects
<1>4. ASSUME NEW x \in Execs
      PROVE  RestsOnAccepted(x)'
  <2>1. CASE exec'[x] = exec[x]
    BY <1>2, <2>1, OthersRest
  <2>2. ASSUME Awaits(x, r), NEW s, exec'[x] = [exec[x] EXCEPT !.reply = s],
               s = "ok" => accepted'[exec[x].op] > 0
        PROVE  RestsOnAccepted(x)'
    <3>1. /\ exec'[x].pc = "await" /\ exec'[x].reply = s /\ exec'[x].op = exec[x].op
      BY <1>1, <2>2 DEF Awaits, At, Execution
    <3> QED
      BY <2>2, <3>1 DEF RestsOnAccepted
  <2> QED
    BY <1>2, <2>1, <2>2 DEF GithubAccepts, GithubRejects, Reply, Awaits
<1> QED
  BY <1>3, <1>4 DEF RInv

\* The clock, intake, the signal: nothing that a success could rest on.
LEMMA RestRests ==
  ASSUME RInv, IInv',
         \/ UNCHANGED vars \/ LeaseExpires
         \/ \E i \in Items : CancelItem(i)
         \/ \E x \in Execs : LateRenewal(x) \/ Abort(x)
  PROVE  RInv'
<1>1. UNCHANGED <<intents, accepted>>
  BY DEF vars, LeaseExpires, CancelItem, LateRenewal, Abort
<1>2. ReconciledIsReal' /\ Grows
  BY <1>1, StatementsRest DEF Grows
<1>3. CASE UNCHANGED exec
  BY <1>2, <1>3, OthersRest DEF RInv
<1>4. CASE \E x \in Execs : Abort(x)
  <2>1. PICK x \in Execs, lost \in BOOLEAN : exec' = [exec EXCEPT ![x].aborted = TRUE, ![x].lost = lost]
    BY <1>4 DEF Abort
  <2>2. exec \in [Execs -> Execution] /\ exec[x] \in Execution /\ RestsOnAccepted(x)
    BY DEF RInv, IInv, TypeOK
  <2> DEFINE r == [exec[x] EXCEPT !.aborted = TRUE, !.lost = lost]
  <2>3. /\ r.pc = exec[x].pc /\ r.reply = exec[x].reply /\ r.op = exec[x].op
        /\ r.target = exec[x].target /\ r.write = exec[x].write /\ r.found = exec[x].found
    BY <2>2 DEF Execution
  <2>4. exec'[x] = r /\ \A y \in Execs \ {x} : exec'[y] = exec[y]
    BY <2>1, <2>2
  <2> HIDE DEF r
  <2>5. RestsOnAccepted(x)'
    BY <1>1, <2>2, <2>3, <2>4 DEF RestsOnAccepted
  <2> QED
    BY <1>2, <2>4, <2>5, RestStepKeeps DEF RestStep
<1> QED
  BY <1>3, <1>4 DEF vars, LeaseExpires, CancelItem, LateRenewal

\* The inductive invariant of what is recorded as done.
THEOREM RecordsInductive == Spec => []RInv
<1>1. Init => RInv
  BY InitIInv DEF Init, IdleExec, AbsentIntent, RInv, RestsOnAccepted, ReconciledIsReal
<1>2. ASSUME RInv, [Next]_vars
      PROVE  RInv'
  <2>1. IInv'
    BY <1>2, StepFrame, FrameKeepsIInv DEF RInv
  <2>2. ASSUME NEW x \in Execs, ExecStep(x) \/ Crash(x)
        PROVE  RInv'
    BY <1>2, <2>1, <2>2, EntryRests, BeforeSendRests, AfterSendRests, RestStepKeeps DEF ExecStep
  <2> QED
    BY <1>2, <2>1, <2>2, GithubRests, RestRests DEF Next, Environment
<1> QED
  BY <1>1, <1>2, PTL DEF Spec

\* A row that says reconciled, or holds a result, is about something GitHub carried out:
\* with late renewals, thefts, crashes and timeouts, and whoever wrote it.
THEOREM ReconciledWasAccepted == Spec => []ReconciledIsReal
<1>1. RInv => ReconciledIsReal
  BY DEF RInv
<1> QED
  BY <1>1, RecordsInductive, PTL

-----------------------------------------------------------------------------
(* A success is the call's own *)

\* A value found for another work item's operation never decodes as the caller's: the
\* work items that meet on one lease publish values of different kinds.
ForeignUndecodable == \A o, p \in Ops : Owner[o] # Owner[p] => ~Decodes(o, p)

\* A call recovers its own intent, or one of another work item.
OwnOrForeign(x, o) == o = exec[x].op \/ (o \in Ops /\ Owner[o] # exec[x].item)

\* What an execution is about: its own operation whenever it records a success.
AboutOwn(x) ==
  /\ exec[x].pc \notin {"idle", "ready"} =>
       Owner[exec[x].op] = exec[x].item /\ exec[x].outcome # "success"
  /\ exec[x].pc \in {"evidence", "observed", "check", "write"} => OwnOrForeign(x, exec[x].target)
  /\ exec[x].pc \in {"check", "write"} /\ exec[x].write \in SuccessWrites =>
       exec[x].target = exec[x].op
  /\ exec[x].outcome = "success" => exec[x].op \in Ops /\ accepted[exec[x].op] > 0

SInv == RInv /\ \A x \in Execs : AboutOwn(x)

LEMMA OthersOwn ==
  ASSUME SInv, Grows, NEW x \in Execs, exec'[x] = exec[x]
  PROVE  AboutOwn(x)'
BY DEF SInv, AboutOwn, OwnOrForeign, Grows

\* The forms in which an execution moves on within a call.
LEMMA MovesOwn ==
  ASSUME SInv, Grows, NEW x \in Execs, exec[x].pc \notin {"idle", "ready"}
  PROVE  /\ \A pc \in Phases \ {"idle", "ready", "evidence", "observed", "check", "write"} :
              Goto(x, pc) => AboutOwn(x)'
         /\ exec[x].pc = "check" /\ Goto(x, "write") => AboutOwn(x)'
         /\ \A outcome : Finish(x, outcome) /\ (outcome = "success" => accepted[exec[x].op] > 0)
                           => AboutOwn(x)'
         /\ \A o, k : GotoWrite(x, o, k) /\ OwnOrForeign(x, o) /\ (k \in SuccessWrites => o = exec[x].op)
                        => AboutOwn(x)'
         /\ \A o, m : Recover(x, o, m) /\ OwnOrForeign(x, o) => AboutOwn(x)'
<1>1. /\ exec \in [Execs -> Execution] /\ exec[x] \in Execution /\ exec[x].op \in Ops
      /\ AboutOwn(x) /\ Owner[exec[x].op] = exec[x].item /\ exec[x].outcome # "success"
  BY ExecTyped DEF SInv, RInv, IInv, TypeOK, BoundOps, AboutOwn
<1>2. ASSUME NEW pc \in Phases \ {"idle", "ready", "evidence", "observed", "check", "write"}, Goto(x, pc)
      PROVE  AboutOwn(x)'
  BY <1>1, <1>2 DEF Goto, Execution, AboutOwn
<1>3. ASSUME exec[x].pc = "check", Goto(x, "write")
      PROVE  AboutOwn(x)'
  BY <1>1, <1>3 DEF Goto, Execution, AboutOwn, OwnOrForeign
<1>4. ASSUME NEW outcome, Finish(x, outcome), outcome = "success" => accepted[exec[x].op] > 0
      PROVE  AboutOwn(x)'
  <2> DEFINE r == [IdleExec EXCEPT !.pc = "ready", !.item = exec[x].item, !.epoch = exec[x].epoch,
                     !.aborted = exec[x].aborted, !.lost = exec[x].lost, !.op = exec[x].op,
                     !.outcome = outcome]
  <2>1. r.pc = "ready" /\ r.op = exec[x].op /\ r.outcome = outcome
    BY DEF IdleExec
  <2>2. exec' = [exec EXCEPT ![x] = r]
    BY <1>4 DEF Finish
  <2> HIDE DEF r
  <2> QED
    BY <1>1, <1>4, <2>1, <2>2 DEF AboutOwn, Grows
<1>5. ASSUME NEW o, NEW k, GotoWrite(x, o, k), OwnOrForeign(x, o), k \in SuccessWrites => o = exec[x].op
      PROVE  AboutOwn(x)'
  <2> DEFINE r == [exec[x] EXCEPT !.pc = "check", !.target = o, !.write = k]
  <2>1. /\ r.pc = "check" /\ r.target = o /\ r.write = k /\ r.op = exec[x].op
        /\ r.item = exec[x].item /\ r.outcome = exec[x].outcome
    BY <1>1 DEF Execution
  <2>2. exec' = [exec EXCEPT ![x] = r]
    BY <1>5 DEF GotoWrite
  <2> HIDE DEF r
  <2> QED
    BY <1>1, <1>5, <2>1, <2>2 DEF AboutOwn, OwnOrForeign
<1>6. ASSUME NEW o, NEW m, Recover(x, o, m), OwnOrForeign(x, o)
      PROVE  AboutOwn(x)'
  <2> DEFINE r == [exec[x] EXCEPT !.pc = "evidence", !.target = o, !.mode = m]
  <2>1. /\ r.pc = "evidence" /\ r.target = o /\ r.op = exec[x].op
        /\ r.item = exec[x].item /\ r.outcome = exec[x].outcome
    BY <1>1 DEF Execution
  <2>2. exec' = [exec EXCEPT ![x] = r]
    BY <1>6 DEF Recover
  <2> HIDE DEF r
  <2> QED
    BY <1>1, <1>6, <2>1, <2>2 DEF AboutOwn, OwnOrForeign
<1> QED
  BY <1>2, <1>3, <1>4, <1>5, <1>6

\* A call starts with an operation of the execution's item, and leaves nothing behind.
LEMMA EntryOwn ==
  ASSUME SInv, NEW x \in Execs,
         \/ \E i \in Items : Claim(x, i)
         \/ \E o \in Ops : Call(x, o)
         \/ Leave(x) \/ Crash(x)
  PROVE  AboutOwn(x)'
<1>1. exec \in [Execs -> Execution] /\ exec[x] \in Execution /\ AboutOwn(x)
  BY ExecTyped DEF SInv, RInv, IInv, TypeOK
<1>2. CASE \E i \in Items : Claim(x, i)
  <2>1. PICK i \in Items : Claim(x, i)
    BY <1>2
  <2> DEFINE r == [IdleExec EXCEPT !.pc = "ready", !.item = i, !.epoch = lease.epoch + 1]
  <2>2. r.pc = "ready" /\ r.outcome = "none"
    BY DEF IdleExec
  <2>3. exec' = [exec EXCEPT ![x] = r]
    BY <2>1 DEF Claim
  <2> HIDE DEF r
  <2> QED
    BY <1>1, <2>2, <2>3 DEF AboutOwn
<1>3. CASE \E o \in Ops : Call(x, o)
  <2>1. PICK o \in Ops : Call(x, o)
    BY <1>3
  <2> DEFINE r == [exec[x] EXCEPT !.op = o, !.outcome = "aborted"]
             s == [exec[x] EXCEPT !.pc = "persist", !.op = o, !.outcome = "none"]
  <2>2. /\ exec[x].pc = "ready" /\ Owner[o] = exec[x].item
    BY <2>1 DEF Call, At
  <2>3. /\ r.pc = "ready" /\ r.outcome = "aborted"
        /\ s.pc = "persist" /\ s.op = o /\ s.item = exec[x].item /\ s.outcome = "none"
    BY <1>1, <2>2 DEF Execution
  <2>4. exec'[x] = r \/ exec'[x] = s
    BY <1>1, <2>1 DEF Call
  <2> HIDE DEF r, s
  <2> QED
    BY <2>2, <2>3, <2>4 DEF AboutOwn
<1>4. CASE Leave(x) \/ Crash(x)
  BY <1>1, <1>4 DEF Leave, Crash, IdleExec, AboutOwn
<1> QED
  BY <1>2, <1>3, <1>4

\* Up to the send: a reconciled row with a result is the caller's own.
LEMMA BeforeSendOwn ==
  ASSUME SInv, NEW x \in Execs,
         \/ Persist(x) \/ Decide(x) \/ Lookup(x) \/ ArmCheck(x) \/ Arm(x) \/ SendCheck(x)
         \/ Mark(x) \/ Gate(x) \/ Confirm(x) \/ Send(x) \/ Unsent(x)
  PROVE  AboutOwn(x)'
<1>1. RInv
  BY DEF SInv
<1>2. /\ Grows /\ exec[x].pc \notin {"idle", "ready"} /\ exec[x].op \in Ops
      /\ exec[x] \in Execution /\ AboutOwn(x)
  BY <1>1, CallSteps DEF SInv
<1>3. CASE Persist(x) \/ ArmCheck(x) \/ Arm(x) \/ SendCheck(x)
           \/ Mark(x) \/ Gate(x) \/ Confirm(x) \/ Unsent(x)
  BY <1>2, <1>3, MovesOwn
  DEF Persist, ArmCheck, Arm, SendCheck, Mark, Gate, Confirm, Unsent, SuccessWrites, Phases,
      OwnOrForeign, NotReadyOutcome
<1>4. CASE Decide(x)
  <2>1. intents[exec[x].op].result => accepted[exec[x].op] > 0
    BY <1>1, <1>2 DEF RInv, ReconciledIsReal
  <2>2. NotReadyOutcome(x) # "success"
    BY DEF NotReadyOutcome
  <2> QED
    BY <1>2, <1>4, <2>1, <2>2, MovesOwn DEF Decide, Phases, OwnOrForeign
<1>5. CASE Lookup(x)
  <2>1. \A o \in findInFlightMutatingIntent(x) : OwnOrForeign(x, o)
    BY DEF findInFlightMutatingIntent, OwnOrForeign
  <2> QED
    BY <1>2, <1>5, <2>1, MovesOwn DEF Lookup, Phases
<1>6. CASE Send(x)
  <2> DEFINE r == [exec[x] EXCEPT !.pc = "await", !.reply = "none"]
  <2>1. /\ r.pc = "await" /\ r.op = exec[x].op /\ r.item = exec[x].item
        /\ r.outcome = exec[x].outcome
    BY <1>2 DEF Execution
  <2>2. exec'[x] = r
    BY <1>6 DEF Send, SInv, RInv, IInv, TypeOK
  <2> HIDE DEF r
  <2> QED
    BY <1>2, <2>1, <2>2 DEF AboutOwn
<1> QED
  BY <1>3, <1>4, <1>5, <1>6

\* After the send: what is found for another work item does not decode.
LEMMA AfterSendOwn ==
  ASSUME ForeignUndecodable, SInv, NEW x \in Execs,
         \/ Respond(x) \/ Repersist(x) \/ Evidence(x) \/ Observed(x)
         \/ CheckWrite(x) \/ WriteResult(x) \/ WriteFailure(x)
  PROVE  AboutOwn(x)'
<1>1. RInv
  BY DEF SInv
<1>2. /\ Grows /\ exec[x].pc \notin {"idle", "ready"} /\ exec[x].op \in Ops
      /\ exec[x] \in Execution /\ AboutOwn(x) /\ RestsOnAccepted(x)
      /\ NotReadyOutcome(x) # "success"
  BY <1>1, CallSteps DEF SInv, NotReadyOutcome
<1>3. CASE Respond(x) \/ Repersist(x) \/ CheckWrite(x)
  BY <1>2, <1>3, MovesOwn DEF Respond, Repersist, CheckWrite, OwnOrForeign, SuccessWrites, Phases, At
<1>4. CASE Observed(x)
  <2>1. OwnOrForeign(x, exec[x].target) /\ Owner[exec[x].op] = exec[x].item
    BY <1>2, <1>4 DEF Observed, At, AboutOwn
  <2>2. Decodes(exec[x].op, exec[x].target) => exec[x].target = exec[x].op
    BY <1>2, <2>1 DEF ForeignUndecodable, OwnOrForeign
  <2> QED
    BY <1>2, <1>4, <2>1, <2>2, MovesOwn DEF Observed, SuccessWrites
<1>5. CASE WriteResult(x)
  <2>1. /\ OwnOrForeign(x, exec[x].target)
        /\ exec[x].write \in SuccessWrites =>
             exec[x].target = exec[x].op /\ accepted[exec[x].op] > 0
    BY <1>2, <1>5 DEF WriteResult, At, AboutOwn, RestsOnAccepted
  <2> QED
    BY <1>2, <1>5, <2>1, MovesOwn DEF WriteResult, SuccessWrites
<1>6. CASE WriteFailure(x)
  BY <1>2, <1>6, MovesOwn DEF WriteFailure
<1>7. CASE Evidence(x)
  <2> DEFINE r == [exec[x] EXCEPT !.pc = "observed", !.found = HasEvidence(exec[x].target)]
  <2>1. /\ r.pc = "observed" /\ r.target = exec[x].target /\ r.op = exec[x].op
        /\ r.item = exec[x].item /\ r.outcome = exec[x].outcome
    BY <1>2 DEF Execution
  <2> HIDE DEF r
  <2>2. ASSUME exec' = [exec EXCEPT ![x] = r]
        PROVE  AboutOwn(x)'
    <3>1. exec'[x] = r
      BY <2>2 DEF SInv, RInv, IInv, TypeOK
    <3> QED
      BY <1>2, <1>7, <2>1, <3>1 DEF AboutOwn, OwnOrForeign, Evidence, At
  <2> QED
    BY <1>2, <1>7, <2>2, MovesOwn DEF Evidence, r
<1> QED
  BY <1>3, <1>4, <1>5, <1>6, <1>7

\* GitHub, the clock, intake and the signal do not change what a call is about.
LEMMA EnvironmentOwn ==
  ASSUME SInv, Grows, NEW x \in Execs,
         \/ UNCHANGED vars \/ LeaseExpires
         \/ \E r \in wire : GithubAccepts(r) \/ GithubRejects(r)
         \/ \E i \in Items : CancelItem(i)
         \/ \E y \in Execs : LateRenewal(y) \/ Abort(y)
  PROVE  AboutOwn(x)'
<1>1. exec \in [Execs -> Execution] /\ exec[x] \in Execution /\ AboutOwn(x)
  BY ExecTyped DEF SInv, RInv, IInv, TypeOK
<1>2. /\ exec'[x].pc = exec[x].pc /\ exec'[x].op = exec[x].op /\ exec'[x].item = exec[x].item
      /\ exec'[x].target = exec[x].target /\ exec'[x].write = exec[x].write
      /\ exec'[x].outcome = exec[x].outcome
  <2>1. CASE UNCHANGED exec
    BY <2>1
  <2>2. CASE \E r, s : Reply(r, s)
    BY <1>1, <2>2 DEF Reply, Execution
  <2>3. CASE \E y \in Execs : Abort(y)
    <3>1. PICK y \in Execs, lost \in BOOLEAN : exec' = [exec EXCEPT ![y].aborted = TRUE, ![y].lost = lost]
      BY <2>3 DEF Abort
    <3> QED
      BY <1>1, <3>1 DEF Execution
  <2> QED
    BY <2>1, <2>2, <2>3 DEF vars, LeaseExpires, GithubAccepts, GithubRejects, CancelItem, LateRenewal
<1> QED
  BY <1>1, <1>2 DEF AboutOwn, OwnOrForeign, Grows

\* GitHub's counters only grow.
LEMMA StepGrows ==
  ASSUME RInv, [Next]_vars
  PROVE  Grows
<1>1. CASE UNCHANGED accepted
  BY <1>1 DEF Grows
<1>2. CASE \E r \in wire : GithubAccepts(r)
  BY <1>2 DEF GithubAccepts, Grows, RInv, IInv, TypeOK, Request
<1>3. ASSUME NEW x \in Execs, ExecStep(x) \/ Crash(x)
      PROVE  Grows
  BY <1>3, EntryRests, CallSteps DEF ExecStep, RestStep
<1> QED
  BY <1>1, <1>2, <1>3 DEF Next, Environment, vars, GithubRejects, LeaseExpires, CancelItem,
     LateRenewal, Abort

\* The inductive invariant of successful calls.
THEOREM SuccessInductive ==
  ASSUME ForeignUndecodable
  PROVE  Spec => []SInv
<1>1. Init => SInv
  BY InitIInv DEF Init, IdleExec, AbsentIntent, RInv, RestsOnAccepted, ReconciledIsReal,
     SInv, AboutOwn
<1>2. ASSUME SInv, RInv', [Next]_vars
      PROVE  SInv'
  <2>1. RInv /\ Grows
    BY <1>2, StepGrows DEF SInv
  <2>2. ASSUME NEW x \in Execs, ExecStep(x) \/ Crash(x)
        PROVE  SInv'
    <3>1. \A y \in Execs \ {x} : exec'[y] = exec[y]
      BY <2>1, <2>2, EntryRests, CallSteps DEF ExecStep, RestStep
    <3>2. AboutOwn(x)'
      BY <1>2, <2>2, EntryOwn, BeforeSendOwn, AfterSendOwn DEF ExecStep
    <3> QED
      BY <1>2, <2>1, <3>1, <3>2, OthersOwn DEF SInv
  <2> QED
    BY <1>2, <2>1, <2>2, EnvironmentOwn DEF Next, Environment, SInv
<1>3. RInv /\ RInv' /\ SInv /\ [Next]_vars => SInv'
  BY <1>2
<1> QED
  BY <1>1, <1>3, RecordsInductive, PTL DEF Spec

\* A call of the mutation boundary that returns means that its own mutation was done, as
\* long as what it finds of other work items does not decode as its own kind of value.
THEOREM SuccessWasDone ==
  ASSUME ForeignUndecodable
  PROVE  Spec => []SuccessIsReal
<1>1. SInv => SuccessIsReal
  BY DEF SInv, AboutOwn, SuccessIsReal
<1> QED
  BY <1>1, SuccessInductive, PTL

-----------------------------------------------------------------------------
(* An unknown outcome was started *)

Busy(x) == exec[x].pc # "idle"

\* Every execution's epoch was issued by the lease, and to it alone.
EpochsIssued == \A x \in Execs : Busy(x) => exec[x].epoch <= lease.epoch

EpochUnique ==
  \A x, y \in Execs : Busy(x) /\ Busy(y) /\ exec[x].epoch = exec[y].epoch => x = y

ArmedIssued == \A o \in Ops : intents[o].armed <= lease.epoch

\* The row still names this execution, live or not: what is lost is never regained.
Current(x) == Busy(x) /\ lease.holder = exec[x].item /\ lease.epoch = exec[x].epoch

\* Armed under e, and not yet marked as started: a lookup under e takes it for in flight.
Primed(o, e) ==
  /\ intents[o].status = "pending" /\ intents[o].mutating /\ ~intents[o].result
  /\ ~intents[o].started /\ intents[o].armed = e

NonePrimed(x) == \A o \in Ops : ~Primed(o, exec[x].epoch)

StartKnown(o) == o \in Ops /\ intents[o].status = "pending" => intents[o].started

\* What an execution may rely on while the row names it, by its place in the call: it
\* primes nothing but its own operation, and whatever it recovers was started.
OwnView(x) ==
  /\ exec[x].pc \notin {"ready", "sendCheck", "mark", "unsent", "check", "write"} => NonePrimed(x)
  /\ exec[x].pc = "ready" => exec[x].aborted \/ NonePrimed(x)
  /\ exec[x].pc \in {"sendCheck", "mark", "unsent"} =>
       \A o \in Ops \ {exec[x].op} : ~Primed(o, exec[x].epoch)
  /\ exec[x].pc \in {"check", "write"} =>
       NonePrimed(x) \/ (exec[x].aborted /\ exec[x].write = "failed")
  /\ exec[x].pc \in {"gate", "confirm", "send", "await", "repersist"} =>
       intents[exec[x].op].status # "absent" /\ StartKnown(exec[x].op)
  /\ exec[x].pc \in {"evidence", "observed"} => StartKnown(exec[x].target)
  /\ exec[x].pc \in {"check", "write"} /\ exec[x].write \in {"unknown", "terminal"} =>
       StartKnown(exec[x].target)

\* A claimed execution works for an item, so a cleared row names nobody.
HasItem == \A x \in Execs : Busy(x) => exec[x].item \in Items

UInv ==
  /\ RInv /\ EpochsIssued /\ EpochUnique /\ HasItem /\ ArmedIssued
  /\ \A x \in Execs : Current(x) => OwnView(x)

\* What a step promises of the outcomes it declares unknown.
StartedFirst ==
  \A o \in Ops :
    intents[o].status # "outcome_unknown" /\ intents'[o].status = "outcome_unknown"
      => intents[o].started

\* Without a write nothing becomes unknown.
LEMMA CalmSteps == UNCHANGED intents => StartedFirst
BY DEF StartedFirst

\* The fields of an execution after each form of move.
LEMMA MoveFields ==
  ASSUME IInv, NEW x \in Execs
  PROVE  /\ \A pc : Goto(x, pc) =>
              /\ exec'[x].pc = pc /\ exec'[x].op = exec[x].op /\ exec'[x].target = exec[x].target
              /\ exec'[x].write = exec[x].write /\ exec'[x].aborted = exec[x].aborted
              /\ exec'[x].epoch = exec[x].epoch /\ exec'[x].item = exec[x].item
         /\ \A outcome : Finish(x, outcome) =>
              /\ exec'[x].pc = "ready" /\ exec'[x].aborted = exec[x].aborted
              /\ exec'[x].epoch = exec[x].epoch /\ exec'[x].item = exec[x].item
         /\ \A o, k : GotoWrite(x, o, k) =>
              /\ exec'[x].pc = "check" /\ exec'[x].target = o /\ exec'[x].write = k
              /\ exec'[x].aborted = exec[x].aborted
              /\ exec'[x].epoch = exec[x].epoch /\ exec'[x].item = exec[x].item
         /\ \A o, m : Recover(x, o, m) =>
              /\ exec'[x].pc = "evidence" /\ exec'[x].target = o
              /\ exec'[x].epoch = exec[x].epoch /\ exec'[x].item = exec[x].item
<1>1. exec \in [Execs -> Execution] /\ exec[x] \in Execution
  BY ExecTyped DEF IInv, TypeOK
<1>2. ASSUME NEW pc, Goto(x, pc)
      PROVE  /\ exec'[x].pc = pc /\ exec'[x].op = exec[x].op /\ exec'[x].target = exec[x].target
             /\ exec'[x].write = exec[x].write /\ exec'[x].aborted = exec[x].aborted
             /\ exec'[x].epoch = exec[x].epoch /\ exec'[x].item = exec[x].item
  BY <1>1, <1>2 DEF Goto, Execution
<1>3. ASSUME NEW outcome, Finish(x, outcome)
      PROVE  /\ exec'[x].pc = "ready" /\ exec'[x].aborted = exec[x].aborted
             /\ exec'[x].epoch = exec[x].epoch /\ exec'[x].item = exec[x].item
  <2> DEFINE r == [IdleExec EXCEPT !.pc = "ready", !.item = exec[x].item, !.epoch = exec[x].epoch,
                     !.aborted = exec[x].aborted, !.lost = exec[x].lost, !.op = exec[x].op,
                     !.outcome = outcome]
  <2>1. /\ r.pc = "ready" /\ r.aborted = exec[x].aborted
        /\ r.epoch = exec[x].epoch /\ r.item = exec[x].item
    BY DEF IdleExec
  <2>2. exec' = [exec EXCEPT ![x] = r]
    BY <1>3 DEF Finish
  <2> HIDE DEF r
  <2> QED
    BY <1>1, <2>1, <2>2
<1>4. ASSUME NEW o, NEW k, GotoWrite(x, o, k)
      PROVE  /\ exec'[x].pc = "check" /\ exec'[x].target = o /\ exec'[x].write = k
             /\ exec'[x].aborted = exec[x].aborted
             /\ exec'[x].epoch = exec[x].epoch /\ exec'[x].item = exec[x].item
  <2> DEFINE r == [exec[x] EXCEPT !.pc = "check", !.target = o, !.write = k]
  <2>1. /\ r.pc = "check" /\ r.target = o /\ r.write = k /\ r.aborted = exec[x].aborted
        /\ r.epoch = exec[x].epoch /\ r.item = exec[x].item
    BY <1>1 DEF Execution
  <2>2. exec' = [exec EXCEPT ![x] = r]
    BY <1>4 DEF GotoWrite
  <2> HIDE DEF r
  <2> QED
    BY <1>1, <2>1, <2>2
<1>5. ASSUME NEW o, NEW m, Recover(x, o, m)
      PROVE  /\ exec'[x].pc = "evidence" /\ exec'[x].target = o
             /\ exec'[x].epoch = exec[x].epoch /\ exec'[x].item = exec[x].item
  <2> DEFINE r == [exec[x] EXCEPT !.pc = "evidence", !.target = o, !.mode = m]
  <2>1. r.pc = "evidence" /\ r.target = o /\ r.epoch = exec[x].epoch /\ r.item = exec[x].item
    BY <1>1 DEF Execution
  <2>2. exec' = [exec EXCEPT ![x] = r]
    BY <1>5 DEF Recover
  <2> HIDE DEF r
  <2> QED
    BY <1>1, <2>1, <2>2
<1> QED
  BY <1>2, <1>3, <1>4, <1>5

\* What each form of move needs for the view at its destination.
LEMMA MovesView ==
  ASSUME IInv, NEW x \in Execs
  PROVE  /\ \A pc \in {"persist", "decide", "lookup", "armCheck", "arm"} :
              Goto(x, pc) /\ NonePrimed(x)' => OwnView(x)'
         /\ \A pc \in {"confirm", "send", "await", "repersist"} :
              /\ Goto(x, pc) /\ NonePrimed(x)' /\ StartKnown(exec[x].op)
              /\ UNCHANGED intents /\ intents[exec[x].op].status # "absent"
              => OwnView(x)'
         /\ \A outcome :
              Finish(x, outcome) /\ (NonePrimed(x)' \/ exec[x].aborted) => OwnView(x)'
         /\ \A o, k :
              /\ GotoWrite(x, o, k) /\ NonePrimed(x)'
              /\ k \in {"unknown", "terminal"} => StartKnown(o)'
              => OwnView(x)'
         /\ \A o : GotoWrite(x, o, "failed") /\ exec[x].aborted => OwnView(x)'
         /\ \A o, m : Recover(x, o, m) /\ NonePrimed(x)' /\ StartKnown(o)' => OwnView(x)'
<1>1. ASSUME NEW pc \in {"persist", "decide", "lookup", "armCheck", "arm"},
             Goto(x, pc), NonePrimed(x)'
      PROVE  OwnView(x)'
  BY <1>1, MoveFields DEF OwnView
<1>2. ASSUME NEW pc \in {"confirm", "send", "await", "repersist"}, Goto(x, pc), NonePrimed(x)',
             StartKnown(exec[x].op), UNCHANGED intents, intents[exec[x].op].status # "absent"
      PROVE  OwnView(x)'
  BY <1>2, MoveFields DEF OwnView, StartKnown
<1>3. ASSUME NEW outcome, Finish(x, outcome), NonePrimed(x)' \/ exec[x].aborted
      PROVE  OwnView(x)'
  BY <1>3, MoveFields DEF OwnView
<1>4. ASSUME NEW o, NEW k, GotoWrite(x, o, k), NonePrimed(x)',
             k \in {"unknown", "terminal"} => StartKnown(o)'
      PROVE  OwnView(x)'
  BY <1>4, MoveFields DEF OwnView, StartKnown
<1>5. ASSUME NEW o, GotoWrite(x, o, "failed"), exec[x].aborted
      PROVE  OwnView(x)'
  BY <1>5, MoveFields DEF OwnView
<1>6. ASSUME NEW o, NEW m, Recover(x, o, m), NonePrimed(x)', StartKnown(o)'
      PROVE  OwnView(x)'
  BY <1>6, MoveFields DEF OwnView, StartKnown
<1> QED
  BY <1>1, <1>2, <1>3, <1>4, <1>5, <1>6

\* A step of a call keeps the claim of its execution, and the row of the lease.
LEMMA CallKeepsClaim ==
  ASSUME UInv, NEW x \in Execs,
         \/ Persist(x) \/ Decide(x) \/ Lookup(x) \/ ArmCheck(x) \/ Arm(x) \/ SendCheck(x)
         \/ Mark(x) \/ Gate(x) \/ Confirm(x) \/ Send(x) \/ Unsent(x)
         \/ Respond(x) \/ Repersist(x) \/ Evidence(x) \/ Observed(x)
         \/ CheckWrite(x) \/ WriteResult(x) \/ WriteFailure(x)
  PROVE  /\ exec'[x].epoch = exec[x].epoch /\ exec'[x].item = exec[x].item
         /\ UNCHANGED lease /\ Busy(x)
         /\ Current(x)' => Current(x) /\ OwnView(x)
<1>1. IInv /\ exec[x].pc \notin {"idle", "ready"} /\ exec[x] \in Execution
      /\ exec \in [Execs -> Execution]
  BY CallSteps DEF UInv, RInv, IInv, TypeOK
<1>2. UNCHANGED lease
  BY DEF Persist, Decide, Lookup, ArmCheck, Arm, SendCheck, Mark, Gate, Confirm, Send, Unsent,
         Respond, Repersist, Evidence, Observed, CheckWrite, WriteResult, WriteFailure
<1>3. exec'[x].epoch = exec[x].epoch /\ exec'[x].item = exec[x].item
  <2>1. CASE Persist(x) \/ Decide(x) \/ Lookup(x) \/ ArmCheck(x) \/ Arm(x) \/ SendCheck(x)
             \/ Mark(x) \/ Gate(x) \/ Confirm(x)
    BY <1>1, <2>1, MoveFields
    DEF Persist, Decide, Lookup, ArmCheck, Arm, SendCheck, Mark, Gate, Confirm
  <2>2. CASE Unsent(x) \/ Respond(x) \/ Repersist(x) \/ Observed(x)
             \/ CheckWrite(x) \/ WriteResult(x) \/ WriteFailure(x)
    BY <1>1, <2>2, MoveFields
    DEF Unsent, Respond, Repersist, Observed, CheckWrite, WriteResult, WriteFailure
  <2>3. CASE Send(x)
    BY <1>1, <2>3 DEF Send, Execution
  <2>4. CASE Evidence(x)
    <3>1. CASE exec' = [exec EXCEPT ![x] = [@ EXCEPT !.pc = "observed",
                                                     !.found = HasEvidence(exec[x].target)]]
      BY <1>1, <3>1 DEF Execution
    <3> QED
      BY <1>1, <2>4, <3>1, MoveFields DEF Evidence
  <2> QED
    BY <2>1, <2>2, <2>3, <2>4
<1> QED
  BY <1>1, <1>2, <1>3 DEF Current, Busy, UInv

\* With the intents as they are, the view of the execution that moves.
LEMMA ReadsView ==
  ASSUME UInv, NEW x \in Execs, Current(x)',
         \/ Decide(x) \/ Lookup(x) \/ ArmCheck(x) \/ SendCheck(x) \/ Gate(x) \/ Confirm(x)
         \/ Send(x) \/ Respond(x) \/ Evidence(x) \/ Observed(x) \/ CheckWrite(x)
  PROVE  OwnView(x)'
<1>1. /\ exec'[x].epoch = exec[x].epoch /\ Current(x) /\ OwnView(x)
      /\ exec[x].op \in Ops /\ exec[x] \in Execution /\ exec \in [Execs -> Execution] /\ IInv
  BY CallKeepsClaim, CallSteps DEF UInv, RInv, IInv, TypeOK
<1>2. UNCHANGED intents
  BY DEF Decide, Lookup, ArmCheck, SendCheck, Gate, Confirm, Send, Respond, Evidence, Observed,
         CheckWrite
<1>3. NonePrimed(x) => NonePrimed(x)'
  BY <1>1, <1>2 DEF NonePrimed, Primed
<1>4. \A o : StartKnown(o) => StartKnown(o)'
  BY <1>2 DEF StartKnown
<1>5. CASE Decide(x)
  <2>1. NonePrimed(x)'
    BY <1>1, <1>3, <1>5 DEF Decide, At, OwnView
  <2>2. intents[exec[x].op].status # "pending" => \A o : o = exec[x].op => StartKnown(o)'
    BY <1>2 DEF StartKnown
  <2> QED
    BY <1>1, <1>5, <2>1, <2>2, MovesView DEF Decide
<1>6. CASE Lookup(x)
  <2>1. NonePrimed(x)' /\ NonePrimed(x)
    BY <1>1, <1>3, <1>6 DEF Lookup, At, OwnView
  <2>2. \A o \in findInFlightMutatingIntent(x) : StartKnown(o)
    BY <1>1, <2>1 DEF findInFlightMutatingIntent, InFlight, NonePrimed, Primed, StartKnown, Current
  <2> QED
    BY <1>1, <1>4, <1>6, <2>1, <2>2, MovesView DEF Lookup
<1>7. CASE ArmCheck(x)
  <2>1. NonePrimed(x)'
    BY <1>1, <1>3, <1>7 DEF ArmCheck, At, OwnView
  <2> QED
    BY <1>1, <1>7, <2>1, MovesView DEF ArmCheck
<1>8. CASE SendCheck(x)
  <2>1. \A o \in Ops \ {exec[x].op} : ~Primed(o, exec[x].epoch)
    BY <1>1, <1>8 DEF SendCheck, At, OwnView
  <2>2. CASE \E pc \in {"mark", "unsent"} : Goto(x, pc)
    BY <1>1, <1>2, <2>1, <2>2, MoveFields DEF OwnView, Primed
  <2>3. CASE exec[x].aborted /\ GotoWrite(x, exec[x].op, "failed")
    BY <1>1, <2>3, MovesView
  <2> QED
    BY <1>8, <2>2, <2>3 DEF SendCheck, NotReadyOutcome
<1>9. CASE Gate(x) \/ Confirm(x) \/ Respond(x)
  <2>1. NonePrimed(x)' /\ StartKnown(exec[x].op) /\ intents[exec[x].op].status # "absent"
    BY <1>1, <1>3, <1>9 DEF Gate, Confirm, Respond, At, OwnView
  <2> QED
    BY <1>1, <1>2, <1>9, <2>1, MovesView DEF Gate, Confirm, Respond
<1>10. CASE Send(x)
  <2> DEFINE r == [exec[x] EXCEPT !.pc = "await", !.reply = "none"]
  <2>1. r.pc = "await" /\ r.op = exec[x].op /\ r.epoch = exec[x].epoch
    BY <1>1 DEF Execution
  <2>2. exec'[x] = r
    BY <1>1, <1>10 DEF Send
  <2>3. NonePrimed(x)' /\ StartKnown(exec[x].op) /\ intents[exec[x].op].status # "absent"
    BY <1>1, <1>3, <1>10 DEF Send, At, OwnView
  <2> HIDE DEF r
  <2> QED
    BY <1>2, <2>1, <2>2, <2>3 DEF OwnView, StartKnown
<1>11. CASE Evidence(x)
  <2> DEFINE r == [exec[x] EXCEPT !.pc = "observed", !.found = HasEvidence(exec[x].target)]
  <2>1. r.pc = "observed" /\ r.target = exec[x].target /\ r.epoch = exec[x].epoch
    BY <1>1 DEF Execution
  <2>2. NonePrimed(x)' /\ StartKnown(exec[x].target)
    BY <1>1, <1>3, <1>11 DEF Evidence, At, OwnView
  <2> HIDE DEF r
  <2>3. ASSUME exec' = [exec EXCEPT ![x] = r]
        PROVE  OwnView(x)'
    BY <1>1, <1>2, <2>1, <2>2, <2>3 DEF OwnView, StartKnown
  <2> QED
    BY <1>1, <1>11, <2>2, <2>3, MovesView DEF Evidence, r
<1>12. CASE Observed(x)
  <2>1. NonePrimed(x)' /\ \A o : o = exec[x].target => StartKnown(o)'
    BY <1>1, <1>3, <1>4, <1>12 DEF Observed, At, OwnView
  <2> QED
    BY <1>1, <1>12, <2>1, MovesView DEF Observed
<1>13. CASE CheckWrite(x)
  <2>1. /\ NonePrimed(x)' \/ (exec[x].aborted /\ exec[x].write = "failed")
        /\ exec[x].write \in {"unknown", "terminal"} => StartKnown(exec[x].target)
    BY <1>1, <1>3, <1>13 DEF CheckWrite, At, OwnView
  <2>2. CASE Goto(x, "write")
    BY <1>1, <1>2, <2>1, <2>2, MoveFields DEF OwnView, StartKnown
  <2>3. CASE \E outcome : Finish(x, outcome)
    BY <1>1, <2>1, <2>3, MovesView
  <2> QED
    BY <1>13, <2>2, <2>3 DEF CheckWrite
<1> QED
  BY <1>5, <1>6, <1>7, <1>8, <1>9, <1>10, <1>11, <1>12, <1>13

\* A statement over one row primes nothing but that row.
LEMMA OneRow ==
  ASSUME IInv, NEW o, NEW row, SetIntent(o, row)
  PROVE  /\ \A p \in Ops \ {o} : intents'[p] = intents[p]
         /\ o \in Ops => intents'[o] = row
BY DEF IInv, TypeOK, SetIntent

\* The rows the statements of a call write.
LEMMA RowFields ==
  ASSUME IInv, NEW o \in Ops
  PROVE  /\ [AbsentIntent EXCEPT !.status = "pending"].status = "pending"
         /\ [AbsentIntent EXCEPT !.status = "pending"].mutating = FALSE
         /\ [AbsentIntent EXCEPT !.status = "pending"].armed = 0
         /\ \A e : Armed(o, e).status = "pending" /\ Armed(o, e).armed = e
         /\ [Merged(o) EXCEPT !.started = TRUE].status = "pending"
         /\ [Merged(o) EXCEPT !.started = TRUE].started = TRUE
         /\ [Merged(o) EXCEPT !.started = TRUE].armed = intents[o].armed
         /\ [Merged(o) EXCEPT !.result = TRUE].status = "pending"
         /\ [Merged(o) EXCEPT !.result = TRUE].result = TRUE
         /\ [Merged(o) EXCEPT !.result = TRUE].armed = intents[o].armed
         /\ [intents[o] EXCEPT !.mutating = FALSE].mutating = FALSE
         /\ [intents[o] EXCEPT !.mutating = FALSE].status = intents[o].status
         /\ [intents[o] EXCEPT !.mutating = FALSE].started = intents[o].started
         /\ [intents[o] EXCEPT !.mutating = FALSE].armed = intents[o].armed
         /\ Reconciled(o).status = "reconciled" /\ Reconciled(o).armed = intents[o].armed
         /\ \A s, t : /\ Settled(o, s, t).status = s /\ Settled(o, s, t).mutating = FALSE
                      /\ Settled(o, s, t).armed = intents[o].armed
<1>1. intents[o] \in IntentRow
  BY DEF IInv, TypeOK
<1>2. /\ Merged(o).status = "pending" /\ Merged(o).armed = intents[o].armed
      /\ Merged(o) \in IntentRow
  BY <1>1 DEF Merged, IntentRow, IntentStatus
<1>3. \A e : Armed(o, e).status = "pending" /\ Armed(o, e).armed = e
  BY <1>2 DEF Armed, IntentRow
<1>4. \A s, t : /\ Settled(o, s, t).status = s /\ Settled(o, s, t).mutating = FALSE
               /\ Settled(o, s, t).armed = intents[o].armed
  BY <1>1 DEF Settled, IntentRow
<1>5. Reconciled(o).status = "reconciled" /\ Reconciled(o).armed = intents[o].armed
  BY <1>1 DEF Reconciled, IntentRow
<1> QED
  BY <1>1, <1>2, <1>3, <1>4, <1>5 DEF AbsentIntent, IntentRow

\* Of which the settled rows, and the epochs.
LEMMA SettledFields ==
  ASSUME IInv, NEW o \in Ops, NEW s, NEW t
  PROVE  /\ Settled(o, s, t).status = s /\ Settled(o, s, t).mutating = FALSE
         /\ Settled(o, s, t).armed = intents[o].armed
<1>1. intents[o] \in IntentRow
  BY DEF IInv, TypeOK
<1> QED
  BY <1>1 DEF Settled, IntentRow

LEMMA ArmedFields ==
  ASSUME IInv, NEW o \in Ops
  PROVE  /\ [AbsentIntent EXCEPT !.status = "pending"].armed = 0
         /\ \A e : Armed(o, e).armed = e
         /\ [Merged(o) EXCEPT !.started = TRUE].armed = intents[o].armed
<1>1. intents[o] \in IntentRow
  BY DEF IInv, TypeOK
<1>2. Merged(o).armed = intents[o].armed /\ Merged(o) \in IntentRow
  BY <1>1 DEF Merged, IntentRow, IntentStatus
<1> QED
  BY <1>2 DEF AbsentIntent, Armed, IntentRow

\* What the writes of a call leave of the view of the execution that makes them.
LEMMA WritesView ==
  ASSUME UInv, NEW x \in Execs, Current(x)',
         \/ Persist(x) \/ Arm(x) \/ Mark(x) \/ Unsent(x) \/ Repersist(x)
         \/ WriteResult(x) \/ WriteFailure(x)
  PROVE  OwnView(x)'
<1>1. /\ exec'[x].epoch = exec[x].epoch /\ Current(x) /\ OwnView(x)
      /\ exec[x].op \in Ops /\ exec[x] \in Execution /\ exec \in [Execs -> Execution] /\ IInv
  BY CallKeepsClaim, CallSteps DEF UInv, RInv, IInv, TypeOK
<1>2. UNCHANGED intents /\ NonePrimed(x) => NonePrimed(x)'
  BY <1>1 DEF NonePrimed, Primed
<1>3. ASSUME NEW o, NEW row, SetIntent(o, row), o \in Ops => ~row.mutating \/ row.status # "pending"
                                                           \/ row.result \/ row.started,
             \A p \in Ops \ {o} : ~Primed(p, exec[x].epoch)
      PROVE  NonePrimed(x)'
  BY <1>1, <1>3, OneRow DEF NonePrimed, Primed
<1>4. ASSUME NEW o, persistOperationIntent(o), NonePrimed(x)
      PROVE  NonePrimed(x)'
  BY <1>1, <1>2, <1>3, <1>4, RowFields DEF persistOperationIntent, NonePrimed
<1>5. CASE Persist(x)
  <2>1. NonePrimed(x)
    BY <1>1, <1>5 DEF Persist, At, OwnView
  <2> QED
    BY <1>1, <1>2, <1>4, <1>5, <2>1, MovesView DEF Persist
<1>6. CASE Arm(x)
  <2>1. NonePrimed(x) /\ Goto(x, "sendCheck")
    BY <1>1, <1>6 DEF Arm, At, OwnView
  <2>2. \A p \in Ops \ {exec[x].op} : intents'[p] = intents[p]
    BY <1>1, <1>6, OneRow DEF Arm
  <2>3. \A p \in Ops \ {exec[x].op} : ~Primed(p, exec[x].epoch)'
    BY <1>1, <2>1, <2>2 DEF NonePrimed, Primed
  <2> QED
    BY <1>1, <2>1, <2>3, MoveFields DEF OwnView, Primed
<1>7. CASE Mark(x)
  <2>1. \A p \in Ops \ {exec[x].op} : ~Primed(p, exec[x].epoch)
    BY <1>1, <1>7 DEF Mark, At, OwnView
  <2> DEFINE row == [Merged(exec[x].op) EXCEPT !.started = TRUE]
  <2>2. row.started = TRUE /\ row.status = "pending"
    BY <1>1, RowFields
  <2> HIDE DEF row
  <2>3. CASE SetIntent(exec[x].op, row) /\ Goto(x, "gate")
    <3>1. NonePrimed(x)'
      BY <1>1, <1>3, <2>1, <2>2, <2>3
    <3>2. intents'[exec[x].op] = row
      BY <1>1, <2>3, OneRow
    <3> QED
      BY <1>1, <2>2, <2>3, <3>1, <3>2, MoveFields DEF OwnView, StartKnown
  <2>4. CASE UNCHANGED intents /\ Goto(x, "unsent")
    BY <1>1, <2>1, <2>4, MoveFields DEF OwnView, Primed
  <2> QED
    BY <1>7, <2>3, <2>4 DEF Mark, row
<1>8. CASE Unsent(x)
  <2>1. \A p \in Ops \ {exec[x].op} : ~Primed(p, exec[x].epoch)
    BY <1>1, <1>8 DEF Unsent, At, OwnView
  <2> DEFINE row == [intents[exec[x].op] EXCEPT !.mutating = FALSE]
  <2>2. row.mutating = FALSE
    BY <1>1, RowFields
  <2> HIDE DEF row
  <2>3. CASE Primed(exec[x].op, exec[x].epoch)
    <3>1. SetIntent(exec[x].op, row)
      BY <1>8, <2>3 DEF Unsent, Primed, row
    <3> QED
      BY <1>1, <1>3, <1>8, <2>1, <2>2, <3>1, MovesView DEF Unsent
  <2>4. CASE ~Primed(exec[x].op, exec[x].epoch)
    <3>1. NonePrimed(x) /\ UNCHANGED intents
      BY <1>8, <2>1, <2>4 DEF Unsent, Primed, NonePrimed
    <3> QED
      BY <1>1, <1>2, <1>8, <3>1, MovesView DEF Unsent
  <2> QED
    BY <2>3, <2>4
<1>9. CASE Repersist(x)
  <2>1. NonePrimed(x) /\ StartKnown(exec[x].op) /\ intents[exec[x].op].status # "absent"
    BY <1>1, <1>9 DEF Repersist, At, OwnView
  <2>2. UNCHANGED intents
    BY <1>9, <2>1 DEF Repersist, persistOperationIntent
  <2>3. NonePrimed(x)' /\ \A o : o = exec[x].op => StartKnown(o)'
    BY <1>2, <2>1, <2>2 DEF StartKnown
  <2> QED
    BY <1>1, <1>9, <2>3, MovesView DEF Repersist
<1>10. CASE WriteResult(x)
  <2>1. NonePrimed(x)
    BY <1>1, <1>10 DEF WriteResult, At, OwnView
  <2> DEFINE o == exec[x].target
  <2>2. NonePrimed(x)'
    <3>1. ASSUME o \in Ops
          PROVE  /\ [Merged(o) EXCEPT !.result = TRUE].result = TRUE
                 /\ Reconciled(o).status = "reconciled"
      BY <1>1, <3>1, RowFields
    <3> QED
      BY <1>2, <1>3, <1>10, <2>1, <3>1 DEF WriteResult, reconcileOperationIntent, NonePrimed
  <2> QED
    BY <1>1, <1>10, <2>2, MovesView DEF WriteResult
<1>11. CASE WriteFailure(x)
  <2>1. NonePrimed(x) \/ exec[x].aborted
    BY <1>1, <1>11 DEF WriteFailure, At, OwnView
  <2> DEFINE o == exec[x].target
  <2>2. NonePrimed(x) => NonePrimed(x)'
    <3>1. o \in Ops => \A s, t : ~Settled(o, s, t).mutating
      BY <1>1, RowFields
    <3> QED
      BY <1>2, <1>3, <1>11, <3>1 DEF WriteFailure, reconcileOperationIntent, NonePrimed
  <2> QED
    BY <1>1, <1>11, <2>1, <2>2, MovesView DEF WriteFailure
<1> QED
  BY <1>5, <1>6, <1>7, <1>8, <1>9, <1>10, <1>11

\* A settled row is unknown only where the status guard let an unknown one be written.
LEMMA SettledStarts ==
  ASSUME IInv, NEW x, NEW t \in Ops, NEW s, NEW u,
         reconcileOperationIntent(x, t, Settled(t, s, u))
  PROVE  /\ s = "failed" => StartedFirst
         /\ /\ s = "outcome_unknown"
            /\ Held(x) /\ Reconcilable(t, "outcome_unknown")
                 => intents[t].status = "outcome_unknown" \/ intents[t].started
            => StartedFirst
<1>1. Settled(t, s, u).status = s
  <2>1. intents[t] \in IntentRow
    BY DEF IInv, TypeOK
  <2> QED
    BY <2>1 DEF Settled, IntentRow
<1> DEFINE row == Settled(t, s, u)
<1> HIDE DEF row
<1>2. IF Held(x) /\ Reconcilable(t, s) THEN SetIntent(t, row) ELSE UNCHANGED intents
  BY <1>1 DEF reconcileOperationIntent, row
<1>3. row.status = s
  BY <1>1 DEF row
<1>4. CASE UNCHANGED intents
  BY <1>4, CalmSteps
<1>5. CASE Held(x) /\ Reconcilable(t, s) /\ SetIntent(t, row)
  BY <1>3, <1>5, OneRow DEF StartedFirst
<1> QED
  BY <1>2, <1>4, <1>5

\* An unknown outcome is written by the execution the row names, over a started intent.
LEMMA CallStartsFirst ==
  ASSUME UInv, NEW x \in Execs,
         \/ Persist(x) \/ Decide(x) \/ Lookup(x) \/ ArmCheck(x) \/ Arm(x) \/ SendCheck(x)
         \/ Mark(x) \/ Gate(x) \/ Confirm(x) \/ Send(x) \/ Unsent(x)
         \/ Respond(x) \/ Repersist(x) \/ Evidence(x) \/ Observed(x)
         \/ CheckWrite(x) \/ WriteResult(x) \/ WriteFailure(x)
  PROVE  StartedFirst
<1>1. IInv /\ exec[x].op \in Ops /\ Busy(x)
  BY CallKeepsClaim, CallSteps DEF UInv, RInv
<1>2. CASE UNCHANGED intents
  BY <1>1, <1>2, CalmSteps
<1>3. ASSUME NEW o, NEW row, SetIntent(o, row), row.status # "outcome_unknown"
      PROVE  StartedFirst
  BY <1>1, <1>3, OneRow DEF StartedFirst
<1>4. CASE Decide(x) \/ Lookup(x) \/ ArmCheck(x) \/ SendCheck(x) \/ Gate(x) \/ Confirm(x)
           \/ Send(x) \/ Respond(x) \/ Evidence(x) \/ Observed(x) \/ CheckWrite(x)
  BY <1>2, <1>4 DEF Decide, Lookup, ArmCheck, SendCheck, Gate, Confirm, Send, Respond, Evidence,
     Observed, CheckWrite
<1>5. CASE Persist(x) \/ Repersist(x)
  BY <1>1, <1>2, <1>3, <1>5, RowFields DEF Persist, Repersist, persistOperationIntent
<1>6. CASE Arm(x) \/ Mark(x)
  BY <1>1, <1>2, <1>3, <1>6, RowFields DEF Arm, Mark
<1>7. CASE Unsent(x)
  <2> DEFINE row == [intents[exec[x].op] EXCEPT !.mutating = FALSE]
  <2>1. row.status = intents[exec[x].op].status
    BY <1>1, RowFields
  <2> HIDE DEF row
  <2>2. UNCHANGED intents \/ (SetIntent(exec[x].op, row) /\ intents[exec[x].op].status = "pending")
    BY <1>7 DEF Unsent, row
  <2> QED
    BY <1>2, <1>3, <2>1, <2>2
<1>8. CASE WriteResult(x)
  <2>1. CASE exec[x].target \in Ops
    BY <1>1, <1>2, <1>3, <1>8, <2>1, RowFields DEF WriteResult, reconcileOperationIntent
  <2>2. CASE exec[x].target \notin Ops
    <3>1. \A o \in Ops : intents'[o] = intents[o]
      BY <1>1, <1>8, <2>2, OneRow DEF WriteResult, reconcileOperationIntent
    <3> QED
      BY <3>1 DEF StartedFirst
  <2> QED
    BY <2>1, <2>2
<1>9. CASE WriteFailure(x)
  <2> DEFINE t == exec[x].target
  <2>1. CASE t \notin Ops
    <3>1. \A o \in Ops : intents'[o] = intents[o]
      BY <1>1, <1>9, <2>1, OneRow DEF WriteFailure, reconcileOperationIntent
    <3> QED
      BY <3>1 DEF StartedFirst
  <2>2. CASE t \in Ops
    <3>1. CASE exec[x].write = "failed"
      <4>1. PICK u \in BOOLEAN : reconcileOperationIntent(x, t, Settled(t, "failed", u))
        BY <1>9, <3>1 DEF WriteFailure
      <4> QED
        BY <1>1, <2>2, <4>1, SettledStarts
    <3>2. CASE exec[x].write \in {"unknown", "terminal"}
      <4>1. PICK u \in BOOLEAN :
              reconcileOperationIntent(x, t, Settled(t, "outcome_unknown", u))
        BY <1>9, <3>2 DEF WriteFailure
      <4>2. ASSUME Held(x), Reconcilable(t, "outcome_unknown")
            PROVE  intents[t].status = "outcome_unknown" \/ intents[t].started
        <5>1. Current(x)
          BY <1>1, <4>2 DEF Held, isPrActorLeaseHeld, Current
        <5>2. StartKnown(t)
          BY <1>9, <3>2, <5>1 DEF UInv, OwnView, WriteFailure, At
        <5> QED
          BY <2>2, <4>2, <5>2 DEF Reconcilable, StartKnown
      <4> QED
        BY <1>1, <2>2, <4>1, <4>2, SettledStarts
    <3> QED
      BY <1>9, <3>1, <3>2 DEF WriteFailure
  <2> QED
    BY <2>1, <2>2
<1> QED
  BY <1>4, <1>5, <1>6, <1>7, <1>8, <1>9

\* Only the execution the row names touches a row so that another's view could change.
LEMMA CallLeavesOthers ==
  ASSUME UInv, NEW x \in Execs, NEW y \in Execs \ {x}, Current(y)',
         \/ Persist(x) \/ Decide(x) \/ Lookup(x) \/ ArmCheck(x) \/ Arm(x) \/ SendCheck(x)
         \/ Mark(x) \/ Gate(x) \/ Confirm(x) \/ Send(x) \/ Unsent(x)
         \/ Respond(x) \/ Repersist(x) \/ Evidence(x) \/ Observed(x)
         \/ CheckWrite(x) \/ WriteResult(x) \/ WriteFailure(x)
  PROVE  OwnView(y)'
<1>1. /\ IInv /\ exec[x].op \in Ops /\ Busy(x) /\ UNCHANGED lease
      /\ exec'[y] = exec[y] /\ exec[y] \in Execution
  BY CallKeepsClaim, CallSteps, ExecTyped DEF UInv, RInv
<1>2. Current(y) /\ OwnView(y)
  BY <1>1 DEF Current, Busy, UInv
<1>3. ~Held(x)
  BY <1>1, <1>2 DEF UInv, EpochUnique, Current, Held, isPrActorLeaseHeld
<1>4. CASE Unsent(x)
  <2> DEFINE o == exec[x].op
             row == [intents[o] EXCEPT !.mutating = FALSE]
  <2>1. row.mutating = FALSE /\ row.status = intents[o].status /\ row.started = intents[o].started
    BY <1>1, RowFields
  <2> HIDE DEF row
  <2>2. UNCHANGED intents \/ SetIntent(o, row)
    BY <1>4 DEF Unsent, row
  <2>3. /\ \A p \in Ops : intents'[p].status = intents[p].status
                          /\ intents'[p].started = intents[p].started
        /\ \A p \in Ops : \A e : Primed(p, e)' => Primed(p, e)
    BY <1>1, <2>1, <2>2, OneRow DEF Primed
  <2>4. NonePrimed(y) => NonePrimed(y)'
    BY <1>1, <2>3 DEF NonePrimed
  <2>5. \A p : StartKnown(p) => StartKnown(p)'
    BY <2>3 DEF StartKnown
  <2>6. (\A p \in Ops \ {exec[y].op} : ~Primed(p, exec[y].epoch))
          => \A p \in Ops \ {exec'[y].op} : ~Primed(p, exec[y].epoch)'
    BY <1>1, <2>3
  <2>7. \A p \in Ops : intents[p].status # "absent" => intents'[p].status # "absent"
    BY <2>3
  <2>8. exec[y].pc \notin {"idle", "ready"} => exec[y].op \in Ops
    BY <1>1 DEF IInv, BoundOps
  <2> QED
    BY <1>1, <1>2, <2>4, <2>5, <2>6, <2>7, <2>8 DEF OwnView, Primed, StartKnown
<1>5. CASE ~Unsent(x)
  <2>1. UNCHANGED intents
    BY <1>3, <1>5 DEF Persist, Decide, Lookup, ArmCheck, Arm, SendCheck, Mark, Gate, Confirm, Send,
       Respond, Repersist, Evidence, Observed, CheckWrite, WriteResult, WriteFailure,
       reconcileOperationIntent, Ready
  <2> QED
    BY <1>1, <1>2, <2>1 DEF OwnView, NonePrimed, Primed, StartKnown
<1> QED
  BY <1>4, <1>5

\* Claims and epochs stay apart when a step of a call, or one that only drops claims, runs.
LEMMA ClaimsKept ==
  ASSUME UInv, lease'.epoch = lease.epoch,
         \A y \in Execs : Busy(y)' =>
           Busy(y) /\ exec'[y].epoch = exec[y].epoch /\ exec'[y].item = exec[y].item
  PROVE  EpochsIssued' /\ EpochUnique' /\ HasItem'
BY DEF UInv, EpochsIssued, EpochUnique, HasItem

\* The epoch of an arming was issued: it is the execution's own.
LEMMA CallArms ==
  ASSUME UInv, NEW x \in Execs,
         \/ Persist(x) \/ Decide(x) \/ Lookup(x) \/ ArmCheck(x) \/ Arm(x) \/ SendCheck(x)
         \/ Mark(x) \/ Gate(x) \/ Confirm(x) \/ Send(x) \/ Unsent(x)
         \/ Respond(x) \/ Repersist(x) \/ Evidence(x) \/ Observed(x)
         \/ CheckWrite(x) \/ WriteResult(x) \/ WriteFailure(x)
  PROVE  ArmedIssued'
<1>1. /\ IInv /\ exec[x].op \in Ops /\ Busy(x) /\ UNCHANGED lease
      /\ lease.epoch \in Nat /\ exec[x].epoch <= lease.epoch
  BY CallKeepsClaim, CallSteps DEF UInv, RInv, IInv, TypeOK, LeaseRow, EpochsIssued
<1>2. CASE UNCHANGED intents
  BY <1>1, <1>2 DEF UInv, ArmedIssued
<1>3. ASSUME NEW o, NEW row, SetIntent(o, row), o \in Ops => row.armed <= lease.epoch
      PROVE  ArmedIssued'
  BY <1>1, <1>3, OneRow DEF UInv, ArmedIssued
<1>4. \A o \in Ops : intents[o].armed <= lease.epoch
  BY DEF UInv, ArmedIssued
<1>5. CASE Decide(x) \/ Lookup(x) \/ ArmCheck(x) \/ SendCheck(x) \/ Gate(x) \/ Confirm(x)
           \/ Send(x) \/ Respond(x) \/ Evidence(x) \/ Observed(x) \/ CheckWrite(x)
  BY <1>2, <1>5 DEF Decide, Lookup, ArmCheck, SendCheck, Gate, Confirm, Send, Respond, Evidence,
     Observed, CheckWrite
<1>6. CASE Persist(x) \/ Repersist(x)
  <2>1. [AbsentIntent EXCEPT !.status = "pending"].armed <= lease.epoch
    <3>1. [AbsentIntent EXCEPT !.status = "pending"].armed = 0
      BY <1>1, ArmedFields
    <3> QED
      BY <1>1, <3>1
  <2>2. \/ UNCHANGED intents
        \/ SetIntent(exec[x].op, [AbsentIntent EXCEPT !.status = "pending"])
    BY <1>6 DEF Persist, Repersist, persistOperationIntent
  <2> QED
    BY <1>2, <1>3, <2>1, <2>2
<1>7. CASE Arm(x) \/ Mark(x)
  <2>1. /\ Armed(exec[x].op, exec[x].epoch).armed <= lease.epoch
        /\ [Merged(exec[x].op) EXCEPT !.started = TRUE].armed <= lease.epoch
    <3>1. /\ Armed(exec[x].op, exec[x].epoch).armed = exec[x].epoch
          /\ [Merged(exec[x].op) EXCEPT !.started = TRUE].armed = intents[exec[x].op].armed
      BY <1>1, ArmedFields
    <3> QED
      BY <1>1, <1>4, <3>1
  <2>2. \/ UNCHANGED intents
        \/ SetIntent(exec[x].op, Armed(exec[x].op, exec[x].epoch))
        \/ SetIntent(exec[x].op, [Merged(exec[x].op) EXCEPT !.started = TRUE])
    BY <1>7 DEF Arm, Mark
  <2> QED
    BY <1>2, <1>3, <2>1, <2>2
<1>8. CASE Unsent(x)
  BY <1>1, <1>2, <1>3, <1>4, <1>8, RowFields DEF Unsent
<1>9. CASE WriteResult(x)
  <2>1. exec[x].target \in Ops =>
          /\ Reconciled(exec[x].target).armed <= lease.epoch
          /\ [Merged(exec[x].target) EXCEPT !.result = TRUE].armed <= lease.epoch
    BY <1>1, <1>4, RowFields
  <2> QED
    BY <1>2, <1>3, <1>9, <2>1 DEF WriteResult, reconcileOperationIntent
<1>10. CASE WriteFailure(x)
  <2> DEFINE t == exec[x].target
  <2>1. PICK s \in IntentStatus, u \in BOOLEAN : reconcileOperationIntent(x, t, Settled(t, s, u))
    BY <1>10 DEF WriteFailure, IntentStatus
  <2>2. t \in Ops => Settled(t, s, u).armed <= lease.epoch
    BY <1>1, <1>4, SettledFields
  <2>3. UNCHANGED intents \/ SetIntent(t, Settled(t, s, u))
    BY <2>1 DEF reconcileOperationIntent
  <2> QED
    BY <1>2, <1>3, <2>2, <2>3
<1> QED
  BY <1>5, <1>6, <1>7, <1>8, <1>9, <1>10

\* A step of a call.
LEMMA CallKeepsUInv ==
  ASSUME UInv, RInv', NEW x \in Execs,
         \/ Persist(x) \/ Decide(x) \/ Lookup(x) \/ ArmCheck(x) \/ Arm(x) \/ SendCheck(x)
         \/ Mark(x) \/ Gate(x) \/ Confirm(x) \/ Send(x) \/ Unsent(x)
         \/ Respond(x) \/ Repersist(x) \/ Evidence(x) \/ Observed(x)
         \/ CheckWrite(x) \/ WriteResult(x) \/ WriteFailure(x)
  PROVE  UInv' /\ StartedFirst
<1>1. /\ exec'[x].epoch = exec[x].epoch /\ exec'[x].item = exec[x].item
      /\ UNCHANGED lease /\ Busy(x) /\ \A y \in Execs \ {x} : exec'[y] = exec[y]
  BY CallKeepsClaim, CallSteps DEF UInv
<1>2. EpochsIssued' /\ EpochUnique' /\ HasItem'
  BY <1>1, ClaimsKept DEF Busy
<1>3. ASSUME NEW y \in Execs, Current(y)'
      PROVE  OwnView(y)'
  BY <1>3, CallLeavesOthers, ReadsView, WritesView
<1> QED
  BY <1>2, <1>3, CallArms, CallStartsFirst DEF UInv

\* Outside the calls: the intents are untouched, and an execution whose claim the row still
\* names is where it was, or has lost a reply, gained an abort, or begins a call.
LEMMA ElsewhereView ==
  ASSUME UInv, UNCHANGED intents, NEW y \in Execs, Current(y),
         exec'[y].epoch = exec[y].epoch, exec'[y].op = exec[y].op, exec'[y].pc = exec[y].pc,
         exec'[y].target = exec[y].target, exec'[y].write = exec[y].write,
         exec[y].aborted => exec'[y].aborted
  PROVE  OwnView(y)'
BY DEF UInv, OwnView, NonePrimed, Primed, StartKnown

\* A fresh claim names an epoch under which nothing was ever armed.
LEMMA ClaimKeepsUInv ==
  ASSUME UInv, RInv', NEW x \in Execs, NEW i \in Items, Claim(x, i)
  PROVE  UInv'
<1> DEFINE r == [IdleExec EXCEPT !.pc = "ready", !.item = i, !.epoch = lease.epoch + 1]
<1>1. /\ r.pc = "ready" /\ r.item = i /\ r.epoch = lease.epoch + 1 /\ r.aborted = FALSE
  BY DEF IdleExec
<1>2. /\ exec \in [Execs -> Execution] /\ intents \in [Ops -> IntentRow] /\ lease.epoch \in Nat
      /\ exec' = [exec EXCEPT ![x] = r] /\ UNCHANGED intents
      /\ lease'.epoch = lease.epoch + 1
  BY DEF Claim, UInv, RInv, IInv, TypeOK, LeaseRow, acquirePrActorLease
<1> HIDE DEF r
<1>3. exec'[x] = r /\ \A y \in Execs \ {x} : exec'[y] = exec[y]
  BY <1>2
<1>4. \A y \in Execs : exec[y].epoch \in Nat
  BY <1>2 DEF Execution
<1>5. \A o \in Ops : intents[o].armed \in Nat
  BY <1>2 DEF IntentRow
<1>6. EpochsIssued' /\ EpochUnique' /\ HasItem'
  BY <1>1, <1>2, <1>3, <1>4 DEF UInv, EpochsIssued, EpochUnique, HasItem, Busy
<1>7. ArmedIssued'
  BY <1>2, <1>5 DEF UInv, ArmedIssued
<1>8. ASSUME NEW y \in Execs, Current(y)'
      PROVE  OwnView(y)'
  <2>1. y = x
    BY <1>2, <1>3, <1>4, <1>8 DEF UInv, EpochsIssued, Current, Busy
  <2>2. \A o \in Ops : intents[o].armed # lease.epoch + 1
    BY <1>2, <1>5 DEF UInv, ArmedIssued
  <2>3. NonePrimed(x)'
    BY <1>1, <1>2, <1>3, <2>2 DEF NonePrimed, Primed
  <2> QED
    BY <1>1, <1>3, <2>1, <2>3 DEF OwnView
<1> QED
  BY <1>6, <1>7, <1>8 DEF UInv

\* A call begins only unaborted, so with nothing primed.
LEMMA EntryKeepsUInv ==
  ASSUME UInv, RInv', NEW x \in Execs, (\E o \in Ops : Call(x, o)) \/ Leave(x) \/ Crash(x)
  PROVE  UInv'
<1>1. /\ exec \in [Execs -> Execution] /\ exec[x] \in Execution /\ UNCHANGED intents
      /\ lease'.epoch = lease.epoch /\ lease'.holder \in {lease.holder, NoItem}
      /\ \A y \in Execs \ {x} : exec'[y] = exec[y]
  BY DEF Call, Leave, Crash, UInv, RInv, IInv, TypeOK, LeaseRow, releasePrActorLease, Cleared
<1>2. CASE \E o \in Ops : Call(x, o)
  <2>1. PICK o \in Ops : Call(x, o)
    BY <1>2
  <2> DEFINE r == [exec[x] EXCEPT !.op = o, !.outcome = "aborted"]
             s == [exec[x] EXCEPT !.pc = "persist", !.op = o, !.outcome = "none"]
  <2>2. exec[x].pc = "ready" /\ UNCHANGED lease
    BY <2>1 DEF Call, At
  <2>3. /\ r.pc = "ready" /\ r.item = exec[x].item /\ r.epoch = exec[x].epoch
        /\ r.aborted = exec[x].aborted
        /\ s.pc = "persist" /\ s.item = exec[x].item /\ s.epoch = exec[x].epoch
    BY <1>1, <2>2 DEF Execution
  <2>4. exec'[x] = r \/ (exec'[x] = s /\ ~exec[x].aborted)
    BY <1>1, <2>1 DEF Call
  <2> HIDE DEF r, s
  <2>5. EpochsIssued' /\ EpochUnique' /\ HasItem'
    BY <1>1, <2>2, <2>3, <2>4, ClaimsKept DEF Busy
  <2>6. ASSUME NEW y \in Execs, Current(y)'
        PROVE  OwnView(y)'
    <3>1. Current(y) /\ exec'[y].epoch = exec[y].epoch
      BY <1>1, <2>2, <2>3, <2>4, <2>6 DEF Current, Busy
    <3>2. OwnView(y)
      BY <3>1 DEF UInv
    <3>3. CASE y = x
      <4>1. exec[x].aborted \/ NonePrimed(x)
        BY <2>2, <3>2, <3>3 DEF OwnView
      <4>2. NonePrimed(x) => NonePrimed(x)'
        BY <1>1, <3>1, <3>3 DEF NonePrimed, Primed
      <4> QED
        BY <2>3, <2>4, <3>3, <4>1, <4>2 DEF OwnView
    <3>4. CASE y # x
      BY <1>1, <3>1, <3>4, ElsewhereView
    <3> QED
      BY <3>3, <3>4
  <2> QED
    BY <1>1, <2>5, <2>6 DEF UInv, ArmedIssued
<1>3. CASE Leave(x) \/ Crash(x)
  <2>1. exec'[x].pc = "idle"
    BY <1>1, <1>3 DEF Leave, Crash, IdleExec
  <2>2. EpochsIssued' /\ EpochUnique' /\ HasItem'
    BY <1>1, <2>1, ClaimsKept DEF Busy
  <2>3. ASSUME NEW y \in Execs, Current(y)'
        PROVE  OwnView(y)'
    <3>1. y # x /\ exec'[y] = exec[y] /\ exec[y].item \in Items /\ lease'.holder # NoItem
      BY <1>1, <2>1, <2>3, NoItemAssumption DEF Current, Busy, UInv, HasItem
    <3>2. Current(y)
      BY <1>1, <2>3, <3>1 DEF Current, Busy
    <3> QED
      BY <1>1, <3>1, <3>2, ElsewhereView
  <2> QED
    BY <1>1, <2>2, <2>3 DEF UInv, ArmedIssued
<1> QED
  BY <1>2, <1>3

\* GitHub, the clock, intake and the signal.
LEMMA EnvironmentKeepsUInv ==
  ASSUME UInv, RInv',
         \/ UNCHANGED vars \/ LeaseExpires
         \/ \E r \in wire : GithubAccepts(r) \/ GithubRejects(r)
         \/ \E i \in Items : CancelItem(i)
         \/ \E y \in Execs : LateRenewal(y) \/ Abort(y)
  PROVE  UInv'
<1>1. /\ exec \in [Execs -> Execution] /\ UNCHANGED intents
      /\ lease'.epoch = lease.epoch /\ lease'.holder \in {lease.holder, NoItem}
  BY DEF vars, LeaseExpires, GithubAccepts, GithubRejects, CancelItem, LateRenewal, Abort, UInv,
     RInv, IInv, TypeOK, LeaseRow, releasePrActorLeaseHeldByWorkItems, Cleared, renewPrActorLease
<1>2. \A y \in Execs :
        /\ exec'[y].epoch = exec[y].epoch /\ exec'[y].op = exec[y].op /\ exec'[y].pc = exec[y].pc
        /\ exec'[y].target = exec[y].target /\ exec'[y].write = exec[y].write
        /\ exec'[y].item = exec[y].item
        /\ exec[y].aborted => exec'[y].aborted
  <2> SUFFICES ASSUME NEW y \in Execs
               PROVE  /\ exec'[y].epoch = exec[y].epoch /\ exec'[y].op = exec[y].op
                      /\ exec'[y].pc = exec[y].pc /\ exec'[y].target = exec[y].target
                      /\ exec'[y].write = exec[y].write /\ exec'[y].item = exec[y].item
                      /\ exec[y].aborted => exec'[y].aborted
    OBVIOUS
  <2>1. exec[y] \in Execution
    BY <1>1
  <2>2. CASE UNCHANGED exec
    BY <2>2
  <2>3. CASE \E r, s : Reply(r, s)
    BY <2>1, <2>3 DEF Reply, Execution
  <2>4. CASE \E x \in Execs : Abort(x)
    <3>1. PICK x \in Execs, lost \in BOOLEAN : exec' = [exec EXCEPT ![x].aborted = TRUE, ![x].lost = lost]
      BY <2>4 DEF Abort
    <3> QED
      BY <1>1, <2>1, <3>1 DEF Execution
  <2> QED
    BY <2>2, <2>3, <2>4 DEF vars, LeaseExpires, GithubAccepts, GithubRejects, CancelItem, LateRenewal
<1>3. EpochsIssued' /\ EpochUnique' /\ HasItem'
  <2>1. \A y \in Execs : Busy(y)' => Busy(y)
    BY <1>2 DEF Busy
  <2> QED
    BY <1>1, <1>2, <2>1, ClaimsKept
<1>4. ASSUME NEW y \in Execs, Current(y)'
      PROVE  OwnView(y)'
  <2>1. Current(y)
    <3>1. Busy(y) /\ lease'.holder = exec[y].item /\ lease'.epoch = exec[y].epoch
      BY <1>2, <1>4 DEF Current, Busy
    <3>2. exec[y].item \in Items
      BY <3>1 DEF UInv, HasItem
    <3> QED
      BY <1>1, <3>1, <3>2, NoItemAssumption DEF Current
  <2> QED
    BY <1>1, <1>2, <2>1, ElsewhereView
<1> QED
  BY <1>1, <1>3, <1>4 DEF UInv, ArmedIssued

\* Every step keeps the invariant, and declares unknown only what was started.
LEMMA StepKeepsUInv ==
  ASSUME UInv, RInv', [Next]_vars
  PROVE  UInv' /\ StartedFirst
<1>1. ASSUME NEW x \in Execs, ExecStep(x) \/ Crash(x)
      PROVE  UInv' /\ StartedFirst
  <2>1. CASE (\E i \in Items : Claim(x, i)) \/ (\E o \in Ops : Call(x, o)) \/ Leave(x) \/ Crash(x)
    <3>1. UNCHANGED intents
      BY <2>1 DEF Claim, Call, Leave, Crash
    <3> QED
      BY <2>1, <3>1, CalmSteps, ClaimKeepsUInv, EntryKeepsUInv
  <2> QED
    BY <1>1, <2>1, CallKeepsUInv DEF ExecStep
<1>2. ASSUME \/ UNCHANGED vars \/ LeaseExpires
             \/ \E r \in wire : GithubAccepts(r) \/ GithubRejects(r)
             \/ \E i \in Items : CancelItem(i)
             \/ \E y \in Execs : LateRenewal(y) \/ Abort(y)
      PROVE  UInv' /\ StartedFirst
  <2>1. UNCHANGED intents
    BY <1>2 DEF vars, LeaseExpires, GithubAccepts, GithubRejects, CancelItem, LateRenewal, Abort
  <2> QED
    BY <1>2, <2>1, CalmSteps, EnvironmentKeepsUInv
<1> QED
  BY <1>1, <1>2 DEF Next, Environment

\* The inductive invariant of unknown outcomes: while the row names an execution, nothing
\* but the operation it is arming is primed under its epoch, and what it recovers was started.
THEOREM UnknownInductive == Spec => []UInv
<1>1. Init => UInv
  BY InitIInv, NoItemAssumption DEF Init, IdleExec, AbsentIntent, NoLease, RInv, RestsOnAccepted,
     ReconciledIsReal, UInv, EpochsIssued, EpochUnique, HasItem, ArmedIssued, Current, Busy
<1>2. RInv /\ RInv' /\ UInv /\ [Next]_vars => UInv'
  BY StepKeepsUInv
<1> QED
  BY <1>1, <1>2, RecordsInductive, PTL DEF Spec

\* An outcome is declared unknown only if the send of that intent had started: with revived
\* leases, cancellations and crashes, whoever stalls after arming cannot force it.
THEOREM UnknownHadStarted == Spec => UnknownWasStarted
<1>1. RInv' /\ UInv /\ [Next]_vars => [StartedFirst]_vars
  BY StepKeepsUInv
<1>2. [StartedFirst]_vars =>
        [\A o \in Ops :
           intents[o].status # "outcome_unknown" /\ intents'[o].status = "outcome_unknown"
             => intents[o].started]_vars
  BY DEF StartedFirst
<1> QED
  BY <1>1, <1>2, RecordsInductive, UnknownInductive, PTL DEF Spec, UnknownWasStarted

\* Statuses move honestly, whoever writes them and in whatever order: the sender, its
\* retries and the next holder rewrite no outcome and give none up before its send.
THEOREM OutcomesMoveHonestly == Spec => OutcomesHonest
BY OutcomesAreFinal, UnknownHadStarted DEF OutcomesHonest

=============================================================================
