-------------------------- MODULE LeasedWorkProofs --------------------------
(***************************************************************************)
(* Proofs about LeasedWork.  The two invariants worth having, that the     *)
(* holder's row records the lease's epoch and that no two executions share *)
(* one, are not inductive alone: a fresh row must not be the holder's, and *)
(* an execution's epoch must have been issued by this lease.  IInv adds    *)
(* both, and the typing facts the actions need.  All steps but the claim   *)
(* and intake keep a common frame, so that each action is looked at once.  *)
(***************************************************************************)
EXTENDS LeasedWork, TLAPS

(* The inductive invariant *)

\* Between the claim and the release: the execution holds an epoch.
Owned(w) == exec[w].pc \in OwnedPhases

\* Slots and jobs that are in use name an item.
BoundItems == \A w \in Workers : exec[w].pc \notin {"idle", "settle"} => exec[w].item \in Items

BoundJobs == \A j \in JobIds : jobs[j].state # "none" => jobs[j].item \in Items

\* The holder is an item that was created.
HolderPresent == lease.holder # NoItem => items[lease.holder].status # "absent"

\* Every execution's epoch was issued by this lease.
EpochsIssued == \A w \in Workers : Owned(w) => exec[w].epoch <= lease.epoch

IInv ==
  /\ TypeOK
  /\ BoundItems
  /\ BoundJobs
  /\ HolderPresent
  /\ HolderRecorded
  /\ EpochsIssued
  /\ EpochUnique

(* Frames: what all steps but the claim and intake leave alone *)

ExecFrame ==
  /\ exec' \in [Workers -> Execution]
  /\ \A w \in Workers :
       /\ exec'[w].pc \notin {"idle", "settle"} => exec'[w].item \in Items
       /\ exec'[w].pc \in OwnedPhases => Owned(w) /\ exec'[w].epoch = exec[w].epoch

ItemFrame ==
  /\ items' \in [Items -> ItemRow]
  /\ \A i \in Items :
       /\ items'[i].epoch = items[i].epoch
       /\ items[i].status # "absent" => items'[i].status # "absent"
       /\ items[i].status \in Terminal => items'[i].status = items[i].status

LeaseFrame ==
  /\ lease' \in LeaseRow
  /\ lease'.epoch = lease.epoch
  /\ lease'.holder \in {lease.holder, NoItem}

JobFrame ==
  /\ jobs' \in [JobIds -> JobRow]
  /\ \A j \in JobIds : jobs'[j].state # "none" => jobs'[j].item \in Items

FaultFrame == faults' \in [FaultKinds -> Nat]

Frame == ExecFrame /\ ItemFrame /\ LeaseFrame /\ JobFrame /\ FaultFrame

-----------------------------------------------------------------------------

\* A slot without a delivery is well typed.
LEMMA IdleTyped == IdleExec \in Execution
BY NoItemAssumption, WorkAssumption DEF IdleExec, Execution, Phases, Errors

\* The empty database and the idle slots satisfy the invariant.
LEMMA InitIInv == Init => IInv
<1> SUFFICES ASSUME Init PROVE IInv
  OBVIOUS
<1>1. TypeOK
  BY IdleTyped, NoItemAssumption, WorkAssumption
  DEF Init, TypeOK, NoLease, LeaseRow, AbsentItem, ItemRow, Status, GoneJob, JobRow
<1>2. BoundItems /\ EpochsIssued /\ EpochUnique
  BY DEF Init, IdleExec, BoundItems, EpochsIssued, EpochUnique, Owned, OwnedPhases
<1>3. BoundJobs /\ HolderPresent /\ HolderRecorded
  BY DEF Init, GoneJob, NoLease, BoundJobs, HolderPresent, HolderRecorded
<1> QED BY <1>1, <1>2, <1>3 DEF IInv

\* Moving a slot to another phase keeps the frame when it does not enter the
\* owned phases from outside.
LEMMA GotoFrame ==
  ASSUME IInv, NEW w \in Workers, NEW pc \in Phases, Goto(w, pc),
         exec[w].item \in Items, pc \in OwnedPhases => Owned(w)
  PROVE  ExecFrame
<1>1. exec' \in [Workers -> Execution]
  BY DEF IInv, TypeOK, Goto, Execution
<1>2. exec'[w].pc = pc /\ exec'[w].item = exec[w].item /\ exec'[w].epoch = exec[w].epoch
  BY DEF IInv, TypeOK, Goto, Execution
<1>3. \A v \in Workers \ {w} : exec'[v] = exec[v]
  BY DEF IInv, TypeOK, Goto
<1> QED BY <1>1, <1>2, <1>3 DEF IInv, BoundItems, ExecFrame, Owned

\* Leaving the try block keeps item and epoch for the release.
LEMMA LeaveFrame ==
  ASSUME IInv, NEW w \in Workers, NEW b \in BOOLEAN, Leave(w, b), Owned(w)
  PROVE  ExecFrame
<1>1. exec' \in [Workers -> Execution]
  BY IdleTyped DEF IInv, TypeOK, Leave, Execution, Phases, OwnedPhases, IdleExec
<1>2. exec'[w].item = exec[w].item /\ exec'[w].epoch = exec[w].epoch /\ exec'[w].pc = "release"
  BY DEF IInv, TypeOK, Leave, Execution, IdleExec
<1>3. \A v \in Workers \ {w} : exec'[v] = exec[v]
  BY DEF IInv, TypeOK, Leave
<1> QED BY <1>1, <1>2, <1>3 DEF IInv, BoundItems, ExecFrame, Owned, OwnedPhases

\* Handing the outcome to pg-boss gives up item and epoch.
LEMMA SettleFrame ==
  ASSUME IInv, NEW w \in Workers, NEW b \in BOOLEAN, Settle(w, b)
  PROVE  ExecFrame
<1>1. exec' \in [Workers -> Execution]
  BY IdleTyped DEF IInv, TypeOK, Settle, Execution, Phases, IdleExec
<1>2. exec'[w].pc = "settle"
  BY DEF IInv, TypeOK, Settle, Execution, IdleExec
<1>3. \A v \in Workers \ {w} : exec'[v] = exec[v]
  BY DEF IInv, TypeOK, Settle
<1> QED BY <1>1, <1>2, <1>3 DEF IInv, BoundItems, ExecFrame, Owned, OwnedPhases

\* A thrown error changes the phase, the error and the abort flag only.
LEMMA ThrowFrame ==
  ASSUME IInv, NEW w \in Workers, NEW e \in Errors, Throw(w, e), Owned(w)
  PROVE  ExecFrame
<1> DEFINE x == [exec[w] EXCEPT !.pc = "error"]
           y == [x EXCEPT !.error = e]
           z == [y EXCEPT !.leaseAborted = FALSE]
<1>1. x \in Execution /\ x.pc = "error" /\ x.item = exec[w].item /\ x.epoch = exec[w].epoch
  BY DEF IInv, TypeOK, Execution, Phases, OwnedPhases
<1> HIDE DEF x
<1>2. y \in Execution /\ y.pc = x.pc /\ y.item = x.item /\ y.epoch = x.epoch
  BY <1>1 DEF Execution
<1> HIDE DEF y
<1>3. z \in Execution /\ z.pc = y.pc /\ z.item = y.item /\ z.epoch = y.epoch
  BY <1>2 DEF Execution
<1> HIDE DEF z
<1>4. exec' = [exec EXCEPT ![w] = z]
  BY DEF Throw, x, y, z
<1>5. exec' \in [Workers -> Execution] /\ exec'[w] = z /\ \A v \in Workers \ {w} : exec'[v] = exec[v]
  BY <1>3, <1>4 DEF IInv, TypeOK
<1> QED BY <1>1, <1>2, <1>3, <1>5 DEF IInv, BoundItems, ExecFrame, Owned, OwnedPhases

\* What is unchanged keeps its frame.
LEMMA UnchangedFrames ==
  ASSUME IInv
  PROVE  /\ UNCHANGED exec => ExecFrame
         /\ UNCHANGED items => ItemFrame
         /\ UNCHANGED lease => LeaseFrame
         /\ UNCHANGED jobs => JobFrame
         /\ UNCHANGED faults => FaultFrame
BY DEF IInv, TypeOK, BoundItems, BoundJobs, ExecFrame, ItemFrame, LeaseFrame, JobFrame, FaultFrame, Owned

\* Spending a fault keeps the budget a natural number.
LEMMA FaultTyped ==
  ASSUME IInv, NEW k \in FaultKinds, Fault(k)
  PROVE  FaultFrame
BY DEF IInv, TypeOK, Fault, FaultFrame

\* A status written to an active row keeps the frame: it reopens nothing.
LEMMA SetStatusFrame ==
  ASSUME IInv, NEW i \in Items, NEW s \in Active \cup Terminal,
         items[i].status \in Active, SetStatus(i, s)
  PROVE  ItemFrame
<1>1. items' \in [Items -> ItemRow]
  BY DEF IInv, TypeOK, SetStatus, ItemRow, Status
<1>2. items'[i].status = s /\ items'[i].epoch = items[i].epoch
  BY DEF IInv, TypeOK, SetStatus, ItemRow
<1>3. \A k \in Items \ {i} : items'[k] = items[k]
  BY DEF IInv, TypeOK, SetStatus
<1>4. s # "absent" /\ items[i].status \notin Terminal
  BY DEF Active, Terminal
<1> QED BY <1>1, <1>2, <1>3, <1>4 DEF ItemFrame

\* The three ways to cancel write active rows only.
LEMMA CancelFrames ==
  ASSUME IInv, NEW w \in Workers, exec[w].item \in Items
  PROVE  /\ markWorkCancelledUnfenced(exec[w].item) => ItemFrame
         /\ cancelWhileOwned(w) => ItemFrame
         /\ recheckSkippableAndCancel(w) => ItemFrame
<1>1. ASSUME markWorkCancelledUnfenced(exec[w].item) PROVE ItemFrame
  <2>1. CASE items[exec[w].item].status \in Active
    <3>1. SetStatus(exec[w].item, "cancelled")
      BY <1>1, <2>1 DEF markWorkCancelledUnfenced
    <3> QED BY <3>1, <2>1, SetStatusFrame DEF Terminal
  <2>2. CASE items[exec[w].item].status \notin Active
    BY <1>1, <2>2, UnchangedFrames DEF markWorkCancelledUnfenced
  <2> QED BY <2>1, <2>2
<1>2. cancelWhileOwned(w) => ItemFrame
  BY <1>1, UnchangedFrames DEF cancelWhileOwned
<1> QED BY <1>1, <1>2, UnchangedFrames DEF recheckSkippableAndCancel

\* A sent job carries a work item.
LEMMA JobFrames ==
  ASSUME IInv, NEW i \in Items, NEW b \in BOOLEAN
  PROVE  /\ send(i, b) => JobFrame
         /\ armLeaseWatchdogHop(i) => JobFrame
<1>1. ASSUME NEW h \in BOOLEAN, send(i, h) PROVE JobFrame
  <2>1. NewJob(i, h) \in JobRow /\ NewJob(i, h).item = i
    BY DEF NewJob, JobRow
  <2>2. PICK j \in FreeJobs : jobs' = [jobs EXCEPT ![j] = NewJob(i, h)]
    BY <1>1 DEF send
  <2>3. j \in JobIds
    BY DEF FreeJobs
  <2> QED BY <2>1, <2>2, <2>3 DEF IInv, TypeOK, BoundJobs, JobFrame
<1> QED BY <1>1, UnchangedFrames DEF armLeaseWatchdogHop

\* A job that fails, expires or completes keeps its item or is gone.
LEMMA JobEnds ==
  ASSUME IInv, NEW j \in JobIds, NEW b \in BOOLEAN,
         \/ jobs' = [jobs EXCEPT ![j] = FailedJob(jobs[j])] /\ jobs[j].state # "none"
         \/ jobs' = [jobs EXCEPT ![j] = SettledJob(jobs[j], b)]
  PROVE  JobFrame
<1>1. GoneJob \in JobRow /\ GoneJob.state = "none"
  BY DEF GoneJob, JobRow
<1>2. jobs[j] \in JobRow /\ (jobs[j].state # "none" => jobs[j].item \in Items)
  BY DEF IInv, TypeOK, BoundJobs
<1>3. FailedJob(jobs[j]) \in JobRow /\ FailedJob(jobs[j]).item \in {jobs[j].item, NoItem}
      /\ (FailedJob(jobs[j]).state # "none" => FailedJob(jobs[j]).item = jobs[j].item)
  <2>1. CASE jobs[j].retries < RetryLimit
    <3> DEFINE r == [jobs[j] EXCEPT !.state = "pending", !.retries = jobs[j].retries + 1]
    <3> DEFINE p == [jobs[j] EXCEPT !.state = "pending"]
    <3>a. p \in JobRow /\ p.item = jobs[j].item
      BY <1>2 DEF JobRow
    <3> HIDE DEF p
    <3>b. jobs[j].retries + 1 \in Nat
      BY <1>2 DEF JobRow
    <3>c. [p EXCEPT !.retries = jobs[j].retries + 1] \in JobRow
          /\ [p EXCEPT !.retries = jobs[j].retries + 1].item = p.item
      BY <3>a, <3>b DEF JobRow
    <3>1. r \in JobRow /\ r.item = jobs[j].item
      BY <3>a, <3>c DEF p
    <3>2. FailedJob(jobs[j]) = r
      BY <2>1 DEF FailedJob
    <3> QED BY <3>1, <3>2
  <2>2. CASE ~(jobs[j].retries < RetryLimit)
    BY <1>1, <2>2 DEF FailedJob, GoneJob
  <2> QED BY <2>1, <2>2
<1>4. SettledJob(jobs[j], b) \in JobRow
      /\ (SettledJob(jobs[j], b).state # "none" => SettledJob(jobs[j], b).item \in Items)
  BY <1>1, <1>2, <1>3 DEF SettledJob
<1> QED BY <1>2, <1>3, <1>4 DEF IInv, TypeOK, BoundJobs, JobFrame

-----------------------------------------------------------------------------
(* Steps of a slot before the claim *)

\* The phases outside the lease are disjoint from the owned ones.
LEMMA PhaseFacts ==
  /\ OwnedPhases \subseteq Phases
  /\ {"idle", "skipCheck", "cancel", "seed", "acquire", "settle"} \subseteq Phases
  /\ {"idle", "skipCheck", "cancel", "seed", "acquire", "settle"} \cap OwnedPhases = {}
BY DEF Phases, OwnedPhases

\* Deliver keeps the frame.
LEMMA DeliverFrame ==
  ASSUME IInv, NEW w \in Workers, NEW j \in JobIds, Deliver(w, j)
  PROVE  Frame
<1> DEFINE x == [IdleExec EXCEPT !.pc = "skipCheck", !.item = jobs[j].item, !.job = j,
                                 !.tries = jobs[j].retries]
<1>1. jobs[j] \in JobRow /\ jobs[j].item \in Items
  BY DEF Deliver, IInv, TypeOK, BoundJobs
<1>2. x \in Execution /\ x.pc = "skipCheck" /\ x.item \in Items
  BY <1>1, IdleTyped, PhaseFacts DEF IdleExec, Execution, JobRow
<1> HIDE DEF x
<1>3. exec' = [exec EXCEPT ![w] = x]
  BY DEF Deliver, x
<1>4. ExecFrame
  BY <1>2, <1>3, PhaseFacts DEF IInv, TypeOK, BoundItems, ExecFrame, Owned
<1> DEFINE r == [jobs[j] EXCEPT !.state = "active"]
<1>5. r \in JobRow /\ r.item \in Items
  BY <1>1 DEF JobRow
<1> HIDE DEF r
<1>6. jobs' = [jobs EXCEPT ![j] = r]
  BY DEF Deliver, r
<1>7. JobFrame
  BY <1>5, <1>6 DEF IInv, TypeOK, BoundJobs, JobFrame
<1> QED BY <1>4, <1>7, UnchangedFrames DEF Deliver, Frame

\* SkipCheck keeps the frame.
LEMMA SkipCheckFrame ==
  ASSUME IInv, NEW w \in Workers, SkipCheck(w)
  PROVE  Frame
<1>1. exec[w].item \in Items
  BY DEF SkipCheck, At, IInv, BoundItems
<1>2. ExecFrame
  BY <1>1, GotoFrame, SettleFrame, PhaseFacts DEF SkipCheck
<1> QED BY <1>2, UnchangedFrames DEF SkipCheck, Frame

\* CancelBeforeClaim keeps the frame.
LEMMA CancelBeforeClaimFrame ==
  ASSUME IInv, NEW w \in Workers, CancelBeforeClaim(w)
  PROVE  Frame
<1>1. exec[w].item \in Items
  BY DEF CancelBeforeClaim, At, IInv, BoundItems
<1>2. ExecFrame
  BY SettleFrame DEF CancelBeforeClaim
<1>3. ItemFrame
  BY <1>1, CancelFrames DEF CancelBeforeClaim
<1> QED BY <1>2, <1>3, UnchangedFrames DEF CancelBeforeClaim, Frame

\* SeedHop keeps the frame.
LEMMA SeedHopFrame ==
  ASSUME IInv, NEW w \in Workers, SeedHop(w)
  PROVE  Frame
<1>1. exec[w].item \in Items /\ exec[w].pc = "seed"
  BY DEF SeedHop, At, IInv, BoundItems
<1>2. CASE armLeaseWatchdogHop(exec[w].item)
           /\ exec' = [exec EXCEPT ![w] = [@ EXCEPT !.pc = "acquire", !.seeded = TRUE]]
           /\ UNCHANGED faults
  <2> DEFINE x == [exec[w] EXCEPT !.pc = "acquire"]
             y == [x EXCEPT !.seeded = TRUE]
  <2>1. x \in Execution /\ x.pc = "acquire" /\ x.item = exec[w].item
    BY PhaseFacts DEF IInv, TypeOK, Execution
  <2> HIDE DEF x
  <2>2. y \in Execution /\ y.pc = x.pc /\ y.item = x.item
    BY <2>1 DEF Execution
  <2> HIDE DEF y
  <2>3. exec' = [exec EXCEPT ![w] = y]
    BY <1>2 DEF x, y
  <2>4. ExecFrame
    BY <1>1, <2>1, <2>2, <2>3, PhaseFacts DEF IInv, TypeOK, BoundItems, ExecFrame, Owned
  <2> QED BY <1>1, <1>2, <2>4, JobFrames, UnchangedFrames DEF SeedHop, Frame
<1>3. CASE armFails /\ Goto(w, "acquire")
  <2>1. ExecFrame
    BY <1>1, <1>3, GotoFrame, PhaseFacts
  <2>2. FaultFrame /\ JobFrame
    BY <1>3, FaultTyped, UnchangedFrames DEF armFails, FaultKinds
  <2> QED BY <2>1, <2>2, UnchangedFrames DEF SeedHop, Frame
<1> QED BY <1>2, <1>3 DEF SeedHop

\* DeferBehindHolder keeps the frame.
LEMMA DeferBehindHolderFrame ==
  ASSUME IInv, NEW w \in Workers, DeferBehindHolder(w)
  PROVE  Frame
<1>1. exec[w].item \in Items
  BY DEF DeferBehindHolder, At, IInv, BoundItems
<1>2. ExecFrame
  BY SettleFrame DEF DeferBehindHolder
<1>3. JobFrame /\ FaultFrame
  BY <1>1, JobFrames, FaultTyped, UnchangedFrames DEF DeferBehindHolder, armFails, FaultKinds
<1> QED BY <1>2, <1>3, UnchangedFrames DEF DeferBehindHolder, Frame

-----------------------------------------------------------------------------
(* Steps of a slot from the claim to the release *)

\* An execution that holds an epoch has an item.
LEMMA OwnedItem ==
  ASSUME IInv, NEW w \in Workers, Owned(w)
  PROVE  exec[w].item \in Items
BY PhaseFacts DEF Owned, IInv, BoundItems

\* A fenced transition starts from a running row.
LEMMA WritableSetStatus ==
  ASSUME IInv, NEW w \in Workers, Owned(w), Writable(w),
         NEW s \in Active \cup Terminal, SetStatus(exec[w].item, s)
  PROVE  ItemFrame
BY OwnedItem, SetStatusFrame DEF Writable, Active

\* The forms in which an owned step moves its own slot on.
LEMMA OwnedMoves ==
  ASSUME IInv, NEW w \in Workers, Owned(w)
  PROVE  /\ \A pc \in OwnedPhases : Goto(w, pc) => ExecFrame
         /\ \A b \in BOOLEAN : Leave(w, b) => ExecFrame
         /\ Return(w) => ExecFrame
         /\ \A e \in Errors : Throw(w, e) => ExecFrame
BY OwnedItem, GotoFrame, LeaveFrame, ThrowFrame, PhaseFacts DEF Return

\* RejectPayload keeps the frame.
LEMMA RejectPayloadFrame ==
  ASSUME IInv, NEW w \in Workers, RejectPayload(w)
  PROVE  Frame
<1>1. Owned(w)
  BY DEF RejectPayload, At, Owned, OwnedPhases
<1>2. ExecFrame
  BY <1>1, OwnedMoves DEF RejectPayload
<1>3. ItemFrame
  BY <1>1, WritableSetStatus, UnchangedFrames DEF RejectPayload, Terminal
<1> QED BY <1>2, <1>3, UnchangedFrames DEF RejectPayload, Frame

\* Gate keeps the frame.
LEMMA GateFrame ==
  ASSUME IInv, NEW w \in Workers, Gate(w)
  PROVE  Frame
<1>1. Owned(w)
  BY DEF Gate, At, Owned, OwnedPhases
<1>2. ExecFrame
  BY <1>1, OwnedMoves DEF Gate, OwnedPhases
<1>3. ItemFrame
  BY <1>1, OwnedItem, WritableSetStatus, CancelFrames, UnchangedFrames DEF Gate, Active
<1>4. FaultFrame
  BY FaultTyped, UnchangedFrames DEF Gate, FaultKinds
<1> QED BY <1>2, <1>3, <1>4, UnchangedFrames DEF Gate, Frame

\* DeferForCircuit keeps the frame.
LEMMA DeferForCircuitFrame ==
  ASSUME IInv, NEW w \in Workers, DeferForCircuit(w)
  PROVE  Frame
<1>1. Owned(w)
  BY DEF DeferForCircuit, At, Owned, OwnedPhases
<1>2. ExecFrame
  BY <1>1, OwnedMoves DEF DeferForCircuit, Errors
<1>3. JobFrame /\ FaultFrame
  BY <1>1, OwnedItem, JobFrames, FaultTyped, UnchangedFrames
  DEF DeferForCircuit, armFails, FaultKinds
<1> QED BY <1>2, <1>3, UnchangedFrames DEF DeferForCircuit, Frame

\* The attempt and preflight counters move no status and no epoch.
LEMMA CounterFrame ==
  ASSUME IInv, NEW i \in Items, NEW n \in Nat,
         \/ items' = [items EXCEPT ![i].preflights = n]
         \/ items' = [items EXCEPT ![i].attempts = n]
  PROVE  ItemFrame
<1>1. items' \in [Items -> ItemRow]
  BY DEF IInv, TypeOK, ItemRow
<1>2. \A k \in Items : items'[k].epoch = items[k].epoch /\ items'[k].status = items[k].status
  BY DEF IInv, TypeOK, ItemRow
<1> QED BY <1>1, <1>2 DEF ItemFrame

\* AssignPolicy keeps the frame.
LEMMA AssignPolicyFrame ==
  ASSUME IInv, NEW w \in Workers, AssignPolicy(w)
  PROVE  Frame
<1>1. Owned(w)
  BY DEF AssignPolicy, At, Owned, OwnedPhases
<1>2. ExecFrame
  BY <1>1, OwnedMoves, WorkAssumption DEF AssignPolicy, OwnedPhases, Errors
<1>3. ItemFrame
  BY <1>1, OwnedItem, CounterFrame, UnchangedFrames DEF AssignPolicy
<1>4. FaultFrame
  BY FaultTyped, UnchangedFrames DEF AssignPolicy, FaultKinds
<1> QED BY <1>2, <1>3, <1>4, UnchangedFrames DEF AssignPolicy, Frame

\* Prepare keeps the frame.
LEMMA PrepareFrame ==
  ASSUME IInv, NEW w \in Workers, Prepare(w)
  PROVE  Frame
<1>1. Owned(w)
  BY DEF Prepare, At, Owned, OwnedPhases
<1>2. ExecFrame
  BY <1>1, OwnedMoves DEF Prepare, OwnedPhases
<1>3. ItemFrame
  BY <1>1, OwnedItem, CancelFrames, UnchangedFrames DEF Prepare
<1> QED BY <1>2, <1>3, UnchangedFrames DEF Prepare, Frame

\* StartExecution keeps the frame.
LEMMA StartExecutionFrame ==
  ASSUME IInv, NEW w \in Workers, StartExecution(w)
  PROVE  Frame
<1>1. Owned(w)
  BY DEF StartExecution, At, Owned, OwnedPhases
<1>2. ExecFrame
  BY <1>1, OwnedMoves DEF StartExecution, OwnedPhases
<1>3. ItemFrame
  BY <1>1, OwnedItem, CancelFrames, UnchangedFrames DEF StartExecution
<1> QED BY <1>2, <1>3, UnchangedFrames DEF StartExecution, Frame

\* Charging an attempt moves neither the phase nor the epoch.
LEMMA beginWorkAttemptFrame ==
  ASSUME IInv, NEW w \in Workers, Owned(w), NEW i \in Items, beginWorkAttempt(w, i)
  PROVE  ExecFrame /\ ItemFrame
<1>1. items[i].attempts + 1 \in Nat
  BY DEF IInv, TypeOK, ItemRow
<1>2. ItemFrame
  BY <1>1, CounterFrame DEF beginWorkAttempt
<1> DEFINE x == [exec[w] EXCEPT !.admitted = TRUE]
           y == [x EXCEPT !.attempt = items[i].attempts + 1]
<1>3. x \in Execution /\ x.pc = exec[w].pc /\ x.item = exec[w].item /\ x.epoch = exec[w].epoch
  BY DEF IInv, TypeOK, Execution
<1> HIDE DEF x
<1>4. y \in Execution /\ y.pc = x.pc /\ y.item = x.item /\ y.epoch = x.epoch
  BY <1>1, <1>3 DEF Execution
<1> HIDE DEF y
<1>5. exec' = [exec EXCEPT ![w] = y]
  BY DEF beginWorkAttempt, x, y
<1>6. ExecFrame
  BY <1>3, <1>4, <1>5 DEF IInv, TypeOK, BoundItems, ExecFrame, Owned
<1> QED BY <1>2, <1>6

\* Admit keeps the frame.
LEMMA AdmitFrame ==
  ASSUME IInv, NEW w \in Workers, Admit(w)
  PROVE  Frame
<1>1. Owned(w) /\ exec[w].item \in Items
  BY OwnedItem DEF Admit, At, Owned, OwnedPhases
<1>2. ExecFrame
  BY <1>1, OwnedMoves, beginWorkAttemptFrame DEF Admit, Errors
<1>3. ItemFrame
  BY <1>1, CancelFrames, beginWorkAttemptFrame, UnchangedFrames DEF Admit
<1> QED BY <1>2, <1>3, UnchangedFrames DEF Admit, Frame

\* ExecuteReturns keeps the frame.
LEMMA ExecuteReturnsFrame ==
  ASSUME IInv, NEW w \in Workers, ExecuteReturns(w)
  PROVE  Frame
<1> DEFINE x == [exec[w] EXCEPT !.pc = "complete"]
           y == [x EXCEPT !.leaseAborted = FALSE]
<1>1. Owned(w) /\ exec[w].item \in Items
  BY OwnedItem DEF ExecuteReturns, At, Owned, OwnedPhases
<1>2. x \in Execution /\ x.item = exec[w].item /\ x.epoch = exec[w].epoch
  BY PhaseFacts DEF IInv, TypeOK, Execution, OwnedPhases
<1> HIDE DEF x
<1>3. y \in Execution /\ y.item = x.item /\ y.epoch = x.epoch
  BY <1>2 DEF Execution
<1> HIDE DEF y
<1>4. exec' = [exec EXCEPT ![w] = y]
  BY DEF ExecuteReturns, x, y
<1>5. ExecFrame
  BY <1>1, <1>2, <1>3, <1>4 DEF IInv, TypeOK, BoundItems, ExecFrame, Owned
<1> QED BY <1>5, UnchangedFrames DEF ExecuteReturns, Frame

\* ExecuteThrows keeps the frame.
LEMMA ExecuteThrowsFrame ==
  ASSUME IInv, NEW w \in Workers, ExecuteThrows(w)
  PROVE  Frame
<1>1. Owned(w)
  BY DEF ExecuteThrows, At, Owned, OwnedPhases
<1>2. ExecFrame
  BY <1>1, OwnedMoves, WorkAssumption DEF ExecuteThrows, Errors
<1>3. FaultFrame
  BY FaultTyped, UnchangedFrames DEF ExecuteThrows, FaultKinds
<1> QED BY <1>2, <1>3, UnchangedFrames DEF ExecuteThrows, Frame

\* CompleteRecheck keeps the frame.
LEMMA CompleteRecheckFrame ==
  ASSUME IInv, NEW w \in Workers, CompleteRecheck(w)
  PROVE  Frame
<1>1. Owned(w) /\ exec[w].item \in Items
  BY OwnedItem DEF CompleteRecheck, At, Owned, OwnedPhases
<1>2. ExecFrame
  BY <1>1, OwnedMoves DEF CompleteRecheck, OwnedPhases
<1>3. ItemFrame
  BY <1>1, CancelFrames, UnchangedFrames DEF CompleteRecheck
<1> QED BY <1>2, <1>3, UnchangedFrames DEF CompleteRecheck, Frame

\* markWorkCompleted keeps the frame.
LEMMA markWorkCompletedFrame ==
  ASSUME IInv, NEW w \in Workers, markWorkCompleted(w)
  PROVE  Frame
<1>1. Owned(w) /\ exec[w].item \in Items
  BY OwnedItem DEF markWorkCompleted, At, Owned, OwnedPhases
<1>2. ExecFrame
  BY <1>1, OwnedMoves DEF markWorkCompleted
<1>3. ItemFrame
  BY <1>1, CancelFrames, WritableSetStatus, UnchangedFrames DEF markWorkCompleted, Terminal
<1> QED BY <1>2, <1>3, UnchangedFrames DEF markWorkCompleted, Frame

\* handleDurableExecutionError keeps the frame.
LEMMA handleDurableExecutionErrorFrame ==
  ASSUME IInv, NEW w \in Workers, handleDurableExecutionError(w)
  PROVE  Frame
<1>1. Owned(w) /\ exec[w].item \in Items
  BY OwnedItem DEF handleDurableExecutionError, At, Owned, OwnedPhases
<1>2. ExecFrame
  BY <1>1, OwnedMoves DEF handleDurableExecutionError, OwnedPhases, NextMark
<1>3. ItemFrame
  BY <1>1, CancelFrames, UnchangedFrames DEF handleDurableExecutionError
<1> QED BY <1>2, <1>3, UnchangedFrames DEF handleDurableExecutionError, Frame

\* CountPreflightFailure keeps the frame.
LEMMA CountPreflightFailureFrame ==
  ASSUME IInv, NEW w \in Workers, CountPreflightFailure(w)
  PROVE  Frame
<1>1. Owned(w) /\ exec[w].item \in Items
  BY OwnedItem DEF CountPreflightFailure, At, Owned, OwnedPhases
<1>2. ExecFrame
  BY <1>1, OwnedMoves DEF CountPreflightFailure, OwnedPhases
<1>3. items[exec[w].item].preflights + 1 \in Nat
  BY <1>1 DEF IInv, TypeOK, ItemRow
<1>4. ItemFrame
  BY <1>1, <1>3, CounterFrame, UnchangedFrames DEF CountPreflightFailure
<1> QED BY <1>2, <1>4, UnchangedFrames DEF CountPreflightFailure, Frame

\* markWorkRetrying keeps the frame.
LEMMA markWorkRetryingFrame ==
  ASSUME IInv, NEW w \in Workers, markWorkRetrying(w)
  PROVE  Frame
<1>1. Owned(w) /\ exec[w].item \in Items
  BY OwnedItem DEF markWorkRetrying, At, Owned, OwnedPhases
<1>2. ExecFrame
  BY <1>1, OwnedMoves DEF markWorkRetrying
<1>3. ItemFrame
  BY <1>1, CancelFrames, WritableSetStatus, UnchangedFrames DEF markWorkRetrying, Active
<1> QED BY <1>2, <1>3, UnchangedFrames DEF markWorkRetrying, Frame

\* markWorkFailed keeps the frame.
LEMMA markWorkFailedFrame ==
  ASSUME IInv, NEW w \in Workers, markWorkFailed(w)
  PROVE  Frame
<1>1. Owned(w) /\ exec[w].item \in Items
  BY OwnedItem DEF markWorkFailed, At, Owned, OwnedPhases
<1>2. ExecFrame
  BY <1>1, OwnedMoves DEF markWorkFailed
<1>3. ItemFrame
  BY <1>1, CancelFrames, WritableSetStatus, UnchangedFrames DEF markWorkFailed, Terminal
<1> QED BY <1>2, <1>3, UnchangedFrames DEF markWorkFailed, Frame

\* Release keeps the frame.
LEMMA ReleaseFrame ==
  ASSUME IInv, NEW w \in Workers, Release(w)
  PROVE  Frame
<1>1. exec[w].threw \in BOOLEAN
  BY DEF IInv, TypeOK, Execution
<1>2. ExecFrame
  BY <1>1, SettleFrame DEF Release
<1>3. LeaseFrame
  BY UnchangedFrames DEF Release, releasePrActorLease, Cleared, IInv, TypeOK, LeaseRow, LeaseFrame
<1>4. FaultFrame
  BY FaultTyped, UnchangedFrames DEF Release, FaultKinds
<1> QED BY <1>2, <1>3, <1>4, UnchangedFrames DEF Release, Frame

\* A crash or a settled job empties the slot.
LEMMA IdleFrame ==
  ASSUME IInv, NEW w \in Workers, exec' = [exec EXCEPT ![w] = IdleExec]
  PROVE  ExecFrame
<1>1. IdleExec.pc = "idle"
  BY DEF IdleExec
<1> QED BY <1>1, IdleTyped, PhaseFacts DEF IInv, TypeOK, BoundItems, ExecFrame, Owned

\* SettleJob keeps the frame.
LEMMA SettleJobFrame ==
  ASSUME IInv, NEW w \in Workers, SettleJob(w)
  PROVE  Frame
<1>1. exec[w].threw \in BOOLEAN /\ exec[w].job \in JobIds \cup {NoJob}
  BY DEF IInv, TypeOK, Execution
<1>2. ExecFrame
  BY IdleFrame DEF SettleJob
<1>3. JobFrame
  <2>1. CASE exec[w].job \in JobIds
    BY <1>1, <2>1, JobEnds DEF SettleJob
  <2>2. CASE exec[w].job \notin JobIds
    <3>1. jobs' = jobs
      BY <2>2 DEF SettleJob, IInv, TypeOK
    <3> QED BY <3>1, UnchangedFrames
  <2> QED BY <2>1, <2>2
<1> QED BY <1>2, <1>3, UnchangedFrames DEF SettleJob, Frame

-----------------------------------------------------------------------------
(* Timers, the sweep and the environment *)

\* A signal raised in a slot's memory moves nothing else.
LEMMA SignalFrame ==
  ASSUME IInv, NEW w \in Workers,
         \/ exec' = [exec EXCEPT ![w].leaseAborted = TRUE]
         \/ exec' = [exec EXCEPT ![w].jobAborted = TRUE]
  PROVE  ExecFrame
<1>1. exec' \in [Workers -> Execution]
  <2>1. CASE exec' = [exec EXCEPT ![w].leaseAborted = TRUE]
    <3> DEFINE x == [exec[w] EXCEPT !.leaseAborted = TRUE]
    <3>1. x \in Execution
      BY DEF IInv, TypeOK, Execution
    <3> HIDE DEF x
    <3>2. exec' = [exec EXCEPT ![w] = x]
      BY <2>1 DEF x
    <3> QED BY <3>1, <3>2 DEF IInv, TypeOK
  <2>2. CASE exec' = [exec EXCEPT ![w].jobAborted = TRUE]
    <3> DEFINE x == [exec[w] EXCEPT !.jobAborted = TRUE]
    <3>1. x \in Execution
      BY DEF IInv, TypeOK, Execution
    <3> HIDE DEF x
    <3>2. exec' = [exec EXCEPT ![w] = x]
      BY <2>2 DEF x
    <3> QED BY <3>1, <3>2 DEF IInv, TypeOK
  <2> QED BY <2>1, <2>2
<1>2. \A v \in Workers : /\ exec'[v].pc = exec[v].pc
                         /\ exec'[v].item = exec[v].item
                         /\ exec'[v].epoch = exec[v].epoch
  <2>1. \A v \in Workers \ {w} : exec'[v] = exec[v]
    BY DEF IInv, TypeOK
  <2>2. exec'[w].pc = exec[w].pc /\ exec'[w].item = exec[w].item /\ exec'[w].epoch = exec[w].epoch
    BY DEF IInv, TypeOK, Execution
  <2> QED BY <2>1, <2>2
<1> QED BY <1>1, <1>2 DEF IInv, BoundItems, ExecFrame, Owned

\* Timers keeps the frame.
LEMMA TimersFrame ==
  ASSUME IInv, NEW w \in Workers, Timers(w)
  PROVE  Frame
<1>1. CASE RenewTick(w)
  <2>1. ExecFrame
    BY <1>1, SignalFrame, UnchangedFrames DEF RenewTick
  <2>2. LeaseFrame
    BY <1>1, UnchangedFrames DEF RenewTick, renewPrActorLease, IInv, TypeOK, LeaseRow, LeaseFrame
  <2> QED BY <1>1, <2>1, <2>2, UnchangedFrames DEF RenewTick, Frame
<1>2. CASE CancelObserveTick(w)
  BY <1>2, SignalFrame, UnchangedFrames DEF CancelObserveTick, Frame
<1> QED BY <1>1, <1>2 DEF Timers

\* Environment keeps the frame.
LEMMA EnvironmentFrame ==
  ASSUME IInv, Environment
  PROVE  Frame
<1>1. CASE LeaseExpires
  <2>1. LeaseFrame
    BY <1>1 DEF LeaseExpires, IInv, TypeOK, LeaseRow, LeaseFrame
  <2>2. FaultFrame
    BY <1>1, FaultTyped, UnchangedFrames DEF LeaseExpires, FaultKinds
  <2> QED BY <1>1, <2>1, <2>2, UnchangedFrames DEF LeaseExpires, Frame
<1>2. CASE \E j \in JobIds : JobExpires(j)
  <2>1. PICK j \in JobIds : JobExpires(j)
    BY <1>2
  <2>2. JobFrame
    BY <2>1, JobEnds DEF JobExpires
  <2>3. FaultFrame
    BY <2>1, FaultTyped, UnchangedFrames DEF JobExpires, FaultKinds
  <2> QED BY <2>1, <2>2, <2>3, UnchangedFrames DEF JobExpires, Frame
<1>3. CASE \E w \in Workers : AbortJob(w) \/ Crash(w)
  <2>1. PICK w \in Workers : AbortJob(w) \/ Crash(w)
    BY <1>3
  <2>2. ExecFrame
    BY <2>1, SignalFrame, IdleFrame DEF AbortJob, Crash
  <2>3. FaultFrame
    BY <2>1, FaultTyped DEF AbortJob, Crash, FaultKinds
  <2> QED BY <2>1, <2>2, <2>3, UnchangedFrames DEF AbortJob, Crash, Frame
<1> QED BY <1>1, <1>2, <1>3 DEF Environment

\* Sweep keeps the frame.
LEMMA SweepFrame ==
  ASSUME IInv, NEW i \in Items, markLostRunningWorkFailed(i)
  PROVE  Frame
<1>1. ItemFrame
  BY SetStatusFrame DEF markLostRunningWorkFailed, Active, Terminal
<1> QED BY <1>1, UnchangedFrames DEF markLostRunningWorkFailed, Frame

-----------------------------------------------------------------------------
(* The claim and intake, which move epochs and rows *)

\* Whatever keeps the frame keeps the invariant.
LEMMA FrameKeepsIInv ==
  ASSUME IInv, Frame
  PROVE  IInv'
<1>1. TypeOK'
  BY DEF Frame, ExecFrame, ItemFrame, LeaseFrame, JobFrame, FaultFrame, TypeOK
<1>2. BoundItems' /\ BoundJobs'
  BY DEF Frame, ExecFrame, JobFrame, BoundItems, BoundJobs
<1>3. HolderPresent' /\ HolderRecorded'
  <2>1. lease.holder \in Items \cup {NoItem}
    BY DEF IInv, TypeOK, LeaseRow
  <2> QED BY <2>1 DEF Frame, ItemFrame, LeaseFrame, IInv, HolderPresent, HolderRecorded
<1>4. EpochsIssued' /\ EpochUnique'
  BY DEF Frame, ExecFrame, LeaseFrame, IInv, EpochsIssued, EpochUnique, Owned
<1> QED BY <1>1, <1>2, <1>3, <1>4 DEF IInv

\* A claim that finds the item closed gives the bumped lease back in the same
\* transaction.
LEMMA RefusedClaim ==
  ASSUME IInv, NEW w \in Workers, AcquireAndClaim(w), ~Claimable(exec[w].item)
  PROVE  IInv' /\ UNCHANGED items
<1>1. lease.epoch \in Nat
  BY DEF IInv, TypeOK, LeaseRow
<1>2. lease' = [epoch |-> lease.epoch + 1, holder |-> NoItem, live |-> FALSE]
  BY DEF AcquireAndClaim, releasePrActorLease, acquirePrActorLease, Cleared
<1>3. lease' \in LeaseRow /\ lease'.holder = NoItem /\ lease'.epoch = lease.epoch + 1
  BY <1>1, <1>2 DEF LeaseRow
<1>4. ExecFrame
  BY SettleFrame DEF AcquireAndClaim
<1>5. UNCHANGED <<items, jobs, faults>>
  BY DEF AcquireAndClaim
<1>6. ItemFrame /\ JobFrame /\ FaultFrame
  BY <1>5, UnchangedFrames
<1>7. TypeOK' /\ BoundItems' /\ BoundJobs'
  BY <1>3, <1>4, <1>6
  DEF ExecFrame, ItemFrame, JobFrame, FaultFrame, TypeOK, BoundItems, BoundJobs
<1>8. HolderPresent' /\ HolderRecorded'
  BY <1>3 DEF HolderPresent, HolderRecorded
<1>9. EpochsIssued'
  <2> SUFFICES ASSUME NEW v \in Workers, exec'[v].pc \in OwnedPhases
               PROVE  exec'[v].epoch <= lease'.epoch
    BY DEF EpochsIssued, Owned
  <2>1. exec'[v].epoch = exec[v].epoch /\ exec[v].epoch <= lease.epoch /\ exec[v].epoch \in Nat
    BY <1>4 DEF ExecFrame, IInv, EpochsIssued, TypeOK, Execution
  <2> QED BY <1>1, <1>3, <2>1
<1>10. EpochUnique'
  BY <1>4 DEF ExecFrame, IInv, EpochUnique, Owned
<1> QED BY <1>5, <1>7, <1>8, <1>9, <1>10 DEF IInv

\* A granted claim issues a token above every token in use and records it.
LEMMA GrantedClaim ==
  ASSUME IInv, NEW w \in Workers, AcquireAndClaim(w), Claimable(exec[w].item)
  PROVE  /\ IInv'
         /\ \A i \in Items : items[i].status \in Terminal => items'[i].status = items[i].status
         /\ \A v \in Workers \ {w} : exec'[v] = exec[v]
<1> DEFINE i == exec[w].item
           e == lease.epoch + 1
           x == [exec[w] EXCEPT !.pc = "open"]
           y == [x EXCEPT !.epoch = e]
           z == [y EXCEPT !.seeded = FALSE]
           u == [z EXCEPT !.attempt = items[i].attempts]
<1>1. lease.epoch \in Nat /\ e \in Nat /\ e > lease.epoch
  BY DEF IInv, TypeOK, LeaseRow
<1>2. i \in Items /\ items[i] \in ItemRow
  BY DEF AcquireAndClaim, At, IInv, TypeOK, BoundItems
<1>3. lease' = [epoch |-> e, holder |-> i, live |-> TRUE]
  BY DEF AcquireAndClaim, acquirePrActorLease
<1>4. lease' \in LeaseRow /\ lease'.epoch = e /\ lease'.holder = i
  BY <1>1, <1>2, <1>3 DEF LeaseRow
<1>5. x \in Execution /\ x.pc = "open" /\ x.item = exec[w].item
  BY PhaseFacts DEF IInv, TypeOK, Execution, OwnedPhases
<1>6. exec' = [exec EXCEPT ![w] = u]
  BY DEF AcquireAndClaim
<1>7. u \in Execution /\ u.pc = "open" /\ u.item = i /\ u.epoch = e
  <2> HIDE DEF x
  <2>1. y \in Execution /\ y.pc = x.pc /\ y.item = x.item /\ y.epoch = e
    BY <1>1, <1>5 DEF Execution
  <2> HIDE DEF y
  <2>2. z \in Execution /\ z.pc = y.pc /\ z.item = y.item /\ z.epoch = y.epoch
    BY <2>1 DEF Execution
  <2> HIDE DEF z
  <2>3. u \in Execution /\ u.pc = z.pc /\ u.item = z.item /\ u.epoch = z.epoch
    BY <1>2, <2>2 DEF Execution, ItemRow
  <2> QED BY <1>5, <2>1, <2>2, <2>3
<1> HIDE DEF x, y, z, u
<1>8. exec' \in [Workers -> Execution] /\ exec'[w] = u /\ \A v \in Workers \ {w} : exec'[v] = exec[v]
  BY <1>6, <1>7 DEF IInv, TypeOK
<1> DEFINE p == [items[i] EXCEPT !.status = "running"]
           r == [p EXCEPT !.epoch = e]
<1>9. p \in ItemRow /\ p.status = "running"
  BY <1>2 DEF ItemRow, Status, Active
<1>10. items' = [items EXCEPT ![i] = r]
  BY DEF AcquireAndClaim, claimWorkForExecution
<1>11. r \in ItemRow /\ r.status = "running" /\ r.epoch = e
  <2> HIDE DEF p
  <2> QED BY <1>1, <1>9 DEF ItemRow
<1> HIDE DEF p, r
<1>12. items' \in [Items -> ItemRow] /\ items'[i] = r /\ \A k \in Items \ {i} : items'[k] = items[k]
  BY <1>2, <1>10, <1>11 DEF IInv, TypeOK
<1>13. UNCHANGED <<jobs, faults>>
  BY DEF AcquireAndClaim
<1>14. TypeOK'
  BY <1>4, <1>8, <1>12, <1>13 DEF IInv, TypeOK
<1>15. BoundItems' /\ BoundJobs'
  BY <1>2, <1>7, <1>8, <1>13 DEF IInv, BoundItems, BoundJobs
<1>16. HolderPresent' /\ HolderRecorded'
  BY <1>4, <1>11, <1>12 DEF HolderPresent, HolderRecorded
<1>17. \A v \in Workers : v # w /\ exec'[v].pc \in OwnedPhases => exec'[v].epoch < e /\ exec'[v].epoch \in Nat
  BY <1>1, <1>8 DEF IInv, TypeOK, Execution, EpochsIssued, Owned
<1>18. EpochsIssued'
  BY <1>1, <1>4, <1>7, <1>8, <1>17 DEF EpochsIssued, Owned
<1>19. EpochUnique'
  BY <1>1, <1>7, <1>8, <1>17 DEF IInv, EpochUnique
<1>20. \A k \in Items : items[k].status \in Terminal => items'[k].status = items[k].status
  BY <1>12 DEF AcquireAndClaim, Claimable, Active, Terminal
<1> QED BY <1>8, <1>14, <1>15, <1>16, <1>18, <1>19, <1>20 DEF IInv

\* Intake clears the holder and never moves the epoch.
LEMMA ClearedLease ==
  ASSUME IInv, NEW S \in SUBSET Items,
         lease' = releasePrActorLeaseHeldByWorkItems(lease, HolderPairs(S))
  PROVE  LeaseFrame
BY DEF releasePrActorLeaseHeldByWorkItems, Cleared, IInv, TypeOK, LeaseRow, LeaseFrame

\* Closing a row keeps its recorded epoch.
LEMMA ClosedRowTyped ==
  ASSUME NEW row \in ItemRow, NEW s \in Terminal
  PROVE  /\ ClosedRow(row, s) \in ItemRow
         /\ ClosedRow(row, s).epoch = row.epoch
         /\ ClosedRow(row, s).status = s
<1> DEFINE p == [row EXCEPT !.status = s]
           q == [p EXCEPT !.cancel = p.cancel \/ row.status = "running"]
<1>1. p \in ItemRow /\ p.epoch = row.epoch /\ p.status = s
  BY DEF ItemRow, Status
<1>2. ClosedRow(row, s) = q
  BY DEF ClosedRow
<1> HIDE DEF p
<1>3. q \in ItemRow /\ q.epoch = p.epoch /\ q.status = p.status
  BY <1>1 DEF ItemRow
<1> QED BY <1>1, <1>2, <1>3

\* A fresh row is queued.
LEMMA QueuedRowTyped == QueuedRow \in ItemRow /\ QueuedRow.status = "queued"
BY DEF QueuedRow, AbsentItem, ItemRow, Status, Active

\* Intake inserts rows nobody holds yet and closes active ones.
LEMMA IntakeKeepsIInv ==
  ASSUME IInv, Intake
  PROVE  /\ IInv'
         /\ \A i \in Items : items[i].status \in Terminal => items'[i].status = items[i].status
         /\ UNCHANGED exec
<1>1. ASSUME NEW i \in Items, items[i].status = "absent",
             LeaseFrame, JobFrame, UNCHANGED <<exec, faults>>,
             items' \in [Items -> ItemRow], items'[i] = QueuedRow,
             \A k \in Items \ {i} :
               /\ items'[k].epoch = items[k].epoch
               /\ items[k].status # "absent" => items'[k].status # "absent"
               /\ items[k].status \in Terminal => items'[k].status = items[k].status
      PROVE  IInv' /\ \A k \in Items : items[k].status \in Terminal => items'[k].status = items[k].status
  <2>1. TypeOK'
    BY <1>1 DEF IInv, TypeOK, LeaseFrame, JobFrame
  <2>2. BoundItems' /\ BoundJobs'
    BY <1>1 DEF IInv, BoundItems, BoundJobs, JobFrame
  <2>3. HolderPresent' /\ HolderRecorded'
    <3>1. lease.holder \in Items \cup {NoItem} /\ lease.holder # i
      BY <1>1, NoItemAssumption DEF IInv, TypeOK, LeaseRow, HolderPresent
    <3> QED BY <1>1, <3>1 DEF IInv, LeaseFrame, HolderPresent, HolderRecorded
  <2>4. EpochsIssued' /\ EpochUnique'
    BY <1>1 DEF IInv, LeaseFrame, EpochsIssued, EpochUnique, Owned
  <2> QED BY <1>1, <2>1, <2>2, <2>3, <2>4 DEF IInv, Terminal
<1>2. CASE \E i \in Items : replaceAutoWorkItem(i)
  <2>1. PICK i \in Items : replaceAutoWorkItem(i)
    BY <1>2
  <2> DEFINE old == ActiveIn(AutoItems)
  <2>2. old \subseteq Items /\ \A k \in old : items[k].status \in Active
    BY WorkAssumption DEF ActiveIn
  <2>3. LeaseFrame
    BY <2>1, <2>2, ClearedLease DEF replaceAutoWorkItem
  <2>4. JobFrame
    BY <2>1, JobFrames DEF replaceAutoWorkItem
  <2>5. \A k \in Items : items'[k] = IF k = i THEN QueuedRow
                                     ELSE IF k \in old THEN ClosedRow(items[k], "superseded")
                                     ELSE items[k]
    BY <2>1 DEF replaceAutoWorkItem
  <2>6. \A k \in Items : items[k] \in ItemRow
    BY DEF IInv, TypeOK
  <2>7. \A k \in Items : items'[k] \in ItemRow
    BY <2>5, <2>6, ClosedRowTyped, QueuedRowTyped DEF Terminal
  <2>8. items' \in [Items -> ItemRow]
    BY <2>1, <2>7 DEF replaceAutoWorkItem
  <2>9. ASSUME NEW k \in Items \ {i}
        PROVE  /\ items'[k].epoch = items[k].epoch
               /\ items[k].status # "absent" => items'[k].status # "absent"
               /\ items[k].status \in Terminal => items'[k].status = items[k].status
    <3>1. CASE k \in old
      BY <2>2, <2>5, <2>6, <3>1, ClosedRowTyped DEF Active, Terminal
    <3>2. CASE k \notin old
      BY <2>5, <3>2
    <3> QED BY <3>1, <3>2
  <2>10. items[i].status = "absent" /\ UNCHANGED <<exec, faults>>
    BY <2>1 DEF replaceAutoWorkItem
  <2> QED BY <1>1, <2>3, <2>4, <2>5, <2>8, <2>9, <2>10
<1>3. CASE \E i \in Items : createSlashWorkItem(i)
  <2>1. PICK i \in Items : createSlashWorkItem(i)
    BY <1>3
  <2>2. LeaseFrame /\ JobFrame
    BY <2>1, JobFrames, UnchangedFrames DEF createSlashWorkItem
  <2>3. items' \in [Items -> ItemRow] /\ items'[i] = QueuedRow
        /\ \A k \in Items \ {i} : items'[k] = items[k]
    BY <2>1, QueuedRowTyped DEF createSlashWorkItem, IInv, TypeOK
  <2>4. items[i].status = "absent" /\ UNCHANGED <<exec, faults>>
    BY <2>1 DEF createSlashWorkItem
  <2> QED BY <1>1, <2>2, <2>3, <2>4
<1>4. CASE cancelActiveReviews
  <2> DEFINE old == ActiveIn(Items)
  <2>1. old \subseteq Items /\ \A k \in old : items[k].status \in Active
    BY DEF ActiveIn
  <2>2. LeaseFrame
    BY <1>4, <2>1, ClearedLease DEF cancelActiveReviews
  <2>3. \A k \in Items : items'[k] = IF k \in old THEN ClosedRow(items[k], "cancelled") ELSE items[k]
    BY <1>4 DEF cancelActiveReviews
  <2>4. \A k \in Items : items[k] \in ItemRow
    BY DEF IInv, TypeOK
  <2>5. items' \in [Items -> ItemRow]
    BY <1>4, <2>3, <2>4, ClosedRowTyped DEF cancelActiveReviews, Terminal
  <2>6. ASSUME NEW k \in Items
        PROVE  /\ items'[k].epoch = items[k].epoch
               /\ items[k].status # "absent" => items'[k].status # "absent"
               /\ items[k].status \in Terminal => items'[k].status = items[k].status
    <3>1. CASE k \in old
      BY <2>1, <2>3, <2>4, <3>1, ClosedRowTyped DEF Active, Terminal
    <3>2. CASE k \notin old
      BY <2>3, <3>2
    <3> QED BY <3>1, <3>2
  <2>7. ItemFrame
    BY <2>5, <2>6 DEF ItemFrame
  <2>8. UNCHANGED <<jobs, exec, faults>>
    BY <1>4 DEF cancelActiveReviews
  <2>9. Frame
    BY <2>2, <2>7, <2>8, UnchangedFrames DEF Frame
  <2> QED BY <2>6, <2>8, <2>9, FrameKeepsIInv
<1>5. UNCHANGED exec
  BY DEF Intake, replaceAutoWorkItem, createSlashWorkItem, cancelActiveReviews
<1> QED BY <1>2, <1>3, <1>4, <1>5 DEF Intake

-----------------------------------------------------------------------------
(* Every step *)

\* A step is one of intake's, a claim, or one that keeps the frame.
LEMMA StepKinds ==
  ASSUME IInv, [Next]_vars
  PROVE  \/ Frame
         \/ Intake
         \/ \E w \in Workers : AcquireAndClaim(w)
<1>1. CASE UNCHANGED vars
  BY <1>1, UnchangedFrames DEF vars, Frame
<1>2. CASE \E w \in Workers : \E j \in JobIds : Deliver(w, j)
  BY <1>2, DeliverFrame
<1>3. ASSUME NEW w \in Workers, WorkerStep(w), ~AcquireAndClaim(w)
      PROVE  Frame
  <2>1. CASE \/ SkipCheck(w) \/ CancelBeforeClaim(w) \/ SeedHop(w) \/ DeferBehindHolder(w)
    BY <2>1, SkipCheckFrame, CancelBeforeClaimFrame, SeedHopFrame, DeferBehindHolderFrame
  <2>2. CASE \/ RejectPayload(w) \/ Gate(w) \/ DeferForCircuit(w) \/ AssignPolicy(w)
             \/ Prepare(w) \/ StartExecution(w)
    BY <2>2, RejectPayloadFrame, GateFrame, DeferForCircuitFrame, AssignPolicyFrame,
       PrepareFrame, StartExecutionFrame
  <2>3. CASE \/ Admit(w) \/ ExecuteReturns(w) \/ ExecuteThrows(w)
             \/ CompleteRecheck(w) \/ markWorkCompleted(w)
    BY <2>3, AdmitFrame, ExecuteReturnsFrame, ExecuteThrowsFrame, CompleteRecheckFrame,
       markWorkCompletedFrame
  <2>4. CASE \/ handleDurableExecutionError(w) \/ CountPreflightFailure(w)
             \/ markWorkRetrying(w) \/ markWorkFailed(w) \/ Release(w) \/ SettleJob(w)
    BY <2>4, handleDurableExecutionErrorFrame, CountPreflightFailureFrame,
       markWorkRetryingFrame, markWorkFailedFrame, ReleaseFrame, SettleJobFrame
  <2> QED BY <1>3, <2>1, <2>2, <2>3, <2>4 DEF WorkerStep
<1>4. CASE \E w \in Workers : Timers(w)
  BY <1>4, TimersFrame
<1>5. CASE \E i \in Items : markLostRunningWorkFailed(i)
  BY <1>5, SweepFrame
<1>6. CASE Environment
  BY <1>6, EnvironmentFrame
<1> QED BY <1>1, <1>2, <1>3, <1>4, <1>5, <1>6 DEF Next

\* One step from the invariant leads to the invariant, and reopens nothing.
LEMMA StepKeepsIInv ==
  ASSUME IInv, [Next]_vars
  PROVE  /\ IInv'
         /\ \A i \in Items : items[i].status \in Terminal => items'[i].status = items[i].status
<1>1. CASE Frame
  BY <1>1, FrameKeepsIInv DEF Frame, ItemFrame
<1>2. CASE Intake
  BY <1>2, IntakeKeepsIInv
<1>3. CASE \E w \in Workers : AcquireAndClaim(w)
  <2>1. PICK w \in Workers : AcquireAndClaim(w)
    BY <1>3
  <2> QED BY <2>1, RefusedClaim, GrantedClaim
<1> QED BY <1>1, <1>2, <1>3, StepKinds

\* The inductive invariant holds in every reachable state, for any number of items,
\* slots and jobs and any fault budget.
THEOREM Inductive == Spec => []IInv
<1>1. Init => IInv
  BY InitIInv
<1>2. IInv /\ [Next]_vars => IInv'
  BY StepKeepsIInv
<1> QED BY <1>1, <1>2, PTL DEF Spec

\* Every variable stays in its type.
THEOREM TypeCorrect == Spec => []TypeOK
<1>1. IInv => TypeOK
  BY DEF IInv
<1> QED BY <1>1, Inductive, PTL

\* The item that holds the lease has recorded the lease's epoch, so that intake's
\* (id, epoch) pairs always find it.
THEOREM HolderIsRecorded == Spec => []HolderRecorded
<1>1. IInv => HolderRecorded
  BY DEF IInv
<1> QED BY <1>1, Inductive, PTL

\* No two executions carry the same fencing token.
THEOREM FencingTokensUnique == Spec => []EpochUnique
<1>1. IInv => EpochUnique
  BY DEF IInv
<1> QED BY <1>1, Inductive, PTL

\* No step leaves a terminal status.
THEOREM TerminalStatusFinal == Spec => TerminalAbsorbing
<1>1. IInv /\ [Next]_vars
      => [\A i \in Items : items[i].status \in Terminal => items'[i].status = items[i].status]_vars
  BY StepKeepsIInv
<1> QED BY <1>1, Inductive, PTL DEF Spec, TerminalAbsorbing

=============================================================================
