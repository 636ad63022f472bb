-------------------------- MODULE LeaseFloorProofs --------------------------
(***************************************************************************)
(* LeasedWork implements SingleActor, and what follows from it: intake     *)
(* frees the lease of what it closes, a stale holder is inert, and the     *)
(* attempts of an item are numbered apart.  IInv of LeasedWorkProofs is    *)
(* joined with the fact that a held row was granted (HolderGranted), so    *)
(* that the pairs intake reads from the items always match the row.        *)
(***************************************************************************)
EXTENDS LeasedWorkProofs

\* Epoch 0 is the row that does not exist: whoever is named was granted an epoch.
HolderGranted == lease.holder # NoItem => lease.epoch > 0

FInv == IInv /\ HolderGranted

\* What a step of LeasedWork is to SingleActor.
FloorStep == Floor!Next \/ UNCHANGED Floor!vars

-----------------------------------------------------------------------------
(* Steps that leave the lease row alone *)

\* A step that moves no status and not the lease is none of the floor's business.
LEMMA QuietStep ==
  ASSUME UNCHANGED lease, \A i \in Items : items'[i].status = items[i].status
  PROVE  FloorStep
BY DEF FloorStep, Floor!vars

\* A status written to one row is that change of the abstract status.
LEMMA StatusWritten ==
  ASSUME IInv, NEW i \in Items, NEW s, SetStatus(i, s)
  PROVE  [k \in Items |-> items'[k].status] = [[k \in Items |-> items[k].status] EXCEPT ![i] = s]
BY DEF IInv, TypeOK, ItemRow, SetStatus

\* A fenced mark is work done by the item that has the floor.
LEMMA WorkStep ==
  ASSUME IInv, NEW w \in Workers, exec[w].item \in Items, Writable(w), UNCHANGED lease,
         NEW s \in {"queued", "completed", "failed"}, SetStatus(exec[w].item, s)
  PROVE  FloorStep
<1>1. PICK i \in Items : i = exec[w].item
  OBVIOUS
<1>2. Floor!Work(i)
  BY <1>1, StatusWritten DEF Floor!Work, Writable, Owns, isPrActorLeaseHeld
<1> QED BY <1>2 DEF FloorStep, Floor!Next

\* A cancel mark, fenced or not, drops an active item.
LEMMA CancelSteps ==
  ASSUME IInv, NEW w \in Workers, exec[w].item \in Items, UNCHANGED lease
  PROVE  /\ markWorkCancelledUnfenced(exec[w].item) => FloorStep
         /\ cancelWhileOwned(w) => FloorStep
         /\ recheckSkippableAndCancel(w) => FloorStep
         /\ UNCHANGED items => FloorStep
<1>1. UNCHANGED items => FloorStep
  BY QuietStep
<1>2. ASSUME markWorkCancelledUnfenced(exec[w].item), items[exec[w].item].status \in Active
      PROVE  FloorStep
  <2>1. PICK i \in Items : i = exec[w].item
    OBVIOUS
  <2>2. SetStatus(i, "cancelled")
    BY <1>2, <2>1 DEF markWorkCancelledUnfenced, SetStatus
  <2>3. Floor!Drop(i)
    BY <1>2, <2>1, <2>2, StatusWritten DEF Floor!Drop, Floor!Active, Active
  <2> QED BY <2>3 DEF FloorStep, Floor!Next
<1>3. markWorkCancelledUnfenced(exec[w].item) => FloorStep
  BY <1>1, <1>2 DEF markWorkCancelledUnfenced
<1> QED BY <1>1, <1>3 DEF cancelWhileOwned, recheckSkippableAndCancel

\* The counters of a row are not its status.
LEMMA CounterSteps ==
  ASSUME IInv, UNCHANGED lease, NEW i \in Items, NEW n,
         \/ items' = [items EXCEPT ![i].preflights = n]
         \/ items' = [items EXCEPT ![i].attempts = n]
  PROVE  FloorStep
<1>1. \A k \in Items : items'[k].status = items[k].status
  BY DEF IInv, TypeOK, ItemRow
<1> QED BY <1>1, QuietStep

\* Slots outside the claim and the release keep the lease; their marks are work or drops.
LEMMA SlotSteps ==
  ASSUME IInv, NEW w \in Workers, WorkerStep(w), ~AcquireAndClaim(w), ~Release(w)
  PROVE  FloorStep
<1>1. CASE SkipCheck(w) \/ SeedHop(w) \/ DeferBehindHolder(w) \/ DeferForCircuit(w)
           \/ ExecuteReturns(w) \/ ExecuteThrows(w) \/ SettleJob(w)
  BY <1>1, QuietStep
  DEF SkipCheck, SeedHop, DeferBehindHolder, DeferForCircuit, ExecuteReturns, ExecuteThrows, SettleJob
<1>2. exec[w].pc \notin {"idle", "settle"} => exec[w].item \in Items
  BY DEF IInv, BoundItems
<1>3. CASE CancelBeforeClaim(w) \/ Prepare(w) \/ StartExecution(w) \/ CompleteRecheck(w)
           \/ handleDurableExecutionError(w)
  BY <1>2, <1>3, CancelSteps
  DEF CancelBeforeClaim, Prepare, StartExecution, CompleteRecheck, handleDurableExecutionError, At
<1>4. CASE RejectPayload(w) \/ Gate(w)
  BY <1>2, <1>4, CancelSteps, WorkStep DEF RejectPayload, Gate, At
<1>5. CASE AssignPolicy(w) \/ CountPreflightFailure(w)
  BY <1>2, <1>5, CancelSteps, CounterSteps DEF AssignPolicy, CountPreflightFailure, At
<1>6. CASE Admit(w)
  BY <1>2, <1>6, CancelSteps, CounterSteps DEF Admit, beginWorkAttempt, At
<1>7. CASE markWorkCompleted(w) \/ markWorkRetrying(w) \/ markWorkFailed(w)
  BY <1>2, <1>7, CancelSteps, WorkStep DEF markWorkCompleted, markWorkRetrying, markWorkFailed, At
<1> QED BY <1>1, <1>3, <1>4, <1>5, <1>6, <1>7 DEF WorkerStep

-----------------------------------------------------------------------------
(* Steps that move the lease row *)

\* The claim grants the floor, which was free, to the item of the slot; a claim that
\* finds its item closed gives the row back in the same transaction.
LEMMA ClaimSteps ==
  ASSUME IInv, NEW w \in Workers, AcquireAndClaim(w)
  PROVE  FloorStep
<1>1. PICK i \in Items : i = exec[w].item
  BY DEF AcquireAndClaim, At, IInv, BoundItems
<1>2. CASE Claimable(i)
  <2>1. lease' = [epoch |-> lease.epoch + 1, holder |-> i, live |-> TRUE]
    BY <1>1, <1>2 DEF AcquireAndClaim, acquirePrActorLease
  <2>2. items' = [items EXCEPT ![i] = [items[i] EXCEPT !.status = "running", !.epoch = lease.epoch + 1]]
    BY <1>1, <1>2 DEF AcquireAndClaim, claimWorkForExecution
  <2>3. [k \in Items |-> items'[k].status]
        = [[k \in Items |-> items[k].status] EXCEPT ![i] = "running"]
    BY <2>2 DEF IInv, TypeOK, ItemRow
  <2>4. Floor!Grant(i)
    BY <1>1, <1>2, <2>1, <2>3
    DEF Floor!Grant, Floor!Active, Active, Claimable, AcquireAndClaim, Acquirable
  <2> QED BY <2>4 DEF FloorStep, Floor!Next
<1>3. CASE ~Claimable(i)
  <2>1. lease' = [epoch |-> lease.epoch + 1, holder |-> NoItem, live |-> FALSE] /\ items' = items
    BY <1>1, <1>3 DEF AcquireAndClaim, acquirePrActorLease, releasePrActorLease, Cleared
  <2>2. Floor!GrantRefused
    BY <2>1 DEF Floor!GrantRefused, AcquireAndClaim, Acquirable
  <2> QED BY <2>2 DEF FloorStep, Floor!Next
<1> QED BY <1>2, <1>3

\* The release of an execution gives the floor back, or finds another epoch.
LEMMA ReleaseSteps ==
  ASSUME IInv, NEW w \in Workers, Release(w)
  PROVE  FloorStep
<1>1. UNCHANGED items
  BY DEF Release
<1>2. CASE UNCHANGED lease
  BY <1>1, <1>2, QuietStep
<1>3. CASE lease' = Cleared(lease)
  <2>1. /\ lease'.epoch = lease.epoch /\ lease'.holder = NoItem /\ ~lease'.live
    BY <1>3 DEF Cleared, IInv, TypeOK, LeaseRow
  <2>2. CASE lease.holder = NoItem
    BY <1>1, <2>1, <2>2 DEF FloorStep, Floor!vars
  <2>3. CASE lease.holder # NoItem
    <3>1. Floor!GiveBack
      BY <1>1, <2>1, <2>3 DEF Floor!GiveBack
    <3> QED BY <3>1 DEF FloorStep, Floor!Next
  <2> QED BY <2>2, <2>3
<1> QED BY <1>2, <1>3 DEF Release, releasePrActorLease

\* The timers revive a lapsed floor under its own token, or only set a flag.
LEMMA TimerSteps ==
  ASSUME IInv, NEW w \in Workers, Timers(w)
  PROVE  FloorStep
<1>1. UNCHANGED items
  BY DEF Timers, RenewTick, CancelObserveTick
<1>2. CASE UNCHANGED lease
  BY <1>1, <1>2, QuietStep
<1>3. CASE ~UNCHANGED lease
  <2>1. Renewing(w) /\ lease.holder = exec[w].item /\ ~lease.live /\ lease' = [lease EXCEPT !.live = TRUE]
    BY <1>3 DEF Timers, RenewTick, CancelObserveTick, Renewable, renewPrActorLease
  <2>2. lease.holder \in Items
    BY <2>1, OwnedItem DEF Renewing, Owned
  <2>3. lease'.epoch = lease.epoch /\ lease'.holder = lease.holder /\ lease'.live
    BY <2>1 DEF IInv, TypeOK, LeaseRow
  <2>4. Floor!Resume
    BY <1>1, <2>1, <2>2, <2>3, NoItemAssumption DEF Floor!Resume
  <2> QED BY <2>4 DEF FloorStep, Floor!Next
<1> QED BY <1>2, <1>3

\* The clock takes a floor away; the other faults do not reach the rows.
LEMMA EnvironmentSteps ==
  ASSUME IInv, Environment
  PROVE  FloorStep
<1>1. UNCHANGED items
  BY DEF Environment, LeaseExpires, JobExpires, AbortJob, Crash
<1>2. CASE LeaseExpires
  <2>1. lease'.epoch = lease.epoch /\ lease'.holder = lease.holder /\ ~lease'.live
    BY <1>2 DEF LeaseExpires, IInv, TypeOK, LeaseRow
  <2>2. Floor!Lapse
    BY <1>1, <1>2, <2>1 DEF LeaseExpires, Floor!Lapse
  <2> QED BY <2>2 DEF FloorStep, Floor!Next
<1>3. CASE ~LeaseExpires
  <2>1. UNCHANGED lease
    BY <1>3 DEF Environment, JobExpires, AbortJob, Crash
  <2> QED BY <1>1, <2>1, QuietStep
<1> QED BY <1>2, <1>3

\* The sweep gives up running work that does not have the floor.
LEMMA SweepSteps ==
  ASSUME IInv, NEW i \in Items, markLostRunningWorkFailed(i)
  PROVE  FloorStep
<1>1. Floor!Lose(i)
  BY StatusWritten, NoItemAssumption DEF Floor!Lose, markLostRunningWorkFailed, NoLiveness
<1> QED BY <1>1 DEF FloorStep, Floor!Next

-----------------------------------------------------------------------------
(* Intake *)

\* The pairs read from the items find the lease row exactly when a closed item holds it.
LEMMA PairsFindHolder ==
  ASSUME FInv, NEW S \in SUBSET Items
  PROVE  <<lease.holder, lease.epoch>> \in HolderPairs(S) <=> lease.holder \in S
<1>1. lease \in LeaseRow /\ items \in [Items -> ItemRow]
  BY DEF FInv, IInv, TypeOK
<1>2. ASSUME lease.holder \in S
      PROVE  <<lease.holder, lease.epoch>> \in HolderPairs(S)
  <2>1. items[lease.holder].epoch = lease.epoch /\ lease.epoch > 0
    BY <1>2, NoItemAssumption DEF FInv, IInv, HolderRecorded, HolderGranted
  <2> QED BY <1>2, <2>1 DEF HolderPairs
<1> QED BY <1>2 DEF HolderPairs

\* What the release by pairs does to the floor.
LEMMA PairsTakeFloor ==
  ASSUME FInv, NEW S \in SUBSET Items,
         lease' = releasePrActorLeaseHeldByWorkItems(lease, HolderPairs(S))
  PROVE  /\ lease'.epoch = lease.epoch
         /\ lease'.holder \notin S
         /\ Floor!TakeFloorFrom(S)
<1>1. lease \in LeaseRow
  BY DEF FInv, IInv, TypeOK
<1>2. /\ Cleared(lease).epoch = lease.epoch
      /\ Cleared(lease).holder = NoItem
      /\ ~Cleared(lease).live
  BY <1>1 DEF Cleared, LeaseRow
<1>3. lease' = IF lease.holder \in S THEN Cleared(lease) ELSE lease
  BY PairsFindHolder DEF releasePrActorLeaseHeldByWorkItems
<1>4. NoItem \notin S
  BY NoItemAssumption
<1> QED BY <1>2, <1>3, <1>4 DEF Floor!TakeFloorFrom

\* A closed row has the status it was closed with.
LEMMA ClosedStatus ==
  ASSUME IInv, NEW k \in Items, NEW s
  PROVE  ClosedRow(items[k], s).status = s
BY DEF IInv, TypeOK, ItemRow, ClosedRow

\* Intake submits and withdraws.
LEMMA IntakeSteps ==
  ASSUME FInv, Intake
  PROVE  FloorStep
<1>1. IInv
  BY DEF FInv
<1>2. ASSUME NEW i \in Items, replaceAutoWorkItem(i)
      PROVE  FloorStep
  <2> DEFINE old == ActiveIn(AutoItems)
  <2>1. PICK S \in SUBSET Items : S = old
    BY WorkAssumption DEF ActiveIn
  <2>2. \A k \in S : items[k].status \in Active
    BY <2>1 DEF ActiveIn
  <2>3. \A k \in Items : items'[k].status = IF k = i THEN "queued"
                                            ELSE IF k \in S THEN "superseded"
                                            ELSE items[k].status
    BY <1>1, <1>2, <2>1, ClosedStatus DEF replaceAutoWorkItem, QueuedRow, AbsentItem
  <2>4. Floor!TakeFloorFrom(S) /\ lease'.epoch = lease.epoch
    BY <1>2, <2>1, PairsTakeFloor DEF replaceAutoWorkItem
  <2>5. items[i].status = "absent"
    BY <1>2 DEF replaceAutoWorkItem
  <2>6. Floor!Submit(i, S)
    BY <2>2, <2>3, <2>4, <2>5 DEF Floor!Submit, Floor!Closed, Floor!Active, Active
  <2> QED BY <2>6 DEF FloorStep, Floor!Next
<1>3. ASSUME NEW i \in Items, createSlashWorkItem(i)
      PROVE  FloorStep
  <2>1. items[i].status = "absent" /\ UNCHANGED lease
    BY <1>3 DEF createSlashWorkItem
  <2>2. \A k \in Items : items'[k].status = IF k = i THEN "queued" ELSE items[k].status
    BY <1>1, <1>3 DEF createSlashWorkItem, QueuedRow, AbsentItem, IInv, TypeOK
  <2>3. Floor!Submit(i, {})
    BY <2>1, <2>2 DEF Floor!Submit, Floor!Closed, Floor!TakeFloorFrom
  <2> QED BY <2>3 DEF FloorStep, Floor!Next
<1>4. ASSUME cancelActiveReviews
      PROVE  FloorStep
  <2>1. PICK S \in SUBSET Items : S = ActiveIn(Items)
    BY DEF ActiveIn
  <2>2. S # {} /\ \A k \in S : items[k].status \in Active
    BY <1>4, <2>1 DEF ActiveIn, cancelActiveReviews
  <2>3. \A k \in Items : items'[k].status = IF k \in S THEN "cancelled" ELSE items[k].status
    BY <1>1, <1>4, <2>1, ClosedStatus DEF cancelActiveReviews
  <2>4. Floor!TakeFloorFrom(S) /\ lease'.epoch = lease.epoch
    BY <1>4, <2>1, PairsTakeFloor DEF cancelActiveReviews
  <2>5. Floor!Withdraw(S)
    BY <2>2, <2>3, <2>4 DEF Floor!Withdraw, Floor!Closed, Floor!Active, Active
  <2> QED BY <2>5 DEF FloorStep, Floor!Next
<1> QED BY <1>2, <1>3, <1>4 DEF Intake

-----------------------------------------------------------------------------
(* The refinement *)

\* Delivering a job touches no status and no lease.
LEMMA DeliverSteps ==
  ASSUME IInv, NEW w \in Workers, NEW j \in JobIds, Deliver(w, j)
  PROVE  FloorStep
<1>1. UNCHANGED items /\ UNCHANGED lease
  BY DEF Deliver
<1> QED BY <1>1, QuietStep

\* Every step from the invariant is a step of the floor, or invisible to it.
LEMMA StepIsFloorStep ==
  ASSUME FInv, [Next]_vars
  PROVE  FloorStep
<1>1. IInv
  BY DEF FInv
<1>2. CASE UNCHANGED vars
  <2>1. UNCHANGED items /\ UNCHANGED lease
    BY <1>2 DEF vars
  <2> QED BY <2>1, QuietStep
<1>3. CASE Intake \/ Environment \/ \E i \in Items : markLostRunningWorkFailed(i)
  BY <1>1, <1>3, IntakeSteps, EnvironmentSteps, SweepSteps
<1>4. ASSUME NEW w \in Workers, (\E j \in JobIds : Deliver(w, j)) \/ WorkerStep(w) \/ Timers(w)
      PROVE  FloorStep
  BY <1>1, <1>4, DeliverSteps, SlotSteps, ClaimSteps, ReleaseSteps, TimerSteps
<1> QED BY <1>2, <1>3, <1>4 DEF Next

\* The row is only ever handed out under an epoch above 0.
LEMMA StepKeepsHolderGranted ==
  ASSUME FInv, [Next]_vars
  PROVE  HolderGranted'
<1>1. IInv /\ lease \in LeaseRow
  BY DEF FInv, IInv, TypeOK
<1>2. CASE lease'.epoch = lease.epoch /\ lease'.holder \in {lease.holder, NoItem}
  BY <1>2 DEF FInv, HolderGranted
<1>3. CASE lease'.epoch = lease.epoch + 1
  BY <1>1, <1>3 DEF HolderGranted, LeaseRow
<1>4. CASE Frame
  BY <1>2, <1>4 DEF Frame, LeaseFrame
<1>5. CASE Intake
  <2>1. ASSUME NEW S \in SUBSET Items,
               lease' = releasePrActorLeaseHeldByWorkItems(lease, HolderPairs(S))
        PROVE  HolderGranted'
    BY <1>2, <2>1, PairsTakeFloor DEF Floor!TakeFloorFrom
  <2>2. ActiveIn(AutoItems) \in SUBSET Items /\ ActiveIn(Items) \in SUBSET Items
    BY WorkAssumption DEF ActiveIn
  <2> QED BY <1>2, <1>5, <2>1, <2>2
          DEF Intake, replaceAutoWorkItem, createSlashWorkItem, cancelActiveReviews
<1>6. ASSUME NEW w \in Workers, AcquireAndClaim(w)
      PROVE  HolderGranted'
  <2>1. acquirePrActorLease(lease, exec[w].item).epoch = lease.epoch + 1
    BY DEF acquirePrActorLease
  <2>2. lease'.epoch = lease.epoch + 1
    BY <1>6, <2>1 DEF AcquireAndClaim, acquirePrActorLease, releasePrActorLease, Cleared
  <2> QED BY <1>3, <2>2
<1> QED BY <1>1, <1>4, <1>5, <1>6, StepKinds

\* The inductive invariant of the refinement.
THEOREM FloorInductive == Spec => []FInv
<1>1. Init => FInv
  BY InitIInv DEF Init, NoLease, FInv, HolderGranted
<1>2. FInv /\ [Next]_vars => FInv'
  BY StepKeepsIInv, StepKeepsHolderGranted DEF FInv
<1> QED BY <1>1, <1>2, PTL DEF Spec

\* The interleaved claims, renewals, deferrals, crashes, sweeps and intake transactions
\* implement the single-actor floor: for any number of items, slots and jobs, work is
\* finished, failed or requeued only by the item that has the floor.
THEOREM LeaseIsSingleActor == Spec => ImplementsSingleActor
<1>1. Init => Floor!Init
  BY DEF Init, NoLease, AbsentItem, Floor!Init
<1>2. FInv /\ [Next]_vars => [Floor!Next]_(Floor!vars)
  BY StepIsFloorStep DEF FloorStep
<1> QED BY <1>1, <1>2, FloorInductive, PTL DEF Spec, ImplementsSingleActor, Floor!Spec

-----------------------------------------------------------------------------
(* What a slot's step does to the slots *)

\* A step of one slot leaves the memory of the others alone.
LEMMA OthersStay ==
  ASSUME IInv, NEW w \in Workers, NEW v \in Workers \ {w},
         (\E j \in JobIds : Deliver(w, j)) \/ WorkerStep(w) \/ Timers(w) \/ AbortJob(w) \/ Crash(w)
  PROVE  exec'[v] = exec[v]
<1>1. exec \in [Workers -> Execution]
  BY DEF IInv, TypeOK
<1>2. /\ \A pc : Goto(w, pc) => exec'[v] = exec[v]
      /\ \A b : Leave(w, b) => exec'[v] = exec[v]
      /\ \A b : Settle(w, b) => exec'[v] = exec[v]
      /\ \A e : Throw(w, e) => exec'[v] = exec[v]
      /\ Return(w) => exec'[v] = exec[v]
  BY <1>1 DEF Goto, Leave, Settle, Throw, Return
<1>3. CASE (\E j \in JobIds : Deliver(w, j)) \/ Timers(w) \/ AbortJob(w) \/ Crash(w)
  BY <1>1, <1>3 DEF Deliver, Timers, RenewTick, CancelObserveTick, AbortJob, Crash
<1>4. CASE SkipCheck(w) \/ CancelBeforeClaim(w) \/ SeedHop(w) \/ AcquireAndClaim(w)
           \/ DeferBehindHolder(w)
  BY <1>1, <1>2, <1>4
  DEF SkipCheck, CancelBeforeClaim, SeedHop, AcquireAndClaim, DeferBehindHolder
<1>5. CASE RejectPayload(w) \/ Gate(w) \/ DeferForCircuit(w) \/ AssignPolicy(w) \/ Prepare(w)
           \/ StartExecution(w)
  BY <1>2, <1>5 DEF RejectPayload, Gate, DeferForCircuit, AssignPolicy, Prepare, StartExecution
<1>6. CASE Admit(w) \/ ExecuteReturns(w) \/ ExecuteThrows(w) \/ CompleteRecheck(w)
           \/ markWorkCompleted(w)
  BY <1>1, <1>2, <1>6
  DEF Admit, beginWorkAttempt, ExecuteReturns, ExecuteThrows, CompleteRecheck, markWorkCompleted
<1>7. CASE handleDurableExecutionError(w) \/ CountPreflightFailure(w) \/ markWorkRetrying(w)
           \/ markWorkFailed(w) \/ Release(w) \/ SettleJob(w)
  BY <1>1, <1>2, <1>7
  DEF handleDurableExecutionError, CountPreflightFailure, markWorkRetrying, markWorkFailed,
      Release, SettleJob
<1> QED BY <1>3, <1>4, <1>5, <1>6, <1>7 DEF WorkerStep

\* The phase a slot is left in.
LEMMA PhaseAfter ==
  ASSUME IInv, NEW w \in Workers
  PROVE  /\ \A pc : Goto(w, pc) => exec'[w].pc = pc
         /\ \A b : Leave(w, b) => exec'[w].pc = "release"
         /\ Return(w) => exec'[w].pc = "release"
         /\ \A b : Settle(w, b) => exec'[w].pc = "settle"
         /\ \A e : Throw(w, e) => exec'[w].pc = "error"
<1>1. exec \in [Workers -> Execution] /\ exec[w] \in Execution
  BY DEF IInv, TypeOK
<1>2. \A pc : Goto(w, pc) => exec'[w].pc = pc
  BY <1>1 DEF Goto, Execution
<1>3. \A b : Leave(w, b) => exec'[w].pc = "release"
  BY <1>1 DEF Leave, IdleExec
<1>4. \A b : Settle(w, b) => exec'[w].pc = "settle"
  BY <1>1 DEF Settle, IdleExec
<1>5. \A e : Throw(w, e) => exec'[w].pc = "error"
  BY <1>1 DEF Throw, Execution
<1> QED BY <1>2, <1>3, <1>4, <1>5 DEF Return

-----------------------------------------------------------------------------
(* Intake frees the lease of what it closes *)

\* Outside intake nothing is superseded, and what cancels an item moves its slot.
ClosesByItself ==
  \A i \in Items : \/ items'[i].status = items[i].status
                   \/ items'[i].status \notin {"superseded", "cancelled"}
                   \/ items'[i].status = "cancelled" /\ exec' # exec

\* A written status, and the three forms of a cancel mark.
LEMMA MarksClose ==
  ASSUME IInv, NEW w \in Workers, exec[w].item \in Items
  PROVE  /\ \A s \in {"queued", "completed", "failed"} : SetStatus(exec[w].item, s) => ClosesByItself
         /\ exec' # exec =>
              /\ markWorkCancelledUnfenced(exec[w].item) => ClosesByItself
              /\ cancelWhileOwned(w) => ClosesByItself
              /\ recheckSkippableAndCancel(w) => ClosesByItself
         /\ UNCHANGED items => ClosesByItself
<1>1. items \in [Items -> ItemRow]
  BY DEF IInv, TypeOK
<1>2. UNCHANGED items => ClosesByItself
  BY DEF ClosesByItself
<1>3. \A s \in {"queued", "completed", "failed"} : SetStatus(exec[w].item, s) => ClosesByItself
  BY <1>1 DEF SetStatus, ItemRow, ClosesByItself
<1>4. SetStatus(exec[w].item, "cancelled") /\ exec' # exec => ClosesByItself
  BY <1>1 DEF SetStatus, ItemRow, ClosesByItself
<1>5. markWorkCancelledUnfenced(exec[w].item) /\ exec' # exec => ClosesByItself
  BY <1>2, <1>4 DEF markWorkCancelledUnfenced
<1> QED BY <1>2, <1>3, <1>5 DEF cancelWhileOwned, recheckSkippableAndCancel

\* The steps of a slot close items only by cancelling them, and move on.
LEMMA SlotCloses ==
  ASSUME IInv, NEW w \in Workers, WorkerStep(w)
  PROVE  ClosesByItself
<1>1. UNCHANGED items => ClosesByItself
  BY DEF ClosesByItself
<1>2. exec[w].pc \notin {"idle", "settle"} => exec[w].item \in Items
  BY DEF IInv, BoundItems
<1>3. exec'[w].pc # exec[w].pc => exec' # exec
  OBVIOUS
<1>4. CASE SkipCheck(w) \/ SeedHop(w) \/ DeferBehindHolder(w) \/ DeferForCircuit(w)
           \/ ExecuteReturns(w) \/ ExecuteThrows(w) \/ Release(w) \/ SettleJob(w)
  BY <1>1, <1>4
  DEF SkipCheck, SeedHop, DeferBehindHolder, DeferForCircuit, ExecuteReturns, ExecuteThrows,
      Release, SettleJob
<1>5. CASE AcquireAndClaim(w)
  <2>1. PICK i \in Items : i = exec[w].item
    BY <1>2, <1>5 DEF AcquireAndClaim, At
  <2>2. ASSUME items' = [items EXCEPT ![i] = [items[i] EXCEPT !.status = "running",
                                                              !.epoch = lease.epoch + 1]]
        PROVE  ClosesByItself
    BY <2>2 DEF ClosesByItself, IInv, TypeOK, ItemRow
  <2> QED BY <1>1, <1>5, <2>1, <2>2 DEF AcquireAndClaim, claimWorkForExecution
<1>6. CASE CancelBeforeClaim(w) \/ Prepare(w) \/ StartExecution(w)
  BY <1>1, <1>2, <1>3, <1>6, MarksClose, PhaseAfter
  DEF CancelBeforeClaim, Prepare, StartExecution, At
<1>11. CASE CompleteRecheck(w) \/ handleDurableExecutionError(w)
  BY <1>1, <1>2, <1>3, <1>11, MarksClose, PhaseAfter
  DEF CompleteRecheck, handleDurableExecutionError, At
<1>7. CASE RejectPayload(w) \/ Gate(w)
  BY <1>1, <1>2, <1>3, <1>7, MarksClose, PhaseAfter DEF RejectPayload, Gate, At
<1>8. CASE AssignPolicy(w) \/ CountPreflightFailure(w)
  <2>1. \A i \in Items : \A n : items' = [items EXCEPT ![i].preflights = n] => ClosesByItself
    BY DEF ClosesByItself, IInv, TypeOK, ItemRow
  <2> QED BY <1>1, <1>2, <1>8, <2>1 DEF AssignPolicy, CountPreflightFailure, At
<1>9. CASE Admit(w)
  <2>1. \A i \in Items : beginWorkAttempt(w, i) => ClosesByItself
    BY DEF beginWorkAttempt, ClosesByItself, IInv, TypeOK, ItemRow
  <2> QED BY <1>1, <1>2, <1>3, <1>9, <2>1, MarksClose, PhaseAfter DEF Admit, At
<1>10. CASE markWorkCompleted(w) \/ markWorkRetrying(w) \/ markWorkFailed(w)
  <2>1. exec[w].item \in Items /\ exec' # exec
    BY <1>2, <1>3, <1>10, PhaseAfter DEF markWorkCompleted, markWorkRetrying, markWorkFailed, At
  <2> QED BY <2>1, <1>10, MarksClose DEF markWorkCompleted, markWorkRetrying, markWorkFailed
<1> QED BY <1>4, <1>5, <1>6, <1>7, <1>8, <1>9, <1>10, <1>11 DEF WorkerStep

\* What one step promises about the items it closes.
FreedByClosure ==
  \A i \in Items :
    /\ items[i].status \in Active
    /\ \/ items'[i].status = "superseded"
       \/ items'[i].status = "cancelled" /\ exec' = exec
    => lease'.holder # i

\* Intake's own transactions free the row of every item they close.
LEMMA IntakeFrees ==
  ASSUME FInv, Intake
  PROVE  FreedByClosure
<1>1. IInv /\ items \in [Items -> ItemRow]
  BY DEF FInv, IInv, TypeOK
<1>2. ASSUME NEW i \in Items, replaceAutoWorkItem(i)
      PROVE  FreedByClosure
  <2>1. ActiveIn(AutoItems) \in SUBSET Items
    BY WorkAssumption DEF ActiveIn
  <2>2. lease'.holder \notin ActiveIn(AutoItems)
    BY <1>2, <2>1, PairsTakeFloor DEF replaceAutoWorkItem
  <2>3. \A k \in Items : items'[k] = IF k = i THEN QueuedRow
                                     ELSE IF k \in ActiveIn(AutoItems) THEN ClosedRow(items[k], "superseded")
                                     ELSE items[k]
    BY <1>2 DEF replaceAutoWorkItem
  <2> QED BY <2>2, <2>3 DEF FreedByClosure, QueuedRow, AbsentItem, Active
<1>3. ASSUME NEW i \in Items, createSlashWorkItem(i)
      PROVE  FreedByClosure
  BY <1>1, <1>3 DEF createSlashWorkItem, FreedByClosure, QueuedRow, AbsentItem, Active
<1>4. ASSUME cancelActiveReviews
      PROVE  FreedByClosure
  <2>1. lease'.holder \notin ActiveIn(Items)
    BY <1>4, PairsTakeFloor DEF cancelActiveReviews, ActiveIn
  <2> QED BY <2>1 DEF FreedByClosure, ActiveIn
<1> QED BY <1>2, <1>3, <1>4 DEF Intake

\* Every step either is intake's or closes nothing behind a slot's back.
LEMMA StepFrees ==
  ASSUME FInv, [Next]_vars
  PROVE  FreedByClosure
<1>1. IInv /\ items \in [Items -> ItemRow]
  BY DEF FInv, IInv, TypeOK
<1>2. ClosesByItself => FreedByClosure
  BY DEF ClosesByItself, FreedByClosure, Active
<1>3. UNCHANGED items => ClosesByItself
  BY DEF ClosesByItself
<1>4. CASE UNCHANGED vars \/ Environment
           \/ \E w \in Workers : (\E j \in JobIds : Deliver(w, j)) \/ Timers(w)
  BY <1>2, <1>3, <1>4
  DEF vars, Environment, LeaseExpires, JobExpires, AbortJob, Crash, Deliver, Timers,
      RenewTick, CancelObserveTick
<1>5. CASE \E i \in Items : markLostRunningWorkFailed(i)
  BY <1>1, <1>2, <1>5 DEF markLostRunningWorkFailed, SetStatus, ItemRow, ClosesByItself
<1> QED BY <1>1, <1>2, <1>4, <1>5, IntakeFrees, SlotCloses DEF Next

\* An intake transaction that supersedes or cancels items never leaves the lease with
\* one of them: the pairs it reads from the items name the row whenever one holds it.
THEOREM IntakeFreesTheLease == Spec => ClosureFreesLease
<1>1. FInv /\ [Next]_vars => [FreedByClosure]_vars
  BY StepFrees
<1> QED BY <1>1, FloorInductive, PTL DEF Spec, ClosureFreesLease, FreedByClosure

-----------------------------------------------------------------------------
(* A stale holder is inert *)

\* Without the fence, no statement of an owned phase writes a row.
LEMMA StaleSlot ==
  ASSUME IInv, NEW w \in Workers, Owned(w), exec[w].epoch # lease.epoch, WorkerStep(w)
  PROVE  UNCHANGED <<items, lease>>
<1>1. /\ ~Owns(w) /\ ~Writable(w) /\ StopsOnRecheck(w)
      /\ cancelWhileOwned(w) => UNCHANGED items
      /\ recheckSkippableAndCancel(w) => UNCHANGED items
  BY DEF Owns, isPrActorLeaseHeld, Writable, StopsOnRecheck, cancelWhileOwned,
         recheckSkippableAndCancel
<1>2. exec[w].pc \notin {"idle", "skipCheck", "cancel", "seed", "acquire", "settle"}
  BY PhaseFacts DEF Owned
<1>3. ~SkipCheck(w) /\ ~CancelBeforeClaim(w) /\ ~SeedHop(w) /\ ~AcquireAndClaim(w)
      /\ ~DeferBehindHolder(w) /\ ~SettleJob(w)
  BY <1>2 DEF SkipCheck, CancelBeforeClaim, SeedHop, AcquireAndClaim, DeferBehindHolder, SettleJob, At
<1>4. CASE RejectPayload(w) \/ Gate(w) \/ DeferForCircuit(w) \/ AssignPolicy(w) \/ Prepare(w)
           \/ StartExecution(w)
  BY <1>1, <1>4 DEF RejectPayload, Gate, DeferForCircuit, AssignPolicy, Prepare, StartExecution
<1>5. CASE Admit(w) \/ ExecuteReturns(w) \/ ExecuteThrows(w) \/ CompleteRecheck(w)
           \/ markWorkCompleted(w)
  BY <1>1, <1>5 DEF Admit, ExecuteReturns, ExecuteThrows, CompleteRecheck, markWorkCompleted
<1>6. CASE handleDurableExecutionError(w) \/ CountPreflightFailure(w) \/ markWorkRetrying(w)
           \/ markWorkFailed(w) \/ Release(w)
  BY <1>1, <1>6
  DEF handleDurableExecutionError, CountPreflightFailure, markWorkRetrying, markWorkFailed,
      Release, releasePrActorLease
<1> QED BY <1>3, <1>4, <1>5, <1>6 DEF WorkerStep

\* What one step promises about slots whose epoch has been overtaken.
InertWhenStale ==
  \A w \in Workers :
    /\ exec[w].pc \in OwnedPhases
    /\ exec[w].epoch # lease.epoch
    /\ exec'[w] # exec[w]
    => items' = items /\ lease' = lease

\* Only the slot that moves changes its memory, and when it is stale it writes nothing.
LEMMA StepIsInert ==
  ASSUME IInv, [Next]_vars
  PROVE  InertWhenStale
<1> SUFFICES ASSUME NEW w \in Workers, Owned(w), exec[w].epoch # lease.epoch, exec'[w] # exec[w]
             PROVE  UNCHANGED <<items, lease>>
  BY DEF InertWhenStale, Owned
<1>1. CASE UNCHANGED exec
  BY <1>1
<1>2. CASE \E v \in Workers : (\E j \in JobIds : Deliver(v, j)) \/ WorkerStep(v) \/ Timers(v)
                              \/ AbortJob(v) \/ Crash(v)
  <2>1. (\E j \in JobIds : Deliver(w, j)) \/ WorkerStep(w) \/ Timers(w) \/ AbortJob(w) \/ Crash(w)
    BY <1>2, OthersStay
  <2>2. CASE WorkerStep(w)
    BY <2>2, StaleSlot
  <2>3. CASE Timers(w)
    BY <2>3 DEF Timers, RenewTick, CancelObserveTick, Renewable
  <2>4. CASE (\E j \in JobIds : Deliver(w, j)) \/ AbortJob(w) \/ Crash(w)
    BY <2>4 DEF Deliver, AbortJob, Crash
  <2> QED BY <2>1, <2>2, <2>3, <2>4
<1>3. CASE Intake \/ LeaseExpires \/ (\E j \in JobIds : JobExpires(j))
           \/ (\E i \in Items : markLostRunningWorkFailed(i))
  BY <1>1, <1>3 DEF Intake, replaceAutoWorkItem, createSlashWorkItem, cancelActiveReviews,
                    LeaseExpires, JobExpires, markLostRunningWorkFailed
<1> QED BY <1>1, <1>2, <1>3 DEF Next, Environment, vars

\* An execution that was overtaken by another claim changes neither an item nor the lease,
\* whatever it still runs.
THEOREM StaleHoldersAreInert == Spec => StaleHolderInert
<1>1. IInv /\ [Next]_vars => [InertWhenStale]_vars
  BY StepIsInert
<1> QED BY <1>1, Inductive, PTL DEF Spec, StaleHolderInert, InertWhenStale

-----------------------------------------------------------------------------
(* The attempts of an item are numbered apart *)

\* Where an execution can be once beginWorkAttempt charged it.
AdmittedPhases == {"execute", "complete", "markCompleted", "error", "countPreflight",
                   "markRetrying", "markFailed"}

\* An admitted execution's number was charged to its item, within the budget.
AdmissionsCharged ==
  \A w \in Workers :
    exec[w].admitted =>
      /\ exec[w].pc \in AdmittedPhases
      /\ items[exec[w].item].status # "absent"
      /\ exec[w].attempt <= items[exec[w].item].attempts

AInv == IInv /\ AdmissionsCharged /\ AdmissionsDistinct

\* What all steps but an admission leave of the admitted executions and of the counters.
SlotKeepsAdmission(w) ==
  exec'[w].admitted =>
    /\ exec[w].admitted
    /\ exec'[w].pc \in AdmittedPhases
    /\ exec'[w].item = exec[w].item
    /\ exec'[w].attempt = exec[w].attempt

CountersKept ==
  \A i \in Items : items[i].status # "absent" => items'[i].attempts = items[i].attempts

\* Executions that stay as they were and counters that do not move keep the numbers apart.
LEMMA KeptNumbers ==
  ASSUME AInv, IInv', CountersKept, \A w \in Workers : SlotKeepsAdmission(w),
         \A i \in Items : items[i].status # "absent" => items'[i].status # "absent"
  PROVE  AInv'
<1>1. \A w \in Workers : exec[w].admitted => exec[w].item \in Items
  BY DEF AInv, AdmissionsCharged, AdmittedPhases, IInv, BoundItems
<1>2. AdmissionsCharged'
  BY <1>1 DEF AInv, AdmissionsCharged, CountersKept, SlotKeepsAdmission
<1>3. AdmissionsDistinct'
  BY DEF AInv, AdmissionsDistinct, SlotKeepsAdmission
<1> QED BY <1>2, <1>3 DEF AInv

\* How a slot that moves on keeps its admission.
LEMMA MovesKeepAdmission ==
  ASSUME AInv, NEW w \in Workers
  PROVE  /\ \A pc : Goto(w, pc) /\ (exec[w].pc \in AdmittedPhases => pc \in AdmittedPhases)
                    => SlotKeepsAdmission(w)
         /\ \A b : Leave(w, b) => SlotKeepsAdmission(w)
         /\ Return(w) => SlotKeepsAdmission(w)
         /\ \A b : Settle(w, b) => SlotKeepsAdmission(w)
         /\ \A e : Throw(w, e) => SlotKeepsAdmission(w)
         /\ UNCHANGED exec => SlotKeepsAdmission(w)
<1>1. /\ exec \in [Workers -> Execution] /\ exec[w] \in Execution
      /\ exec[w].admitted => exec[w].pc \in AdmittedPhases
  BY DEF AInv, IInv, TypeOK, AdmissionsCharged
<1>2. ASSUME NEW pc, Goto(w, pc), exec[w].pc \in AdmittedPhases => pc \in AdmittedPhases
      PROVE  SlotKeepsAdmission(w)
  BY <1>1, <1>2 DEF Goto, Execution, SlotKeepsAdmission
<1>3. ASSUME NEW b, Leave(w, b)
      PROVE  SlotKeepsAdmission(w)
  BY <1>1, <1>3 DEF Leave, IdleExec, SlotKeepsAdmission
<1>4. ASSUME NEW b, Settle(w, b)
      PROVE  SlotKeepsAdmission(w)
  BY <1>1, <1>4 DEF Settle, IdleExec, SlotKeepsAdmission
<1>5. ASSUME NEW e, Throw(w, e)
      PROVE  SlotKeepsAdmission(w)
  BY <1>1, <1>5 DEF Throw, Execution, SlotKeepsAdmission, AdmittedPhases
<1>6. UNCHANGED exec => SlotKeepsAdmission(w)
  BY <1>1 DEF SlotKeepsAdmission
<1> QED BY <1>2, <1>3, <1>4, <1>5, <1>6 DEF Return

\* The marks of an item do not touch its counter.
LEMMA MarksKeepCounters ==
  ASSUME IInv, NEW w \in Workers, exec[w].item \in Items
  PROVE  /\ UNCHANGED items => CountersKept
         /\ \A s : SetStatus(exec[w].item, s) => CountersKept
         /\ markWorkCancelledUnfenced(exec[w].item) => CountersKept
         /\ cancelWhileOwned(w) => CountersKept
         /\ recheckSkippableAndCancel(w) => CountersKept
<1>1. UNCHANGED items => CountersKept
  BY DEF CountersKept
<1>2. \A s : SetStatus(exec[w].item, s) => CountersKept
  BY DEF IInv, TypeOK, SetStatus, ItemRow, CountersKept
<1>3. markWorkCancelledUnfenced(exec[w].item) => CountersKept
  BY <1>1, <1>2 DEF markWorkCancelledUnfenced
<1> QED BY <1>1, <1>2, <1>3 DEF cancelWhileOwned, recheckSkippableAndCancel

\* Before the admission, and at both ends of a delivery.
LEMMA EarlySlotKeeps ==
  ASSUME AInv, NEW w \in Workers,
         \/ SkipCheck(w) \/ CancelBeforeClaim(w) \/ SeedHop(w) \/ AcquireAndClaim(w)
         \/ DeferBehindHolder(w) \/ Release(w) \/ SettleJob(w)
  PROVE  SlotKeepsAdmission(w) /\ CountersKept
<1>1. /\ IInv /\ exec \in [Workers -> Execution] /\ exec[w] \in Execution
      /\ exec[w].admitted => exec[w].pc \in AdmittedPhases
      /\ UNCHANGED items => CountersKept
  BY DEF AInv, IInv, TypeOK, AdmissionsCharged, CountersKept
<1>2. CASE SkipCheck(w) \/ DeferBehindHolder(w) \/ Release(w)
  BY <1>1, <1>2, MovesKeepAdmission
  DEF SkipCheck, DeferBehindHolder, Release, At, AdmittedPhases
<1>3. CASE CancelBeforeClaim(w)
  <2>1. exec[w].item \in Items
    BY <1>1, <1>3 DEF CancelBeforeClaim, At, IInv, BoundItems
  <2> QED BY <1>1, <1>3, <2>1, MovesKeepAdmission, MarksKeepCounters DEF CancelBeforeClaim
<1>4. CASE SeedHop(w)
  <2>1. ~exec[w].admitted
    BY <1>1, <1>4 DEF SeedHop, At, AdmittedPhases
  <2>2. [[exec[w] EXCEPT !.pc = "acquire"] EXCEPT !.seeded = TRUE].admitted = exec[w].admitted
    BY <1>1 DEF Execution
  <2>3. ~exec'[w].admitted
    BY <1>1, <1>4, <2>1, <2>2 DEF SeedHop, Goto, Execution
  <2> QED BY <1>1, <1>4, <2>3 DEF SeedHop, SlotKeepsAdmission
<1>5. CASE AcquireAndClaim(w)
  <2>1. exec[w].admitted = FALSE
    BY <1>1, <1>5 DEF AcquireAndClaim, At, AdmittedPhases, Execution
  <2>2. ASSUME Claimable(exec[w].item)
        PROVE  SlotKeepsAdmission(w)
    <3> DEFINE x == [exec[w] EXCEPT !.pc = "open"]
               y == [x EXCEPT !.epoch = lease.epoch + 1]
               z == [y EXCEPT !.seeded = FALSE]
               t == [z EXCEPT !.attempt = items[exec[w].item].attempts]
    <3>1. exec' = [exec EXCEPT ![w] = t]
      BY <1>5, <2>2 DEF AcquireAndClaim
    <3>2. x.admitted = exec[w].admitted /\ y.admitted = x.admitted
          /\ z.admitted = y.admitted /\ t.admitted = z.admitted
      BY <1>1 DEF Execution
    <3> HIDE DEF x, y, z, t
    <3>3. exec'[w] = t
      BY <1>1, <3>1
    <3>4. exec'[w].admitted = FALSE
      BY <2>1, <3>2, <3>3
    <3> QED BY <3>4 DEF SlotKeepsAdmission
  <2>3. SlotKeepsAdmission(w)
    BY <1>5, <2>2, MovesKeepAdmission DEF AcquireAndClaim
  <2>4. \A i \in Items : \A e : claimWorkForExecution(i, e) => CountersKept
    BY <1>1 DEF claimWorkForExecution, CountersKept, IInv, TypeOK, ItemRow
  <2>5. exec[w].item \in Items
    BY <1>1, <1>5 DEF AcquireAndClaim, At, IInv, BoundItems
  <2> QED BY <1>1, <1>5, <2>3, <2>4, <2>5 DEF AcquireAndClaim
<1>6. CASE SettleJob(w)
  BY <1>1, <1>6 DEF SettleJob, IdleExec, SlotKeepsAdmission
<1> QED BY <1>2, <1>3, <1>4, <1>5, <1>6

\* The disjunct of Admit that charges an attempt.
Admitted(w) ==
  /\ At(w, "execute") /\ ~exec[w].admitted /\ Writable(w)
  /\ items[exec[w].item].attempts < maxAttempts
  /\ beginWorkAttempt(w, exec[w].item)

\* From the claim to the end of the try block, the admission itself left out.
LEMMA OwnedSlotKeeps ==
  ASSUME AInv, NEW w \in Workers,
         \/ RejectPayload(w) \/ Gate(w) \/ DeferForCircuit(w) \/ AssignPolicy(w) \/ Prepare(w)
         \/ StartExecution(w) \/ (Admit(w) /\ ~Admitted(w))
         \/ ExecuteReturns(w) \/ ExecuteThrows(w) \/ CompleteRecheck(w) \/ markWorkCompleted(w)
         \/ handleDurableExecutionError(w) \/ CountPreflightFailure(w)
         \/ markWorkRetrying(w) \/ markWorkFailed(w)
  PROVE  SlotKeepsAdmission(w) /\ CountersKept
<1>1. /\ IInv /\ exec \in [Workers -> Execution] /\ exec[w] \in Execution
      /\ exec[w].admitted => exec[w].pc \in AdmittedPhases
      /\ UNCHANGED items => CountersKept
      /\ \A i \in Items : \A n : items' = [items EXCEPT ![i].preflights = n] => CountersKept
  BY DEF AInv, IInv, TypeOK, ItemRow, AdmissionsCharged, CountersKept
<1>2. exec[w].item \in Items
  BY <1>1 DEF IInv, BoundItems, RejectPayload, Gate, DeferForCircuit, AssignPolicy, Prepare,
              StartExecution, Admit, ExecuteReturns, ExecuteThrows, CompleteRecheck,
              markWorkCompleted, handleDurableExecutionError, CountPreflightFailure,
              markWorkRetrying, markWorkFailed, At
<1>3. CASE RejectPayload(w) \/ Gate(w) \/ DeferForCircuit(w) \/ AssignPolicy(w) \/ Prepare(w)
           \/ StartExecution(w)
  <2>1. SlotKeepsAdmission(w)
    BY <1>3, MovesKeepAdmission
    DEF RejectPayload, Gate, DeferForCircuit, AssignPolicy, Prepare, StartExecution, At, AdmittedPhases
  <2>2. CountersKept
    BY <1>1, <1>2, <1>3, MarksKeepCounters
    DEF RejectPayload, Gate, DeferForCircuit, AssignPolicy, Prepare, StartExecution
  <2> QED BY <2>1, <2>2
<1>4. CASE Admit(w) /\ ~Admitted(w)
  BY <1>1, <1>2, <1>4, MovesKeepAdmission, MarksKeepCounters DEF Admit, Admitted
<1>5. CASE ExecuteReturns(w)
  <2>1. [[exec[w] EXCEPT !.pc = "complete"] EXCEPT !.leaseAborted = FALSE].pc = "complete"
    BY <1>1 DEF Execution
  <2>2. SlotKeepsAdmission(w)
    BY <1>1, <1>5, <2>1 DEF ExecuteReturns, Execution, SlotKeepsAdmission, AdmittedPhases
  <2> QED BY <1>1, <1>5, <2>2 DEF ExecuteReturns
<1>6. CASE ExecuteThrows(w) \/ CompleteRecheck(w) \/ markWorkCompleted(w)
  <2>1. SlotKeepsAdmission(w)
    BY <1>6, MovesKeepAdmission DEF ExecuteThrows, CompleteRecheck, markWorkCompleted, AdmittedPhases
  <2>2. CountersKept
    BY <1>1, <1>2, <1>6, MarksKeepCounters DEF ExecuteThrows, CompleteRecheck, markWorkCompleted
  <2> QED BY <2>1, <2>2
<1>7. CASE handleDurableExecutionError(w) \/ CountPreflightFailure(w)
           \/ markWorkRetrying(w) \/ markWorkFailed(w)
  <2>1. SlotKeepsAdmission(w)
    BY <1>7, MovesKeepAdmission
    DEF handleDurableExecutionError, NextMark, CountPreflightFailure, markWorkRetrying,
        markWorkFailed, AdmittedPhases
  <2>2. CountersKept
    BY <1>1, <1>2, <1>7, MarksKeepCounters
    DEF handleDurableExecutionError, CountPreflightFailure, markWorkRetrying, markWorkFailed
  <2> QED BY <2>1, <2>2
<1> QED BY <1>3, <1>4, <1>5, <1>6, <1>7

\* An admission takes the next number of its item, which nobody carries.
LEMMA AdmissionIsNew ==
  ASSUME AInv, IInv', NEW w \in Workers, Admitted(w)
  PROVE  AInv'
<1>1. PICK i \in Items : i = exec[w].item
  BY DEF AInv, IInv, BoundItems, Admitted, At
<1> DEFINE n == items[i].attempts + 1
           x == [exec[w] EXCEPT !.admitted = TRUE]
           y == [x EXCEPT !.attempt = n]
<1>2. /\ exec \in [Workers -> Execution] /\ exec[w] \in Execution
      /\ items \in [Items -> ItemRow] /\ items[i].attempts \in Nat
      /\ RetryLimit \in Nat
      /\ \A v \in Workers : exec[v].item = i => exec[v].attempt \in Nat
  BY WorkAssumption DEF AInv, IInv, TypeOK, ItemRow, Execution
<1>3. items' = [items EXCEPT ![i] = [items[i] EXCEPT !.attempts = n]]
  BY <1>1 DEF Admitted, beginWorkAttempt
<1>4. exec' = [exec EXCEPT ![w] = y]
  BY <1>1 DEF Admitted, beginWorkAttempt
<1>5. n \in Nat /\ n <= maxAttempts /\ exec[w].pc = "execute" /\ items[i].status = "running"
  BY <1>1, <1>2 DEF Admitted, At, Writable, maxAttempts
<1>6. y.admitted /\ y.attempt = n /\ y.item = i /\ y.pc = "execute"
  BY <1>1, <1>2, <1>5 DEF Execution
<1> HIDE DEF n, x, y
<1>7. /\ items'[i].attempts = n /\ items'[i].status = "running"
      /\ \A k \in Items \ {i} : items'[k] = items[k]
  BY <1>2, <1>3, <1>5 DEF ItemRow
<1>8. /\ exec'[w] = y
      /\ \A v \in Workers \ {w} : exec'[v] = exec[v]
  BY <1>2, <1>4
<1>9. \A v \in Workers \ {w} : exec[v].admitted /\ exec[v].item = i => exec[v].attempt < n
  BY <1>2, <1>5 DEF n, AInv, AdmissionsCharged
<1>10. AdmissionsCharged'
  <2>1. ASSUME NEW v \in Workers \ {w}, exec[v].admitted
        PROVE  /\ exec[v].pc \in AdmittedPhases
               /\ items'[exec[v].item].status # "absent"
               /\ exec[v].attempt <= items'[exec[v].item].attempts
    <3>1. exec[v].item \in Items
      BY <2>1 DEF AInv, AdmissionsCharged, AdmittedPhases, IInv, BoundItems
    <3>2. CASE exec[v].item = i
      BY <1>2, <1>5, <1>7, <1>9, <2>1, <3>2 DEF AInv, AdmissionsCharged
    <3>3. CASE exec[v].item # i
      BY <1>7, <2>1, <3>1, <3>3 DEF AInv, AdmissionsCharged
    <3> QED BY <3>2, <3>3
  <2>2. /\ exec'[w].pc \in AdmittedPhases
        /\ items'[exec'[w].item].status # "absent"
        /\ exec'[w].attempt <= items'[exec'[w].item].attempts
    BY <1>5, <1>6, <1>7, <1>8 DEF AdmittedPhases
  <2> QED BY <1>8, <2>1, <2>2 DEF AdmissionsCharged
<1>11. AdmissionsDistinct'
  <2>1. \A v \in Workers \ {w} : exec[v].admitted /\ exec[v].item = i => exec[v].attempt # n
    BY <1>2, <1>5, <1>9
  <2>2. \A v \in Workers \ {w} :
          exec[v].admitted =>
            /\ exec[v].attempt <= maxAttempts
            /\ \A u \in Workers \ {v} : exec[u].admitted /\ exec[u].item = exec[v].item
                                          => exec[u].attempt # exec[v].attempt
    BY DEF AInv, AdmissionsDistinct
  <2> QED BY <1>5, <1>6, <1>8, <2>1, <2>2 DEF AdmissionsDistinct, maxAttempts
<1> QED BY <1>10, <1>11 DEF AInv

\* Every step keeps the charged numbers apart.
LEMMA StepKeepsAInv ==
  ASSUME AInv, [Next]_vars
  PROVE  AInv'
<1>1. /\ IInv /\ IInv' /\ exec \in [Workers -> Execution] /\ items \in [Items -> ItemRow]
      /\ \A w \in Workers : exec[w].admitted => exec[w].pc \in AdmittedPhases
  BY StepKeepsIInv DEF AInv, IInv, TypeOK, AdmissionsCharged
<1>2. \A i \in Items : items[i].status # "absent" => items'[i].status # "absent"
  <2>1. CASE Frame
    BY <2>1 DEF Frame, ItemFrame
  <2>2. CASE Intake
    BY <1>1, <2>2 DEF Intake, replaceAutoWorkItem, createSlashWorkItem, cancelActiveReviews,
                      QueuedRow, AbsentItem, ClosedRow, ItemRow
  <2>3. CASE \E w \in Workers : AcquireAndClaim(w)
    <3>1. PICK w \in Workers, i \in Items : AcquireAndClaim(w) /\ i = exec[w].item
      BY <1>1, <2>3 DEF AcquireAndClaim, At, IInv, BoundItems
    <3>2. UNCHANGED items \/ claimWorkForExecution(i, lease.epoch + 1)
      BY <3>1 DEF AcquireAndClaim, claimWorkForExecution
    <3> QED BY <1>1, <3>2 DEF claimWorkForExecution, ItemRow
  <2> QED BY <1>1, <2>1, <2>2, <2>3, StepKinds
<1>3. UNCHANGED items => CountersKept
  BY DEF CountersKept
<1>4. UNCHANGED exec => \A w \in Workers : SlotKeepsAdmission(w)
  BY MovesKeepAdmission
<1>5. ASSUME NEW w \in Workers, SlotKeepsAdmission(w), CountersKept,
             (\E j \in JobIds : Deliver(w, j)) \/ WorkerStep(w) \/ Timers(w) \/ AbortJob(w) \/ Crash(w)
      PROVE  AInv'
  <2>1. \A v \in Workers : SlotKeepsAdmission(v)
    BY <1>1, <1>5, OthersStay DEF SlotKeepsAdmission
  <2> QED BY <1>1, <1>2, <1>5, <2>1, KeptNumbers
<1>6. ASSUME UNCHANGED exec, CountersKept
      PROVE  AInv'
  BY <1>1, <1>2, <1>4, <1>6, KeptNumbers
<1>7. CASE Intake
  <2>1. \A k \in Items : \A s : ClosedRow(items[k], s).attempts = items[k].attempts
    BY <1>1 DEF ClosedRow, ItemRow
  <2>2. ASSUME NEW i \in Items, replaceAutoWorkItem(i)
        PROVE  CountersKept
    BY <2>1, <2>2 DEF replaceAutoWorkItem, CountersKept
  <2>3. ASSUME NEW i \in Items, createSlashWorkItem(i)
        PROVE  CountersKept
    BY <1>1, <2>3 DEF createSlashWorkItem, CountersKept
  <2>4. cancelActiveReviews => CountersKept
    BY <2>1 DEF cancelActiveReviews, CountersKept
  <2>5. UNCHANGED exec
    BY <1>7 DEF Intake, replaceAutoWorkItem, createSlashWorkItem, cancelActiveReviews
  <2> QED BY <1>6, <1>7, <2>2, <2>3, <2>4, <2>5 DEF Intake
<1>8. CASE UNCHANGED vars \/ LeaseExpires \/ \E j \in JobIds : JobExpires(j)
  BY <1>3, <1>6, <1>8 DEF vars, LeaseExpires, JobExpires
<1>9. CASE \E i \in Items : markLostRunningWorkFailed(i)
  <2>1. CountersKept
    BY <1>1, <1>9 DEF markLostRunningWorkFailed, SetStatus, ItemRow, CountersKept
  <2> QED BY <1>6, <1>9, <2>1 DEF markLostRunningWorkFailed
<1>10. ASSUME NEW w \in Workers,
              (\E j \in JobIds : Deliver(w, j)) \/ Timers(w) \/ AbortJob(w) \/ Crash(w)
       PROVE  AInv'
  <2>1. SlotKeepsAdmission(w)
    <3>1. CASE (\E j \in JobIds : Deliver(w, j)) \/ Crash(w)
      <4>1. ASSUME NEW j \in JobIds, Deliver(w, j)
            PROVE  exec'[w].admitted = FALSE
        <5> DEFINE x == [IdleExec EXCEPT !.pc = "skipCheck", !.item = jobs[j].item, !.job = j,
                                         !.tries = jobs[j].retries]
        <5>1. exec' = [exec EXCEPT ![w] = x]
          BY <4>1 DEF Deliver
        <5>2. x.admitted = FALSE
          BY DEF IdleExec
        <5> HIDE DEF x
        <5> QED BY <1>1, <5>1, <5>2
      <4>2. Crash(w) => exec'[w].admitted = FALSE
        BY <1>1 DEF Crash, IdleExec
      <4> QED BY <3>1, <4>1, <4>2 DEF SlotKeepsAdmission
    <3>2. CASE exec' = [exec EXCEPT ![w].leaseAborted = TRUE] \/ exec' = [exec EXCEPT ![w].jobAborted = TRUE]
      BY <1>1, <3>2 DEF Execution, SlotKeepsAdmission
    <3> QED BY <1>4, <1>10, <3>1, <3>2 DEF Timers, RenewTick, CancelObserveTick, AbortJob
  <2>2. UNCHANGED items
    BY <1>10 DEF Deliver, Timers, RenewTick, CancelObserveTick, AbortJob, Crash
  <2> QED BY <1>3, <1>5, <1>10, <2>1, <2>2
<1>11. ASSUME NEW w \in Workers, WorkerStep(w)
       PROVE  AInv'
  <2>1. CASE Admitted(w)
    BY <1>1, <2>1, AdmissionIsNew
  <2>2. CASE ~Admitted(w)
    <3>1. SlotKeepsAdmission(w) /\ CountersKept
      BY <1>11, <2>2, EarlySlotKeeps, OwnedSlotKeeps DEF WorkerStep
    <3> QED BY <1>5, <1>11, <3>1
  <2> QED BY <2>1, <2>2
<1> QED BY <1>7, <1>8, <1>9, <1>10, <1>11 DEF Next, Environment

\* The inductive invariant of the admissions.
THEOREM AdmissionsInductive == Spec => []AInv
<1>1. Init => AInv
  BY InitIInv DEF Init, IdleExec, AInv, AdmissionsCharged, AdmissionsDistinct
<1>2. AInv /\ [Next]_vars => AInv'
  BY StepKeepsAInv
<1> QED BY <1>1, <1>2, PTL DEF Spec

\* Two admitted executions of one item, however they came to run side by side, carry
\* different attempt numbers, and none is past the budget.
THEOREM AttemptNumbersDistinct == Spec => []AdmissionsDistinct
<1>1. AInv => AdmissionsDistinct
  BY DEF AInv
<1> QED BY <1>1, AdmissionsInductive, PTL

=============================================================================
