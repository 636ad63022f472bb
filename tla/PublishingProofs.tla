--------------------------- MODULE PublishingProofs ---------------------------
(***************************************************************************)
(* Proofs about what a review shows on GitHub: its check run and commit    *)
(* status (ReviewVerdict), and the one progress comment of a pull request  *)
(* (ProgressComment); and about what triage does to the contributor's      *)
(* branch and threads (Triage).  Each part gives the inductive invariant   *)
(* of its component, the lemma that a step of one actor leaves the others  *)
(* alone, a lemma for each group of steps, and the theorem that the        *)
(* component keeps what it promises.                                       *)
(***************************************************************************)
EXTENDS ReviewVerdict, ProgressComment, Triage, FiniteSetTheorems, SequenceTheorems,
        WellFoundedInduction, TLAPS

-----------------------------------------------------------------------------
(* ReviewVerdict: the inductive invariant *)

Verdicts == [check : {"success", "failure", "neutral", "cancelled", "action_required"},
             status : {"success", "failure", "error"}]

Surface == {"open", "applied", "skipped"}

CheckRows ==
    [present : BOOLEAN, id : BOOLEAN, starting : BOOLEAN, epoch : 0 .. LastEpoch,
     sel : Verdicts \cup {NoVerdict}, check : Surface, status : Surface]

Intents == {"none", "mutating", "accepted", "failed", "unknown", "terminal"}

GithubStates ==
    [check : {"none", "open", "success", "failure", "neutral", "cancelled", "action_required"},
     status : {"none", "pending", "success", "failure", "error"}, orphaned : BOOLEAN]

\* Where an actor may be: before and in the section between reserving the slot and leaving it,
\* with the pending status and the review, and under the close lock.
Early == {"begin", "reserve", "recover", "reserveAgain"}
Section == {"create", "creating", "record", "orphan", "release"}
Deciding == {"finish", "finishing", "finished", "skip", "status", "stating", "stated", "unlock"}
Closing == {"claim", "claimStale"} \cup Deciding
Pcs == Early \cup Section \cup Closing \cup
       {"pendingStatus", "pendingSent", "review", "complete", "close", "closeStale", "idle",
        "repair", "done", "dead"}

VerdictTyped ==
    /\ vItem \in {"active", "completed", "failed", "cancelled"}
    /\ vLease \in 0 .. LastEpoch /\ vFaults \in 0 .. MaxVerdictFaults
    /\ vRow \in CheckRows
    /\ vIntent \in [{"start", "finish", "pending", "status"} -> Intents]
    /\ vGithub \in GithubStates
    /\ vSummary = NoSummary \/ \E v \in Published : vSummary = summaryCommentVerdictMeta(v[1], v[2])
    /\ vPc \in [VerdictActors -> Pcs]
    /\ vLock = {} \/ \E a \in VerdictActors : vLock = {a}

Sent(k) == vIntent[k] \in {"accepted", "unknown", "mutating"}

\* The row, the intents and GitHub: nothing is on GitHub that was not sent, a row with an id
\* has its check, and a surface is settled as what GitHub shows.
SurfacesConsistent ==
    /\ Selected => vRow.present
    /\ ~vRow.present => ~vRow.starting /\ ~vRow.id
    /\ vRow.check # "open" => Selected
    /\ vRow.id => IntentAccepted("start") \/ vGithub.check # "none"
    /\ vGithub.check # "none" => Sent("start")
    /\ IntentAccepted("finish") => vGithub.check \notin {"none", "open"}
    /\ AppliedIsClosed
    /\ vRow.check = "skipped" => ~Sent("start")
    /\ SurfacesAgree

\* What holds of an actor where it is.
ActorConsistent(a) ==
    /\ vPc[a] \in Closing => vLock = {a}
    /\ vPc[a] \in Deciding => Selected
    /\ vPc[a] \in Section => vRow.starting \/ vRow.id
    /\ vPc[a] = "create" => vRow.check # "skipped"
    /\ vPc[a] = "creating" => vIntent["start"] = "mutating" /\ vGithub.check = "none"
    /\ vPc[a] \in {"record", "orphan"} => IntentAccepted("start")
    /\ vPc[a] = "finishing" => vRow.id
    /\ vPc[a] = "finished" => IntentAccepted("finish")
    /\ a \in Executions /\ vPc[a] \in Early => vRow.epoch # a
    /\ a \in Repairers => /\ vPc[a] \in {"idle", "repair", "close"} \cup (Closing \ {"claimStale"})
                          /\ vPc[a] # "idle" => VerdictTerminal
    /\ a = Ack => vPc[a] \in Early \cup Section \cup {"pendingStatus", "pendingSent", "done", "dead"}

OneReserves == \A a, b \in VerdictActors : vPc[a] \in Section /\ vPc[b] \in Section => a = b

VerdictInv ==
    /\ VerdictTyped /\ SurfacesConsistent /\ OneReserves
    /\ \A a \in VerdictActors : ActorConsistent(a)

-----------------------------------------------------------------------------
(* Outcomes *)

Outcomes == {"success", "failure", "neutral", "partial", "cancelled", "superseded", "stale_head",
             "crashed", "not_published"}

\* Every outcome selects a verdict of both surfaces, and every one that a close selects is known.
LEMMA OutcomesSelect ==
  ASSUME VerdictTyped
  PROVE  /\ \A o \in Outcomes : ownVerdictSurfaces(o) \in Verdicts
         /\ resolveOwnVerdictForTerminalReview \in Outcomes
         /\ \A a : OwnOutcome(a) \in Outcomes
         /\ NoVerdict \notin Verdicts
         /\ \A s \in Verdicts : s.check \notin {"none", "open"} /\ s.status \notin {"none", "pending"}
<1>1. \A o \in Outcomes : ownVerdictSurfaces(o) \in Verdicts
  BY DEF Outcomes, ownVerdictSurfaces, Verdicts
<1>2. ownVerdictFromSummaryDetail(vSummary) \in Outcomes
  BY DEF ownVerdictFromSummaryDetail, Outcomes
<1>3. resolveOwnVerdictForTerminalReview \in Outcomes
  BY <1>2 DEF resolveOwnVerdictForTerminalReview, Outcomes
<1>4. ASSUME NEW a
      PROVE  OwnOutcome(a) \in Outcomes
  BY DEF OwnOutcome, closeOutcomeForCoverage, Outcomes
<1>5. NoVerdict \notin Verdicts
  BY DEF NoVerdict, Verdicts
<1>6. \A s \in Verdicts : s.check \notin {"none", "open"} /\ s.status \notin {"none", "pending"}
  BY DEF Verdicts
<1> QED
  BY <1>1, <1>3, <1>4, <1>5, <1>6

\* What a repairer reads back from a published summary is how the run that published it would
\* have closed (summaryCommentVerdictMeta, ownVerdictFromSummaryDetail).
LEMMA SummaryReadBack ==
  ASSUME NEW v \in Published
  PROVE  LET detail == summaryCommentVerdictMeta(v[1], v[2])
         IN  /\ ownVerdictFromSummaryDetail(detail) = closeOutcomeForCoverage(v[1], v[2])
             /\ detail # NoSummary
<1>1. v[1] \in BOOLEAN /\ v[2] \in {"success", "failure", "neutral"}
  BY VerdictAssumption
<1> DEFINE detail == summaryCommentVerdictMeta(v[1], v[2])
<1>2. /\ detail.reason = v[1] /\ detail.failing = (v[2] = "failure")
      /\ detail.incomplete = (v[2] = "neutral")
      /\ detail.kind = IF closeOutcomeForCoverage(v[1], v[2]) = "partial" THEN "partial" ELSE "published"
  BY DEF summaryCommentVerdictMeta
<1>3. NoSummary.kind = "none"
  BY DEF NoSummary
<1> HIDE DEF detail
<1>4. CASE v[1] /\ v[2] = "failure"
  BY <1>2, <1>3, <1>4 DEF closeOutcomeForCoverage, ownVerdictFromSummaryDetail, detail
<1>5. CASE v[1] /\ v[2] # "failure"
  <2>1. closeOutcomeForCoverage(v[1], v[2]) = "partial"
    BY <1>5 DEF closeOutcomeForCoverage
  <2>2. detail.kind = "partial" /\ detail.failing = FALSE /\ detail.reason = TRUE
    BY <1>1, <1>2, <1>5, <2>1
  <2>3. ownVerdictFromSummaryDetail(detail) = "partial"
    BY <2>2 DEF ownVerdictFromSummaryDetail
  <2>4. detail # NoSummary
    BY <1>3, <2>2
  <2> QED
    BY <2>1, <2>3, <2>4 DEF detail
<1>6. CASE ~v[1]
  BY <1>1, <1>2, <1>3, <1>6 DEF closeOutcomeForCoverage, ownVerdictFromSummaryDetail, detail
<1> QED
  BY <1>1, <1>4, <1>5, <1>6

-----------------------------------------------------------------------------
(* One actor's step *)

\* What a step of b owes the others: what is selected, recorded or accepted stays so, nobody
\* loses the lock or the reservation, and nobody joins another in the section.
Frame(b, q) ==
    /\ Selected => Selected'
    /\ vRow.id => vRow'.id
    /\ vRow'.epoch \in {vRow.epoch, b, Ack}
    /\ IntentAccepted("start") => vIntent'["start"] = "accepted"
    /\ VerdictTerminal => vItem' # "active"
    /\ \A a \in VerdictActors \ {b} :
         /\ vLock = {a} => vLock' = {a}
         /\ vPc[a] \in Section => vRow'.starting \/ vRow'.id
         /\ vPc[a] = "create" => vRow'.check # "skipped"
         /\ vPc[a] = "creating" => vIntent'["start"] = "mutating" /\ vGithub'.check = "none"
         /\ vPc[a] = "finished" => vIntent'["finish"] = "accepted"
         /\ q \in Section => vPc[b] \in Section \/ vPc[a] \notin Section

\* The actors are told apart.
LEMMA ActorsDiffer ==
  /\ Ack \in VerdictActors /\ Ack \notin Executions /\ Ack \notin Repairers
  /\ Executions \subseteq VerdictActors /\ Repairers \subseteq VerdictActors
  /\ \A a \in Executions : a \notin Repairers
  /\ \A a \in VerdictActors : a = Ack \/ a \in Executions \/ a \in Repairers
BY VerdictAssumption DEF Ack, Executions, Repairers, VerdictActors

\* A fault is one more, within the bound.
LEMMA FaultsBounded ==
  ASSUME vFaults \in 0 .. MaxVerdictFaults, VerdictFault \/ UNCHANGED vFaults
  PROVE  vFaults' \in 0 .. MaxVerdictFaults
BY VerdictAssumption DEF VerdictFault

\* A step that keeps to its frame and is consistent itself keeps the invariant.
LEMMA ActorKeeps ==
  ASSUME VerdictInv, NEW b \in VerdictActors, NEW q \in Pcs,
         vPc' = [vPc EXCEPT ![b] = q],
         VerdictTyped', SurfacesConsistent', ActorConsistent(b)', Frame(b, q)
  PROVE  VerdictInv'
<1>1. vPc'[b] = q /\ \A a \in VerdictActors \ {b} : vPc'[a] = vPc[a]
  BY DEF VerdictInv, VerdictTyped
<1>2. ASSUME NEW a \in VerdictActors, a # b
      PROVE  ActorConsistent(a)'
  <2>1. ActorConsistent(a) /\ vPc'[a] = vPc[a] /\ a \in VerdictActors \ {b}
    BY <1>1, <1>2 DEF VerdictInv
  <2>2. /\ vPc[a] \in Closing => vLock' = {a}
        /\ vPc[a] \in Deciding => Selected'
        /\ vPc[a] \in Section => vRow'.starting \/ vRow'.id
        /\ vPc[a] = "create" => vRow'.check # "skipped"
    BY <2>1 DEF ActorConsistent, Frame
  <2>3. /\ vPc[a] = "creating" => vIntent'["start"] = "mutating" /\ vGithub'.check = "none"
        /\ vPc[a] \in {"record", "orphan"} => vIntent'["start"] = "accepted"
        /\ vPc[a] = "finishing" => vRow'.id
        /\ vPc[a] = "finished" => vIntent'["finish"] = "accepted"
    BY <2>1 DEF ActorConsistent, Frame
  <2>4. a \in Executions /\ vPc[a] \in Early => vRow'.epoch # a
    BY <1>2, <2>1, ActorsDiffer DEF ActorConsistent, Frame
  <2>5. /\ a \in Repairers => /\ vPc[a] \in {"idle", "repair", "close"} \cup (Closing \ {"claimStale"})
                              /\ vPc[a] # "idle" => vItem' # "active"
        /\ a = Ack => vPc[a] \in Early \cup Section \cup {"pendingStatus", "pendingSent", "done", "dead"}
    BY <2>1 DEF ActorConsistent, Frame, VerdictTerminal
  <2> QED
    BY <2>1, <2>2, <2>3, <2>4, <2>5 DEF ActorConsistent, IntentAccepted, VerdictTerminal
<1>3. OneReserves'
  <2> SUFFICES ASSUME NEW a \in VerdictActors, NEW c \in VerdictActors,
                      vPc'[a] \in Section, vPc'[c] \in Section, a # c
               PROVE  FALSE
    BY DEF OneReserves
  <2>1. CASE a # b /\ c # b
    BY <1>1, <2>1 DEF VerdictInv, OneReserves
  <2>2. CASE a = b
    BY <1>1, <2>2 DEF VerdictInv, OneReserves, Frame
  <2>3. CASE c = b
    BY <1>1, <2>3 DEF VerdictInv, OneReserves, Frame
  <2> QED
    BY <2>1, <2>2, <2>3
<1> QED
  BY <1>2, <1>3 DEF VerdictInv

-----------------------------------------------------------------------------
(* pending(): the steps of the check run and of the pending status *)

\* The steps that move one actor and leave the row, the intents and GitHub alone.
LEMMA QuietStepsKeep ==
  ASSUME VerdictInv, NEW b \in VerdictActors,
         EnsureStarted(b) \/ PublishSummary(b) \/ Complete(b) \/ closeOpenOwnVerdict(b) \/ FailLostReview(b)
  PROVE  VerdictInv'
<1>1. UNCHANGED <<vRow, vIntent, vGithub, vLock, vFaults>>
  BY DEF EnsureStarted, PublishSummary, Complete, closeOpenOwnVerdict, FailLostReview
<1>2. /\ VerdictTyped /\ SurfacesConsistent /\ ActorConsistent(b)
      /\ vPc \in [VerdictActors -> Pcs] /\ vItem \in {"active", "completed", "failed", "cancelled"}
      /\ vLease \in 0 .. LastEpoch
  BY DEF VerdictInv, VerdictTyped
<1>3. SurfacesConsistent'
  BY <1>1, <1>2 DEF SurfacesConsistent, Selected, IntentAccepted, Sent, AppliedIsClosed, SurfacesAgree
<1> DEFINE Moved(q) == vPc' = [vPc EXCEPT ![b] = q] /\ q \in Pcs \ Section
<1>4. ASSUME NEW q, Moved(q), VerdictTyped', ActorConsistent(b)', VerdictTerminal => VerdictTerminal'
      PROVE  VerdictInv'
  <2>1. Frame(b, q)
    BY <1>1, <1>2, <1>4 DEF Frame, Selected, IntentAccepted, VerdictTerminal, VerdictInv, ActorConsistent
  <2> QED
    BY <1>3, <1>4, <2>1, ActorKeeps
<1>5. CASE EnsureStarted(b)
  <2>1. PICK q \in {"pendingStatus", "reserve"} : vPc' = [vPc EXCEPT ![b] = q]
    BY <1>5 DEF EnsureStarted, AtPc
  <2>2. vPc[b] = "begin" /\ UNCHANGED <<vItem, vLease, vSummary>>
    BY <1>5 DEF EnsureStarted
  <2>3. vPc'[b] = q /\ Moved(q)
    BY <1>2, <2>1 DEF Pcs, Early, Section
  <2>4. VerdictTyped'
    BY <1>1, <1>2, <2>2, <2>3 DEF VerdictTyped
  <2>5. ActorConsistent(b)'
    BY <1>1, <1>2, <2>2, <2>3, ActorsDiffer
    DEF ActorConsistent, Early, Section, Closing, Deciding, Selected
  <2> QED
    BY <1>4, <2>2, <2>3, <2>4, <2>5 DEF VerdictTerminal
<1>6. CASE PublishSummary(b)
  <2>1. PICK q \in {"close", "closeStale", "dead"} : vPc' = [vPc EXCEPT ![b] = q]
    BY <1>6 DEF PublishSummary, AtPc
  <2>2. vPc[b] = "review" /\ b \in Executions /\ UNCHANGED <<vItem, vLease>>
    BY <1>6 DEF PublishSummary
  <2>3. vPc'[b] = q /\ Moved(q)
    BY <1>2, <2>1 DEF Pcs, Section
  <2>4. VerdictTyped'
    BY <1>1, <1>2, <1>6, <2>2, <2>3 DEF VerdictTyped, PublishSummary
  <2>5. ActorConsistent(b)'
    BY <2>1, <2>2, <2>3, ActorsDiffer DEF ActorConsistent, Early, Section, Closing, Deciding
  <2> QED
    BY <1>4, <2>2, <2>3, <2>4, <2>5 DEF VerdictTerminal
<1>7. CASE Complete(b)
  <2>1. vPc' = [vPc EXCEPT ![b] = "done"] /\ vPc[b] = "complete" /\ UNCHANGED vSummary
    BY <1>7 DEF Complete, AtPc
  <2>2. /\ vItem' \in {"active", "completed", "failed", "cancelled"} /\ vLease' \in 0 .. LastEpoch
        /\ VerdictTerminal => VerdictTerminal'
    BY <1>2, <1>7, VerdictAssumption DEF Complete, VerdictTerminal
  <2>3. vPc'[b] = "done" /\ Moved("done")
    BY <1>2, <2>1 DEF Pcs, Section
  <2>4. VerdictTyped'
    BY <1>1, <1>2, <2>1, <2>2, <2>3 DEF VerdictTyped
  <2>5. b \notin Repairers
    BY <1>2, <2>1 DEF ActorConsistent, Closing, Deciding
  <2>6. ActorConsistent(b)'
    BY <2>3, <2>5 DEF ActorConsistent, Early, Section, Closing, Deciding
  <2> QED
    BY <1>4, <2>2, <2>3, <2>4, <2>6
<1>8. CASE closeOpenOwnVerdict(b) \/ FailLostReview(b)
  <2>1. PICK q \in {"close", "idle", "repair"} : vPc' = [vPc EXCEPT ![b] = q]
    BY <1>8 DEF closeOpenOwnVerdict, FailLostReview, AtPc
  <2>2. /\ vPc[b] \in {"repair", "idle"}
        /\ vPc[b] = "repair" \/ b \in Repairers
        /\ UNCHANGED vSummary
        /\ vItem' \in {"active", "completed", "failed", "cancelled"} /\ vLease' \in 0 .. LastEpoch
        /\ VerdictTerminal => VerdictTerminal'
        /\ q = "idle" \/ VerdictTerminal'
    BY <1>2, <1>8, <2>1, VerdictAssumption DEF closeOpenOwnVerdict, FailLostReview, VerdictTerminal,
       RepairOpen, AtPc
  <2>3. vPc'[b] = q /\ Moved(q)
    BY <1>2, <2>1 DEF Pcs, Section
  <2>4. VerdictTyped'
    BY <1>1, <1>2, <2>2, <2>3 DEF VerdictTyped
  <2>5. b # Ack
    BY <1>2, <2>2, ActorsDiffer DEF ActorConsistent, Early, Section
  <2>6. ActorConsistent(b)'
    BY <2>1, <2>2, <2>3, <2>5 DEF ActorConsistent, Early, Section, Closing, Deciding
  <2> QED
    BY <1>4, <2>2, <2>3, <2>4, <2>6
<1> QED
  BY <1>5, <1>6, <1>7, <1>8

\* Reserving the slot, recovering it and leaving the section.
LEMMA SlotStepsKeep ==
  ASSUME VerdictInv, NEW b \in VerdictActors,
         Reserve(b) \/ RecoverReservation(b) \/ RecordCheck(b) \/ ReleaseReservation(b)
  PROVE  VerdictInv'
<1>1. UNCHANGED <<vItem, vLease, vIntent, vGithub, vSummary, vLock>>
  BY DEF Reserve, RecoverReservation, RecordCheck, ReleaseReservation
<1>2. /\ VerdictTyped /\ SurfacesConsistent /\ ActorConsistent(b) /\ OneReserves
      /\ vPc \in [VerdictActors -> Pcs] /\ vRow \in CheckRows /\ vPc[b] \in Early \cup Section
      /\ \A a \in VerdictActors : vPc[a] \in Section => vRow.starting \/ vRow.id
  BY DEF VerdictInv, VerdictTyped, ActorConsistent, Reserve, RecoverReservation, RecordCheck,
     ReleaseReservation, Early, Section
<1>3. vFaults' \in 0 .. MaxVerdictFaults
  <2>1. VerdictFault \/ UNCHANGED vFaults
    BY DEF Reserve, RecoverReservation, RecordCheck, ReleaseReservation
  <2> QED
    BY <1>2, <2>1, FaultsBounded DEF VerdictTyped
<1>4. b \notin Repairers
  BY <1>2 DEF ActorConsistent, Early, Section, Closing, Deciding
<1> DEFINE Rested == UNCHANGED vRow
           Reserved == /\ vRow' = [vRow EXCEPT !.present = TRUE, !.starting = TRUE,
                                               !.epoch = IF b \in Executions THEN b ELSE @]
                       /\ Reservable
           RecordedId == vRow' = RecordedRow(b) /\ IntentAccepted("start") /\ vPc[b] = "record"
           Freed == /\ vRow' = ReleasedRow /\ ~vRow.id
                    /\ \A a \in VerdictActors \ {b} : vPc[a] \notin Section
<1>5. ASSUME NEW q \in Early \cup Section \cup {"pendingStatus", "dead"},
             vPc' = [vPc EXCEPT ![b] = q],
             Rested \/ Reserved \/ RecordedId \/ Freed,
             q \in Early => \/ q = "reserveAgain" /\ Freed /\ (b \in Executions => vRow.epoch # b)
                            \/ q = "recover" /\ Rested /\ vPc[b] \in Early,
             q \in Section => \/ Reserved /\ q = "create"
                              \/ Rested /\ vPc[b] \in Section /\ q \in {"orphan", "release"},
             q = "orphan" => vPc[b] = "record"
      PROVE  VerdictInv'
  <2>1. q \in Pcs /\ vPc'[b] = q /\ vPc' \in [VerdictActors -> Pcs]
    BY <1>2, <1>5 DEF Pcs
  <2>2. /\ vRow' \in CheckRows
        /\ vRow'.epoch \in {vRow.epoch, b, Ack}
        /\ vRow'.sel = vRow.sel /\ vRow'.check = vRow.check /\ (vRow.id => vRow'.id)
        /\ Selected => vRow'.present
        /\ ~vRow'.present => ~vRow'.starting /\ ~vRow'.id
        /\ vRow'.id => vRow.id \/ IntentAccepted("start")
    <3>1. CASE Rested
      BY <1>2, <3>1 DEF SurfacesConsistent
    <3>2. CASE Reserved
      <4> DEFINE e == IF b \in Executions THEN b ELSE vRow.epoch
      <4>1. e \in 0 .. LastEpoch /\ e \in {vRow.epoch, b}
        BY <1>2, VerdictAssumption DEF Executions, CheckRows
      <4>2. vRow' = [vRow EXCEPT !.present = TRUE, !.starting = TRUE, !.epoch = e]
        BY <3>2
      <4> HIDE DEF e
      <4> QED
        BY <1>2, <3>2, <4>1, <4>2 DEF CheckRows
    <3>3. CASE RecordedId
      <4> DEFINE e == IF b \in Executions THEN b ELSE vRow.epoch
      <4>1. e \in 0 .. LastEpoch /\ e \in {vRow.epoch, b}
        BY <1>2, VerdictAssumption DEF Executions, CheckRows
      <4>2. vRow' = [vRow EXCEPT !.present = TRUE, !.id = TRUE, !.starting = FALSE, !.epoch = e]
        BY <3>3 DEF RecordedRow
      <4> HIDE DEF e
      <4> QED
        BY <1>2, <3>3, <4>1, <4>2 DEF CheckRows
    <3>4. CASE Freed /\ Selected
      <4>1. vRow' = [vRow EXCEPT !.starting = FALSE]
        BY <3>4 DEF ReleasedRow
      <4> QED
        BY <1>2, <3>4, <4>1 DEF CheckRows, SurfacesConsistent
    <3>5. CASE Freed /\ ~Selected
      <4>1. vRow' = NoCheckRow /\ vRow.sel = NoVerdict /\ vRow.check = "open"
        BY <1>2, <3>5 DEF ReleasedRow, SurfacesConsistent, Selected
      <4> QED
        BY <1>2, <3>5, <4>1, VerdictAssumption DEF CheckRows, NoCheckRow, Surface, Ack
    <3> QED
      BY <1>5, <3>1, <3>2, <3>3, <3>4, <3>5
  <2>9. Rested \/ Freed => vRow'.epoch \in {vRow.epoch, Ack}
    BY <1>2 DEF ReleasedRow, NoCheckRow, CheckRows, Ack
  <2>3. /\ Reserved => vRow'.starting /\ ~vRow.starting /\ ~vRow.id /\ vRow.check # "skipped"
        /\ RecordedId => vRow'.id
    BY <1>2 DEF Reservable, RecordedRow, CheckRows, SurfacesConsistent, Surface
  <2>4. VerdictTyped'
    BY <1>1, <1>2, <1>3, <2>1, <2>2 DEF VerdictTyped
  <2>5. SurfacesConsistent'
    BY <1>1, <1>2, <2>2 DEF SurfacesConsistent, Selected, IntentAccepted, Sent, AppliedIsClosed,
       SurfacesAgree
  <2>6. ASSUME NEW a \in VerdictActors \ {b}
        PROVE  /\ vPc[a] \in Section => vRow'.starting \/ vRow'.id
               /\ vPc[a] = "create" => vRow'.check # "skipped"
               /\ q \in Section => vPc[b] \in Section \/ vPc[a] \notin Section
               /\ vPc[a] = "creating" => vIntent["start"] = "mutating" /\ vGithub.check = "none"
               /\ vPc[a] = "finished" => vIntent["finish"] = "accepted"
    BY <1>2, <1>5, <2>2, <2>3 DEF VerdictInv, ActorConsistent, IntentAccepted
  <2>7. Frame(b, q)
    BY <1>1, <2>2, <2>6 DEF Frame, Selected, IntentAccepted, VerdictTerminal
  <2>8. ActorConsistent(b)'
    <3>1. q \in Section => vRow'.starting \/ vRow'.id
      BY <1>2, <1>5, <2>3
    <3>2. q = "create" => vRow'.check # "skipped"
      BY <1>5, <2>2, <2>3
    <3>3. q = "orphan" => vIntent'["start"] = "accepted"
      BY <1>1, <1>2, <1>5 DEF ActorConsistent, IntentAccepted
    <3>4. b \in Executions /\ q \in Early => vRow'.epoch # b
      <4>1. vPc[b] \in Early /\ b \in Executions => vRow.epoch # b
        BY <1>2 DEF ActorConsistent
      <4> QED
        BY <1>5, <2>9, <4>1, ActorsDiffer
    <3>5. q \notin {"creating", "record", "finishing", "finished"} /\ q \notin Closing
          /\ q \in Early \cup Section \cup {"pendingStatus", "pendingSent", "done", "dead"}
      BY <1>5 DEF Early, Section, Closing, Deciding
    <3> QED
      BY <1>4, <2>1, <3>1, <3>2, <3>3, <3>4, <3>5 DEF ActorConsistent, IntentAccepted, Closing
  <2> QED
    BY <1>5, <2>1, <2>4, <2>5, <2>7, <2>8, ActorKeeps
<1> HIDE DEF Rested, Reserved, RecordedId, Freed
<1>6. CASE Reserve(b)
  <2>1. vPc[b] \in Early
    BY <1>6 DEF Reserve, Early
  <2>2. PICK q \in {"dead", "create", "recover", "pendingStatus"} :
          /\ vPc' = [vPc EXCEPT ![b] = q]
          /\ q = "create" => Reserved
          /\ q # "create" => Rested
    BY <1>6 DEF Reserve, AtPc, Reserved, Rested
  <2> QED
    BY <1>5, <2>1, <2>2 DEF Early, Section
<1>7. CASE RecoverReservation(b)
  <2>1. vPc[b] \in Early
    BY <1>7 DEF RecoverReservation, Early
  <2>2. b \in Executions => vRow.epoch # b
    BY <1>2, <2>1 DEF ActorConsistent
  <2>3. Releasable(b, TRUE) /\ vRow' = ReleasedRow => Freed
    BY <2>2 DEF Releasable, Freed, StaleReservation, Section
  <2>4. PICK q \in {"dead", "reserveAgain", "pendingStatus"} :
          /\ vPc' = [vPc EXCEPT ![b] = q]
          /\ q = "reserveAgain" => Freed
          /\ q # "reserveAgain" => Rested
    BY <1>7, <2>3 DEF RecoverReservation, AtPc, Rested
  <2> QED
    BY <1>5, <2>1, <2>2, <2>4 DEF Early, Section
<1>8. CASE RecordCheck(b)
  <2>1. vPc[b] = "record"
    BY <1>8 DEF RecordCheck
  <2>2. IntentAccepted("start")
    BY <1>2, <2>1 DEF ActorConsistent
  <2>3. PICK q \in {"orphan", "pendingStatus"} :
          /\ vPc' = [vPc EXCEPT ![b] = q]
          /\ q = "orphan" => Rested
          /\ q # "orphan" => RecordedId
    BY <1>8, <2>1, <2>2 DEF RecordCheck, AtPc, Rested, RecordedId
  <2> QED
    BY <1>5, <2>1, <2>3 DEF Early, Section
<1>9. CASE ReleaseReservation(b)
  <2>1. vPc[b] \in Section
    BY <1>9 DEF ReleaseReservation, Section
  <2>2. Releasable(b, FALSE) /\ vRow' = ReleasedRow => Freed
    BY <1>2, <2>1 DEF Releasable, Freed, OneReserves
  <2>3. PICK q \in {"dead", "pendingStatus"} : vPc' = [vPc EXCEPT ![b] = q]
    BY <1>9 DEF ReleaseReservation, AtPc
  <2>4. Freed \/ Rested
    BY <1>9, <2>2 DEF ReleaseReservation, Rested
  <2> QED
    BY <1>5, <2>3, <2>4 DEF Early, Section
<1> QED
  BY <1>6, <1>7, <1>8, <1>9

\* Sending the check run and the pending status, and what their answers leave.
LEMMA SendingStepsKeep ==
  ASSUME VerdictInv, NEW b \in VerdictActors,
         \/ CreateCheck(b) \/ CheckCreated(b) \/ cancelOrphanedCheckRunAfterRecordFailure(b)
         \/ WritePendingStatus(b) \/ PendingStatusWritten(b)
  PROVE  VerdictInv'
<1>1. UNCHANGED <<vItem, vLease, vRow, vSummary, vLock>>
  BY DEF CreateCheck, CheckCreated, cancelOrphanedCheckRunAfterRecordFailure, WritePendingStatus,
     PendingStatusWritten
<1>2. /\ VerdictTyped /\ SurfacesConsistent /\ ActorConsistent(b) /\ OneReserves
      /\ vPc \in [VerdictActors -> Pcs] /\ vPc[b] \in Section \cup {"pendingStatus", "pendingSent"}
      /\ vIntent \in [{"start", "finish", "pending", "status"} -> Intents]
  BY DEF VerdictInv, VerdictTyped, CreateCheck, CheckCreated, WritePendingStatus, Section,
     cancelOrphanedCheckRunAfterRecordFailure, PendingStatusWritten
<1>3. vFaults' \in 0 .. MaxVerdictFaults
  <2>1. VerdictFault \/ UNCHANGED vFaults
    BY DEF CreateCheck, CheckCreated, cancelOrphanedCheckRunAfterRecordFailure, WritePendingStatus,
       PendingStatusWritten
  <2> QED
    BY <1>2, <2>1, FaultsBounded DEF VerdictTyped
<1>4. b \notin Repairers
  BY <1>2 DEF ActorConsistent, Early, Section, Closing, Deciding
<1> DEFINE Answered(i, g) == /\ vIntent' = [vIntent EXCEPT !["start"] = i]
                             /\ vGithub' = [vGithub EXCEPT !.check = g]
           StatusOnly == /\ vIntent'["start"] = vIntent["start"] /\ vIntent'["finish"] = vIntent["finish"]
                         /\ vGithub'.check = vGithub.check /\ vGithub'.orphaned = vGithub.orphaned
                         /\ vGithub'.status \in {vGithub.status, "pending"}
<1>5. ASSUME NEW q \in Section \cup {"pendingSent", "review", "done"},
             vPc' = [vPc EXCEPT ![b] = q], VerdictTyped', SurfacesConsistent',
             IntentAccepted("start") => vIntent'["start"] = "accepted",
             vIntent'["finish"] = vIntent["finish"],
             StatusOnly \/ vPc[b] \in Section,
             q \in Section => vPc[b] \in Section /\ q \in {"creating", "record", "release"},
             q = "creating" => vIntent'["start"] = "mutating" /\ vGithub'.check = "none",
             q = "record" => vIntent'["start"] = "accepted",
             q = "review" => b # Ack
      PROVE  VerdictInv'
  <2>1. q \in Pcs /\ vPc'[b] = q
    BY <1>2, <1>5 DEF Pcs
  <2>2. ASSUME NEW a \in VerdictActors \ {b}, vPc[a] = "creating"
        PROVE  vIntent'["start"] = "mutating" /\ vGithub'.check = "none"
    <3>1. vPc[a] \in Section /\ vPc[b] \notin Section
      BY <1>2, <2>2 DEF OneReserves, Section
    <3>2. vIntent["start"] = "mutating" /\ vGithub.check = "none"
      BY <2>2 DEF VerdictInv, ActorConsistent
    <3> QED
      BY <1>5, <3>1, <3>2
  <2>3. ASSUME NEW a \in VerdictActors \ {b}
        PROVE  /\ vPc[a] \in Section => vRow.starting \/ vRow.id
               /\ vPc[a] = "create" => vRow.check # "skipped"
               /\ vPc[a] = "finished" => vIntent["finish"] = "accepted"
    BY DEF VerdictInv, ActorConsistent, IntentAccepted
  <2>4. Frame(b, q)
    BY <1>1, <1>5, <2>2, <2>3 DEF Frame, Selected, VerdictTerminal
  <2>5. ActorConsistent(b)'
    <3>1. q \in Section => vRow'.starting \/ vRow'.id
      BY <1>1, <1>2, <1>5 DEF ActorConsistent
    <3>2. q \notin Closing /\ q \notin Early /\ q \notin {"create", "orphan"}
          /\ (q # "review" => q \in Section \cup {"pendingSent", "done"})
      BY <1>5 DEF Early, Section, Closing, Deciding
    <3> QED
      BY <1>4, <1>5, <2>1, <3>1, <3>2 DEF ActorConsistent, IntentAccepted, Closing, Deciding
  <2> QED
    BY <1>5, <2>1, <2>4, <2>5, ActorKeeps
<1>6. CASE CreateCheck(b)
  <2>1. vPc[b] = "create" /\ UNCHANGED vGithub /\ vRow.check # "skipped"
    BY <1>2, <1>6 DEF CreateCheck, ActorConsistent
  <2>2. PICK q \in {"release", "record", "creating"} :
          /\ vPc' = [vPc EXCEPT ![b] = q]
          /\ q = "release" => UNCHANGED vIntent
          /\ q = "record" => vIntent' = [vIntent EXCEPT !["start"] = "accepted"]
          /\ q = "creating" => /\ vIntent' = [vIntent EXCEPT !["start"] = "mutating"]
                               /\ ~IntentAccepted("start")
                               /\ vIntent["start"] \notin {"unknown", "mutating"} \/ vGithub.check = "none"
    BY <1>6 DEF CreateCheck, AtPc
  <2>3. q = "creating" => vGithub.check = "none" /\ ~vRow.id
    BY <1>2, <2>2 DEF SurfacesConsistent, Sent, IntentAccepted
  <2>4. VerdictTyped'
    BY <1>1, <1>2, <1>3, <2>1, <2>2 DEF VerdictTyped, Pcs, Section, Intents
  <2>5. SurfacesConsistent'
    BY <1>1, <1>2, <2>1, <2>2, <2>3
    DEF SurfacesConsistent, Selected, IntentAccepted, Sent, AppliedIsClosed, SurfacesAgree
  <2> QED
    BY <1>2, <1>5, <2>1, <2>2, <2>3, <2>4, <2>5 DEF Section, IntentAccepted
<1>7. CASE CheckCreated(b)
  <2>1. /\ vPc[b] = "creating" /\ vIntent["start"] = "mutating" /\ vGithub.check = "none"
        /\ vRow.check = "open" /\ ~vRow.id /\ vIntent["finish"] # "accepted"
    BY <1>2, <1>7 DEF CheckCreated, ActorConsistent, SurfacesConsistent, Sent, IntentAccepted,
       AppliedIsClosed, VerdictTyped, CheckRows, Surface
  <2>2. PICK q \in {"release", "record"}, i \in {"accepted", "failed", "unknown"} :
          /\ vPc' = [vPc EXCEPT ![b] = q] /\ vIntent' = [vIntent EXCEPT !["start"] = i]
          /\ \/ i # "failed" /\ vGithub' = [vGithub EXCEPT !.check = "open"]
             \/ i # "accepted" /\ UNCHANGED vGithub
          /\ q = "record" => i = "accepted"
    BY <1>7 DEF CheckCreated, AtPc
  <2>3. VerdictTyped'
    BY <1>1, <1>2, <1>3, <2>2 DEF VerdictTyped, Pcs, Section, Intents, GithubStates
  <2>4. SurfacesConsistent'
    <3>1. /\ vIntent'["start"] = i /\ vIntent'["finish"] = vIntent["finish"]
          /\ vGithub'.check \in {"none", "open"} /\ (vGithub'.check = "open" => i # "failed")
          /\ vGithub'.status = vGithub.status
      BY <1>2, <2>1, <2>2 DEF VerdictTyped, GithubStates
    <3> QED
      BY <1>1, <1>2, <2>1, <2>2, <3>1
      DEF SurfacesConsistent, Selected, IntentAccepted, Sent, AppliedIsClosed, SurfacesAgree
  <2> QED
    BY <1>2, <1>5, <2>1, <2>2, <2>3, <2>4 DEF Section, IntentAccepted
<1>8. CASE cancelOrphanedCheckRunAfterRecordFailure(b)
  <2>1. vPc[b] = "orphan" /\ IntentAccepted("start") /\ UNCHANGED vIntent
        /\ vPc' = [vPc EXCEPT ![b] = "release"]
    BY <1>2, <1>8 DEF cancelOrphanedCheckRunAfterRecordFailure, AtPc, ActorConsistent
  <2>2. \/ vGithub' = [vGithub EXCEPT !.check = "cancelled", !.orphaned = TRUE]
        \/ UNCHANGED vGithub
    BY <1>8 DEF cancelOrphanedCheckRunAfterRecordFailure
  <2>3. VerdictTyped'
    BY <1>1, <1>2, <1>3, <2>1, <2>2 DEF VerdictTyped, Pcs, Section, GithubStates
  <2>4. SurfacesConsistent'
    BY <1>1, <1>2, <2>1, <2>2
    DEF SurfacesConsistent, Selected, IntentAccepted, Sent, AppliedIsClosed, SurfacesAgree, VerdictTyped, GithubStates
  <2> QED
    BY <1>2, <1>5, <2>1, <2>2, <2>3, <2>4 DEF Section, IntentAccepted
<1>9. CASE WritePendingStatus(b) \/ PendingStatusWritten(b)
  <2>1. PICK q \in {"pendingSent", AfterPending(b)} : vPc' = [vPc EXCEPT ![b] = q]
    BY <1>9 DEF WritePendingStatus, PendingStatusWritten, AtPc
  <2>2. q \in {"pendingSent", "review", "done"} /\ (q = "review" => b # Ack)
    BY <2>1 DEF AfterPending
  <2>3. \/ UNCHANGED vIntent
        \/ \E i \in {"mutating", "accepted", "failed"} : vIntent' = [vIntent EXCEPT !["pending"] = i]
    BY <1>9 DEF WritePendingStatus, PendingStatusWritten
  <2>4. UNCHANGED vGithub \/ vGithub' = [vGithub EXCEPT !.status = "pending"]
    BY <1>9 DEF WritePendingStatus, PendingStatusWritten
  <2>5. StatusOnly
    BY <1>2, <2>3, <2>4 DEF VerdictTyped, GithubStates
  <2>6. VerdictTyped'
    BY <1>1, <1>2, <1>3, <2>1, <2>2, <2>3, <2>4 DEF VerdictTyped, Pcs, Intents, GithubStates
  <2>7. SurfacesConsistent'
    BY <1>1, <1>2, <2>5
    DEF SurfacesConsistent, Selected, IntentAccepted, Sent, AppliedIsClosed, SurfacesAgree
  <2>8. q \notin Section
    BY <2>2 DEF Section
  <2> QED
    BY <1>5, <2>1, <2>2, <2>5, <2>6, <2>7, <2>8 DEF IntentAccepted
<1> QED
  BY <1>6, <1>7, <1>8, <1>9

-----------------------------------------------------------------------------
(* close(): the steps under the lock *)

\* A row that records the check run of a saved start keeps everything else.
LEMMA RecordedRowKeeps ==
  ASSUME VerdictTyped, NEW b \in VerdictActors
  PROVE  /\ RecordedRow(b) \in CheckRows /\ RecordedRow(b).present /\ RecordedRow(b).id
         /\ RecordedRow(b).epoch \in {vRow.epoch, b}
         /\ RecordedRow(b).sel = vRow.sel /\ RecordedRow(b).check = vRow.check
         /\ RecordedRow(b).status = vRow.status /\ RecordedRow(b).starting = FALSE
<1> DEFINE e == IF b \in Executions THEN b ELSE vRow.epoch
<1>1. e \in 0 .. LastEpoch /\ e \in {vRow.epoch, b} /\ vRow \in CheckRows
  BY VerdictAssumption DEF Executions, CheckRows, VerdictTyped
<1>2. RecordedRow(b) = [vRow EXCEPT !.present = TRUE, !.id = TRUE, !.starting = FALSE, !.epoch = e]
  BY DEF RecordedRow
<1> HIDE DEF e
<1> QED
  BY <1>1, <1>2 DEF CheckRows

\* A step of the lock's holder, or one that takes the free lock: where it goes, what becomes of
\* the lock, and what it leaves of the row, the intents and GitHub.
HolderMoves(b, q) ==
    /\ vPc' = [vPc EXCEPT ![b] = q] /\ UNCHANGED <<vItem, vLease, vSummary>> /\ b # Ack
    /\ q \in Closing \cup {"idle", "complete", "dead"}
    /\ vPc[b] \in Closing \/ vLock = {} \/ UNCHANGED <<vLock, vIntent>>
    /\ vLock' = vLock \/ vLock' = {} \/ vLock' = {b}
    /\ vLock' = {} => vPc[b] \in Closing
    /\ vLock' = {b} => vLock = {b} \/ vLock = {}
    /\ q \in Closing => vLock' = {b}
    /\ q \in Deciding => Selected'
    /\ b \in Repairers => q \notin {"claimStale", "complete", "dead"} /\ (q = "idle" \/ VerdictTerminal)
    /\ q = "finishing" => vRow'.id
    /\ q = "finished" => vIntent'["finish"] = "accepted"

HolderLeaves(b) ==
    /\ vRow' \in CheckRows /\ (Selected => Selected') /\ (vRow.id => vRow'.id)
    /\ vRow'.epoch \in {vRow.epoch, b, Ack}
    /\ vRow'.starting = vRow.starting \/ vRow'.id
    /\ vRow'.check = "skipped" => vRow.check = "skipped" \/ (~vRow.starting /\ ~vRow.id)
    /\ vIntent' \in [{"start", "finish", "pending", "status"} -> Intents]
    /\ vIntent'["start"] = vIntent["start"]
    /\ vGithub' \in GithubStates
    /\ vGithub'.check = vGithub.check \/ vRow.id
    /\ vFaults' \in 0 .. MaxVerdictFaults

\* Such a step keeps the invariant when the surfaces stay consistent.
LEMMA HolderKeeps ==
  ASSUME VerdictInv, NEW b \in VerdictActors, NEW q, HolderMoves(b, q), HolderLeaves(b),
         SurfacesConsistent'
  PROVE  VerdictInv'
<1>1. /\ VerdictTyped /\ SurfacesConsistent /\ ActorConsistent(b) /\ OneReserves
      /\ vPc \in [VerdictActors -> Pcs] /\ vRow \in CheckRows
  BY DEF VerdictInv, VerdictTyped
<1>2. q \in Pcs /\ vPc'[b] = q /\ q \notin Section /\ q \notin Early
  BY <1>1 DEF HolderMoves, Pcs, Section, Early, Closing, Deciding
<1>3. VerdictTyped'
  BY <1>1, <1>2 DEF VerdictTyped, HolderMoves, HolderLeaves
<1>4. vPc[b] \in Closing => vLock = {b}
  BY <1>1 DEF ActorConsistent
<1>5. ASSUME NEW a \in VerdictActors \ {b}
      PROVE  /\ vLock = {a} => vLock' = {a}
             /\ vPc[a] \in Section => vRow'.starting \/ vRow'.id
             /\ vPc[a] = "create" => vRow'.check # "skipped"
             /\ vPc[a] = "creating" => vIntent'["start"] = "mutating" /\ vGithub'.check = "none"
             /\ vPc[a] = "finished" => vIntent'["finish"] = "accepted"
  <2>1. /\ vPc[a] \in Section => vRow.starting \/ vRow.id
        /\ vPc[a] = "create" => vRow.check # "skipped" /\ vPc[a] \in Section
        /\ vPc[a] = "creating" => vIntent["start"] = "mutating" /\ vGithub.check = "none"
        /\ vPc[a] = "finished" => vIntent["finish"] = "accepted" /\ vLock = {a}
    BY DEF VerdictInv, ActorConsistent, IntentAccepted, Section, Closing, Deciding
  <2>2. vLock = {a} => vLock' = {a} /\ UNCHANGED vIntent
    BY <1>4 DEF HolderMoves
  <2>3. vPc[a] = "creating" => ~vRow.id
    BY <1>1, <2>1 DEF SurfacesConsistent, IntentAccepted
  <2> QED
    BY <1>1, <2>1, <2>2, <2>3 DEF CheckRows, HolderLeaves
<1>6. Frame(b, q)
  BY <1>2, <1>5 DEF Frame, IntentAccepted, VerdictTerminal, HolderMoves, HolderLeaves
<1>7. ActorConsistent(b)'
  BY <1>2 DEF HolderMoves, ActorConsistent, Section, Closing, Deciding, IntentAccepted, VerdictTerminal
<1> QED
  BY <1>2, <1>3, <1>6, <1>7, ActorKeeps DEF HolderMoves

\* What every step under the lock starts from.
LEMMA HolderFacts ==
  ASSUME VerdictInv, NEW b \in VerdictActors
  PROVE  /\ VerdictTyped /\ SurfacesConsistent /\ ActorConsistent(b)
         /\ vRow \in CheckRows /\ vIntent \in [{"start", "finish", "pending", "status"} -> Intents]
         /\ vRow.sel \in Verdicts \cup {NoVerdict}
         /\ Selected => vRow.sel.check \notin {"none", "open"} /\ vRow.sel \in Verdicts
         /\ vPc[b] \in Closing => vLock = {b} /\ b # Ack
         /\ vPc[b] \in Deciding => Selected
         /\ b \in Repairers /\ vPc[b] # "idle" => VerdictTerminal
         /\ vPc[b] \in {"idle", "close", "closeStale"} => b # Ack
<1>1. VerdictTyped /\ SurfacesConsistent /\ ActorConsistent(b) /\ vRow.sel \in Verdicts \cup {NoVerdict}
  BY DEF VerdictInv, VerdictTyped, CheckRows
<1>2. Selected => vRow.sel.check \notin {"none", "open"} /\ vRow.sel \in Verdicts
  BY <1>1, OutcomesSelect DEF Selected
<1> QED
  BY <1>1, <1>2 DEF ActorConsistent, VerdictTyped, Early, Section, Closing, Deciding

\* Taking the lock and giving it back; selecting; and what an access-less close records.
LEMMA SelectingStepsKeep ==
  ASSUME VerdictInv, NEW b \in VerdictActors,
         BeginClose(b) \/ UnlockClose(b) \/ claimOwnVerdict(b) \/ RecordSkipped(b) \/ RecordSurfaceApplied(b)
  PROVE  VerdictInv'
<1>1. UNCHANGED <<vItem, vLease, vIntent, vGithub, vSummary, vFaults>>
  BY DEF BeginClose, UnlockClose, claimOwnVerdict, RecordSkipped, RecordSurfaceApplied
<1>2. /\ VerdictTyped /\ SurfacesConsistent /\ ActorConsistent(b) /\ vRow \in CheckRows
      /\ Selected => vRow.sel.check \notin {"none", "open"} /\ vRow.sel \in Verdicts
      /\ vPc[b] \in Closing => vLock = {b} /\ b # Ack
      /\ vPc[b] \in Deciding => Selected
      /\ b \in Repairers /\ vPc[b] # "idle" => VerdictTerminal
      /\ vPc[b] \in {"idle", "close", "closeStale"} => b # Ack
  BY HolderFacts
<1>3. /\ vRow.epoch \in {vRow.epoch, b, Ack} /\ vFaults' \in 0 .. MaxVerdictFaults
      /\ vIntent' \in [{"start", "finish", "pending", "status"} -> Intents]
      /\ vIntent'["start"] = vIntent["start"]
      /\ vGithub' \in GithubStates
      /\ vGithub'.check = vGithub.check
  BY <1>1, <1>2 DEF VerdictTyped
<1>4. CASE BeginClose(b)
  <2>1. PICK q \in {"claim", "claimStale", "idle", "complete"} : vPc' = [vPc EXCEPT ![b] = q]
    BY <1>4 DEF BeginClose, AtPc
  <2>2. /\ UNCHANGED vRow /\ vPc[b] \in {"close", "closeStale", "idle"}
        /\ \/ vLock = {} /\ vLock' = {b} /\ q \in {"claim", "claimStale"}
           \/ vLock # {} /\ UNCHANGED vLock /\ q \in {"idle", "complete"}
        /\ b \in Repairers /\ q # "idle" => q = "claim" /\ VerdictTerminal
    <3>1. vPc'[b] = q
      BY <1>2, <2>1 DEF VerdictTyped
    <3>2. b \in Repairers => vPc[b] # "closeStale"
      BY <1>2 DEF ActorConsistent, Closing, Deciding
    <3>3. /\ UNCHANGED vRow /\ vPc[b] \in {"close", "closeStale", "idle"}
          /\ vPc[b] = "idle" => VerdictTerminal
      BY <1>4 DEF BeginClose, RepairOpen
    <3>4. CASE vLock = {}
      <4>1. vLock' = {b} /\ vPc'[b] = IF vPc[b] = "closeStale" THEN "claimStale" ELSE "claim"
        BY <1>2, <1>4, <3>4 DEF BeginClose, AtPc, VerdictTyped
      <4> QED
        BY <1>2, <3>1, <3>2, <3>3, <3>4, <4>1
    <3>5. CASE vLock # {}
      <4>1. UNCHANGED vLock /\ vPc'[b] = IF b \in Repairers THEN "idle" ELSE "complete"
        BY <1>2, <1>4, <3>5 DEF BeginClose, AtPc, VerdictTyped
      <4> QED
        BY <3>1, <3>3, <3>5, <4>1
    <3> QED
      BY <3>4, <3>5
  <2>3. SurfacesConsistent'
    BY <1>1, <1>2, <2>2 DEF SurfacesConsistent, Selected, IntentAccepted, Sent, AppliedIsClosed, SurfacesAgree
  <2>4. Selected => Selected'
    BY <2>2 DEF Selected
  <2>5. q \in Closing \cup {"idle", "complete", "dead"} /\ q \notin Deciding
        /\ (q \in Closing => vLock' = {b}) /\ vLock' # {}
    BY <2>2 DEF Closing, Deciding
  <2>6. HolderMoves(b, q)
    BY <1>1, <1>2, <1>3, <2>1, <2>2, <2>3, <2>4, <2>5 DEF HolderMoves
  <2>7. HolderLeaves(b)
    BY <1>1, <1>2, <1>3, <2>1, <2>2, <2>3, <2>4, <2>5 DEF HolderLeaves
  <2> QED
    BY <2>6, <2>7, <2>3, HolderKeeps
<1>5. CASE UnlockClose(b)
  <2>1. PICK q \in {"idle", "complete"} :
          vPc' = [vPc EXCEPT ![b] = q] /\ (b \in Repairers => q = "idle")
    BY <1>5 DEF UnlockClose, AtPc
  <2>2. UNCHANGED vRow /\ vPc[b] \in Closing /\ vLock = {b} /\ vLock' = {}
    BY <1>2, <1>5 DEF UnlockClose, Closing, Deciding
  <2>3. SurfacesConsistent'
    BY <1>1, <1>2, <2>2 DEF SurfacesConsistent, Selected, IntentAccepted, Sent, AppliedIsClosed, SurfacesAgree
  <2>4. Selected => Selected'
    BY <2>2 DEF Selected
  <2>5. q \in Closing \cup {"idle", "complete", "dead"} /\ q \notin Deciding /\ q \notin Closing
    BY DEF Closing, Deciding
  <2>6. HolderMoves(b, q)
    BY <1>1, <1>2, <1>3, <2>1, <2>2, <2>3, <2>4, <2>5 DEF HolderMoves
  <2>7. HolderLeaves(b)
    BY <1>1, <1>2, <1>3, <2>1, <2>2, <2>3, <2>4, <2>5 DEF HolderLeaves
  <2> QED
    BY <2>6, <2>7, <2>3, HolderKeeps
<1>6. CASE claimOwnVerdict(b)
  <2>1. vPc[b] \in Closing /\ vLock = {b} /\ b # Ack /\ (b \in Repairers => VerdictTerminal)
        /\ vPc[b] \in {"claim", "claimStale"} /\ b \in VerdictActors
    BY <1>2, <1>6 DEF claimOwnVerdict, Closing, Deciding
  <2>2. CASE ~VerdictFenced(b)
    <3>1. vPc' = [vPc EXCEPT ![b] = "dead"] /\ vLock' = {} /\ UNCHANGED vRow
      BY <1>6, <2>1, <2>2 DEF claimOwnVerdict, AtPc
    <3>2. b \notin Repairers
      BY <2>2, ActorsDiffer DEF VerdictFenced
    <3>3. SurfacesConsistent'
      BY <1>1, <1>2, <3>1 DEF SurfacesConsistent, Selected, IntentAccepted, Sent, AppliedIsClosed, SurfacesAgree
    <3>4. Selected => Selected'
      BY <3>1 DEF Selected
    <3>5. "dead" \notin Deciding /\ "dead" \notin Closing
      BY DEF Closing, Deciding
    <3>6. HolderMoves(b, "dead")
      BY <1>1, <1>2, <1>3, <2>1, <3>1, <3>2, <3>3, <3>4, <3>5 DEF HolderMoves
    <3>7. HolderLeaves(b)
      BY <1>1, <1>2, <1>3, <2>1, <3>1, <3>2, <3>3, <3>4, <3>5 DEF HolderLeaves
    <3> QED
      BY <3>6, <3>7, <3>3, HolderKeeps
  <2>3. CASE VerdictFenced(b)
    <3>1. PICK o \in Outcomes : vRow' = ClaimedRow(b, o)
      BY <1>2, <1>6, <2>3, OutcomesSelect DEF claimOwnVerdict
    <3>2. vPc' = [vPc EXCEPT ![b] = "finish"] /\ UNCHANGED vLock
      BY <1>6, <2>3 DEF claimOwnVerdict, AtPc
    <3> DEFINE r == IF IntentAccepted("start") /\ ~vRow.id THEN RecordedRow(b) ELSE vRow
               sel == IF Selected THEN vRow.sel ELSE ownVerdictSurfaces(o)
    <3>3. /\ r \in CheckRows /\ r.sel = vRow.sel /\ r.check = vRow.check /\ r.status = vRow.status
          /\ vRow.id => r.id
          /\ r.id => vRow.id \/ IntentAccepted("start")
          /\ r.starting = vRow.starting \/ r.id
          /\ r.epoch \in {vRow.epoch, b, Ack}
      BY <1>2, RecordedRowKeeps
    <3>4. sel \in Verdicts /\ sel # NoVerdict /\ (Selected => sel = vRow.sel)
      BY <1>2, OutcomesSelect DEF Selected
    <3>5. vRow' = [r EXCEPT !.present = TRUE, !.sel = sel]
      BY <1>2, <3>1, <3>3 DEF ClaimedRow, CheckRows
    <3> HIDE DEF r, sel
    <3>6. /\ vRow' \in CheckRows /\ vRow'.sel = sel /\ vRow'.present = TRUE /\ vRow'.check = vRow.check
          /\ vRow'.id = r.id /\ vRow'.starting = r.starting /\ vRow'.epoch = r.epoch
          /\ Selected'
      BY <3>3, <3>4, <3>5 DEF CheckRows, Selected
    <3>7. SurfacesConsistent'
      <4>1. ~Selected => vRow.sel.check = "none" /\ vRow.sel.status = "none"
        BY DEF Selected, NoVerdict
      <4> QED
        BY <1>1, <1>2, <3>3, <3>4, <3>6, <4>1
        DEF SurfacesConsistent, IntentAccepted, Sent, AppliedIsClosed, SurfacesAgree
    <3>8. "finish" \in Closing /\ "finish" \in Deciding
      BY DEF Closing, Deciding
    <3>9. HolderMoves(b, "finish")
      BY <1>1, <1>2, <1>3, <2>1, <3>2, <3>3, <3>6, <3>7, <3>8 DEF HolderMoves
    <3>10. HolderLeaves(b)
      BY <1>1, <1>2, <1>3, <2>1, <3>2, <3>3, <3>6, <3>7, <3>8 DEF HolderLeaves
    <3> QED
      BY <3>9, <3>10, <3>7, HolderKeeps
  <2> QED
    BY <2>2, <2>3
<1>7. CASE RecordSkipped(b)
  <2>1. vPc' = [vPc EXCEPT ![b] = "status"] /\ vPc[b] \in Deciding /\ vPc[b] \in Closing /\ UNCHANGED vLock
        /\ (b \in Repairers => VerdictTerminal)
    BY <1>2, <1>7 DEF RecordSkipped, AtPc, Deciding, Closing
  <2>2. \/ UNCHANGED vRow
        \/ SkipCheck /\ vRow' = [vRow EXCEPT !.check = "skipped"]
    BY <1>7 DEF RecordSkipped
  <2>3. /\ vRow' \in CheckRows /\ vRow'.sel = vRow.sel /\ vRow'.present = vRow.present
        /\ vRow'.id = vRow.id /\ vRow'.starting = vRow.starting /\ vRow'.epoch = vRow.epoch
        /\ \/ vRow'.check = vRow.check
           \/ vRow'.check = "skipped" /\ ~vRow.starting /\ ~vRow.id /\ ~Sent("start")
        /\ Selected /\ Selected'
    BY <1>2, <2>1, <2>2 DEF CheckRows, Surface, SkipCheck, Applicable, Sent, Selected
  <2>4. SurfacesConsistent'
    BY <1>1, <1>2, <2>3 DEF SurfacesConsistent, IntentAccepted, Sent, AppliedIsClosed, SurfacesAgree
  <2>5. "status" \in Closing /\ "status" \in Deciding
    BY DEF Closing, Deciding
  <2>6. HolderMoves(b, "status")
    BY <1>1, <1>2, <1>3, <2>1, <2>3, <2>4, <2>5 DEF HolderMoves
  <2>7. HolderLeaves(b)
    BY <1>1, <1>2, <1>3, <2>1, <2>3, <2>4, <2>5 DEF HolderLeaves
  <2> QED
    BY <2>6, <2>7, <2>4, HolderKeeps
<1>8. CASE RecordSurfaceApplied(b)
  <2>1. PICK q \in {"status", "unlock"} : vPc' = [vPc EXCEPT ![b] = q]
    BY <1>8 DEF RecordSurfaceApplied, AtPc
  <2>2. vPc[b] \in Deciding /\ vPc[b] \in Closing /\ UNCHANGED vLock
        /\ (b \in Repairers => VerdictTerminal)
    BY <1>2, <1>8 DEF RecordSurfaceApplied, Deciding, Closing
  <2>3. \/ UNCHANGED vRow
        \/ IntentAccepted("finish") /\ vRow' = [vRow EXCEPT !.check = "applied"]
        \/ vRow' = [vRow EXCEPT !.status = "applied"]
    BY <1>2, <1>8 DEF RecordSurfaceApplied, ActorConsistent
  <2>4. /\ vRow' \in CheckRows /\ vRow'.sel = vRow.sel /\ vRow'.present = vRow.present
        /\ vRow'.id = vRow.id /\ vRow'.starting = vRow.starting /\ vRow'.epoch = vRow.epoch
        /\ \/ vRow'.check = vRow.check
           \/ vRow'.check = "applied" /\ IntentAccepted("finish")
        /\ Selected /\ Selected'
    BY <1>2, <2>2, <2>3 DEF CheckRows, Surface, Selected
  <2>5. SurfacesConsistent'
    BY <1>1, <1>2, <2>4 DEF SurfacesConsistent, IntentAccepted, Sent, AppliedIsClosed, SurfacesAgree
  <2>6. q \in Closing /\ q \in Deciding
    BY DEF Closing, Deciding
  <2>7. HolderMoves(b, q)
    BY <1>1, <1>2, <1>3, <2>1, <2>2, <2>4, <2>5, <2>6 DEF HolderMoves
  <2>8. HolderLeaves(b)
    BY <1>1, <1>2, <1>3, <2>1, <2>2, <2>4, <2>5, <2>6 DEF HolderLeaves
  <2> QED
    BY <2>7, <2>8, <2>5, HolderKeeps
<1> QED
  BY <1>4, <1>5, <1>6, <1>7, <1>8

\* Completing the check and writing the status, and what their answers leave.
LEMMA CompletingStepsKeep ==
  ASSUME VerdictInv, NEW b \in VerdictActors,
         \/ completeSelectedCheck(b) \/ CheckFinished(b)
         \/ WriteVerdictStatus(b) \/ VerdictStatusWritten(b)
  PROVE  VerdictInv'
<1>1. UNCHANGED <<vItem, vLease, vSummary>>
  BY DEF completeSelectedCheck, CheckFinished, WriteVerdictStatus, VerdictStatusWritten
<1>2. vPc[b] \in Deciding /\ vPc[b] \in Closing
  BY DEF completeSelectedCheck, CheckFinished, WriteVerdictStatus, VerdictStatusWritten, Deciding, Closing
<1>3. /\ VerdictTyped /\ SurfacesConsistent /\ ActorConsistent(b) /\ vRow \in CheckRows
      /\ vIntent \in [{"start", "finish", "pending", "status"} -> Intents]
      /\ Selected /\ vRow.sel.check \notin {"none", "open"} /\ vRow.sel \in Verdicts
      /\ vLock = {b} /\ b # Ack /\ (b \in Repairers => VerdictTerminal)
  BY <1>2, HolderFacts DEF Closing, Deciding
<1>4. vFaults' \in 0 .. MaxVerdictFaults
  <2>1. VerdictFault \/ UNCHANGED vFaults
    BY DEF completeSelectedCheck, CheckFinished, WriteVerdictStatus, VerdictStatusWritten
  <2> QED
    BY <1>3, <2>1, FaultsBounded DEF VerdictTyped
<1> DEFINE Gone(q) == \/ q \in Deciding /\ UNCHANGED vLock
                      \/ q = "dead" /\ vLock' = {} /\ b \notin Repairers
           RowKept == /\ vRow' \in CheckRows /\ vRow'.sel = vRow.sel /\ vRow'.present = TRUE
                      /\ vRow.id => vRow'.id
                      /\ vRow'.epoch \in {vRow.epoch, b, Ack}
                      /\ vRow'.starting = vRow.starting \/ vRow'.id
                      /\ vRow'.id => \/ vRow.id \/ IntentAccepted("start")
                                     \/ vGithub.check # "none"
                      /\ \/ vRow'.check = vRow.check
                         \/ vRow'.check = "applied" /\ vGithub.check \notin {"none", "open"}
           Told(g) == /\ vGithub'.check \in {vGithub.check, g} /\ vGithub'.orphaned = vGithub.orphaned
                      /\ vGithub'.status \in {vGithub.status, vRow.sel.status}
<1>5. vRow.present = TRUE /\ (IntentAccepted("finish") => vGithub.check \notin {"none", "open"})
      /\ (vRow.id => IntentAccepted("start") \/ vGithub.check # "none")
  BY <1>3 DEF SurfacesConsistent, CheckRows
<1>6. ASSUME NEW q, vPc' = [vPc EXCEPT ![b] = q], Gone(q), RowKept,
             vIntent' \in [{"start", "finish", "pending", "status"} -> Intents],
             vIntent'["start"] = vIntent["start"],
             vGithub' \in GithubStates,
             Told(vRow.sel.check), vGithub'.check = vGithub.check \/ vRow.id,
             vIntent'["finish"] = "accepted" => vGithub'.check \notin {"none", "open"},
             q = "finishing" => vRow'.id,
             q = "finished" => vIntent'["finish"] = "accepted"
      PROVE  VerdictInv'
  <2>1. Selected'
    BY <1>3, <1>6 DEF Selected
  <2>2. SurfacesConsistent'
    BY <1>3, <1>5, <1>6, <2>1 DEF SurfacesConsistent, IntentAccepted, Sent, AppliedIsClosed, SurfacesAgree
  <2>3. q \in Closing \cup {"idle", "complete", "dead"} /\ "dead" \notin Closing /\ q # "claimStale"
    BY <1>6 DEF Closing, Deciding
  <2>4. HolderMoves(b, q)
    BY <1>1, <1>2, <1>3, <1>6, <2>1, <2>3 DEF HolderMoves, Deciding
  <2>5. HolderLeaves(b)
    BY <1>3, <1>4, <1>6, <2>1 DEF HolderLeaves
  <2> QED
    BY <2>2, <2>4, <2>5, HolderKeeps
<1>7. UNCHANGED vRow => RowKept
  BY <1>3, <1>5
<1>8. UNCHANGED vGithub => Told(vRow.sel.check) /\ vGithub' \in GithubStates
  BY <1>3 DEF VerdictTyped
<1>9. CASE completeSelectedCheck(b)
  <2>1. vPc[b] = "finish" /\ UNCHANGED vGithub
    BY <1>9 DEF completeSelectedCheck
  <2> DEFINE hasId == \/ vRow.id \/ IntentAccepted("start") \/ vGithub.check # "none"
  <2>2. PICK q \in {"status", "dead", "finishing", "skip"} :
          /\ vPc' = [vPc EXCEPT ![b] = q]
          /\ IF q = "dead" THEN vLock' = vLock \ {b} /\ ~VerdictFenced(b) ELSE UNCHANGED vLock
          /\ q = "finishing" => vRow' = RecordedRow(b) /\ hasId
          /\ \/ UNCHANGED vRow
             \/ vRow' = RecordedRow(b) /\ hasId
             \/ vRow' = [vRow EXCEPT !.check = "applied"] /\ IntentAccepted("finish")
          /\ \/ UNCHANGED vIntent
             \/ vIntent' = [vIntent EXCEPT !["finish"] = "mutating"]
    BY <1>9 DEF completeSelectedCheck, AtPc
  <2>3. Gone(q)
    BY <1>3, <2>2, ActorsDiffer DEF VerdictFenced, Deciding
  <2>4. RowKept /\ (q = "finishing" => vRow'.id)
    <3>1. CASE UNCHANGED vRow
      BY <1>3, <1>7, <2>2, <3>1, RecordedRowKeeps
    <3>2. CASE vRow' = RecordedRow(b) /\ hasId
      BY <1>3, <3>2, RecordedRowKeeps
    <3>3. CASE vRow' = [vRow EXCEPT !.check = "applied"] /\ IntentAccepted("finish")
      <4>1. /\ vRow' \in CheckRows /\ vRow'.sel = vRow.sel /\ vRow'.present = vRow.present
            /\ vRow'.id = vRow.id /\ vRow'.epoch = vRow.epoch /\ vRow'.starting = vRow.starting
            /\ vRow'.check = "applied"
        BY <1>3, <3>3 DEF CheckRows, Surface
      <4>2. q = "finishing" => vRow'.id
        BY <1>3, <2>2, RecordedRowKeeps
      <4> QED
        BY <1>3, <1>5, <3>3, <4>1, <4>2
    <3> QED
      BY <2>2, <3>1, <3>2, <3>3
  <2>5. /\ vIntent' \in [{"start", "finish", "pending", "status"} -> Intents]
        /\ vIntent'["start"] = vIntent["start"]
        /\ vIntent'["finish"] \in {vIntent["finish"], "mutating"}
    BY <1>3, <2>2 DEF Intents
  <2> QED
    BY <1>5, <1>6, <1>8, <2>1, <2>2, <2>3, <2>4, <2>5 DEF IntentAccepted
<1>10. CASE CheckFinished(b)
  <2>1. vPc[b] = "finishing" /\ vRow.id /\ UNCHANGED <<vRow, vLock>>
    BY <1>3, <1>10 DEF CheckFinished, ActorConsistent
  <2>2. PICK q \in {"finished", "status"}, i \in {"accepted", "failed", "unknown"} :
          /\ vPc' = [vPc EXCEPT ![b] = q] /\ vIntent' = [vIntent EXCEPT !["finish"] = i]
          /\ \/ vGithub' = [vGithub EXCEPT !.check = vRow.sel.check]
             \/ i # "accepted" /\ UNCHANGED vGithub
          /\ q = "finished" => i = "accepted"
    BY <1>10 DEF CheckFinished, AtPc
  <2>3. Gone(q)
    BY <2>1, <2>2 DEF Deciding
  <2>4. /\ vIntent' \in [{"start", "finish", "pending", "status"} -> Intents]
        /\ vIntent'["start"] = vIntent["start"] /\ vIntent'["finish"] = i
    BY <1>3, <2>2 DEF Intents
  <2>5. /\ vGithub' \in GithubStates
        /\ Told(vRow.sel.check)
        /\ i = "accepted" => vGithub'.check = vRow.sel.check
    BY <1>3, <2>2 DEF VerdictTyped, Verdicts, GithubStates
  <2> QED
    BY <1>3, <1>6, <1>7, <2>1, <2>2, <2>3, <2>4, <2>5
<1>11. CASE WriteVerdictStatus(b)
  <2>1. PICK q \in {"unlock", "stating", "stated"} : vPc' = [vPc EXCEPT ![b] = q]
    BY <1>11 DEF WriteVerdictStatus, AtPc
  <2>2. /\ UNCHANGED <<vGithub, vLock>>
        /\ UNCHANGED vRow \/ \E v \in {vRow.status, "skipped"} : vRow' = [vRow EXCEPT !.status = v]
        /\ UNCHANGED vIntent \/ \E i \in {vIntent["status"], "mutating"} :
                                  vIntent' = [vIntent EXCEPT !["status"] = i]
    BY <1>11 DEF WriteVerdictStatus
  <2>3. Gone(q) /\ q \notin {"finishing", "finished"}
    BY <2>1, <2>2 DEF Deciding
  <2>4. RowKept
    <3>1. vRow.status \in Surface /\ "skipped" \in Surface
      BY <1>3 DEF CheckRows, Surface
    <3>2. /\ vRow' \in CheckRows /\ vRow'.sel = vRow.sel /\ vRow'.present = vRow.present
          /\ vRow'.id = vRow.id /\ vRow'.epoch = vRow.epoch /\ vRow'.starting = vRow.starting
          /\ vRow'.check = vRow.check
      BY <1>3, <2>2, <3>1 DEF CheckRows
    <3> QED
      BY <1>5, <3>2
  <2>5. /\ vIntent' \in [{"start", "finish", "pending", "status"} -> Intents]
        /\ vIntent'["start"] = vIntent["start"] /\ vIntent'["finish"] = vIntent["finish"]
    BY <1>3, <2>2 DEF Intents
  <2> QED
    BY <1>5, <1>6, <1>8, <2>1, <2>2, <2>3, <2>4, <2>5 DEF IntentAccepted
<1>12. CASE VerdictStatusWritten(b)
  <2>1. PICK q \in {"stated", "unlock"} : vPc' = [vPc EXCEPT ![b] = q]
    BY <1>12 DEF VerdictStatusWritten, AtPc
  <2>2. /\ UNCHANGED <<vRow, vLock>>
        /\ \E i \in {"accepted", "unknown"} : vIntent' = [vIntent EXCEPT !["status"] = i]
        /\ UNCHANGED vGithub \/ vGithub' = [vGithub EXCEPT !.status = vRow.sel.status]
    BY <1>12 DEF VerdictStatusWritten
  <2>3. Gone(q) /\ q \notin {"finishing", "finished"}
    BY <2>1, <2>2 DEF Deciding
  <2>4. /\ vIntent' \in [{"start", "finish", "pending", "status"} -> Intents]
        /\ vIntent'["start"] = vIntent["start"] /\ vIntent'["finish"] = vIntent["finish"]
    BY <1>3, <2>2 DEF Intents
  <2>5. /\ vGithub' \in GithubStates
        /\ Told(vRow.sel.check) /\ vGithub'.check = vGithub.check
    BY <1>3, <2>2 DEF VerdictTyped, Verdicts, GithubStates
  <2> QED
    BY <1>5, <1>6, <1>7, <2>1, <2>2, <2>3, <2>4, <2>5 DEF IntentAccepted
<1> QED
  BY <1>9, <1>10, <1>11, <1>12

-----------------------------------------------------------------------------
(* Crashes and what happens around the verdict *)

\* The session lock goes with its holder, and a request in flight may have been applied.
LEMMA CrashKeeps ==
  ASSUME VerdictInv, NEW b \in VerdictActors, VerdictCrash(b)
  PROVE  VerdictInv'
<1>1. /\ VerdictTyped /\ SurfacesConsistent /\ ActorConsistent(b) /\ OneReserves /\ vRow \in CheckRows
      /\ Selected => vRow.sel.check \notin {"none", "open"} /\ vRow.sel \in Verdicts
      /\ vPc[b] \in Deciding => Selected
  BY HolderFacts DEF VerdictInv
<1>2. UNCHANGED <<vItem, vLease, vRow, vIntent, vSummary>> /\ vLock' = vLock \ {b}
  BY DEF VerdictCrash
<1>3. PICK q \in {"idle", "dead"} :
        /\ vPc' = [vPc EXCEPT ![b] = q]
        /\ q = IF b \in Repairers THEN "idle" ELSE "dead"
  BY DEF VerdictCrash, AtPc
<1>4. q \in Pcs /\ vPc'[b] = q /\ q \notin Section /\ q \notin Early /\ q \notin Closing
  BY <1>1, <1>3 DEF VerdictTyped, Pcs, Section, Early, Closing, Deciding
<1> DEFINE Opened == vGithub' = [vGithub EXCEPT !.check = "open"]
           Closed == vGithub' = [vGithub EXCEPT !.check = vRow.sel.check]
           Stated(t) == vGithub' = [vGithub EXCEPT !.status = t]
<1>5. \/ UNCHANGED vGithub
      \/ /\ vPc[b] = "creating" /\ vIntent["start"] = "mutating" /\ vGithub.check = "none"
         /\ Opened
      \/ vPc[b] = "finishing" /\ vRow.id /\ Selected /\ Closed
      \/ Stated("pending")
      \/ Selected /\ Stated(vRow.sel.status)
  BY <1>1 DEF VerdictCrash, ActorConsistent, Deciding
<1>6. vGithub' \in GithubStates
  <2>1. Selected => vRow.sel.check \in {"success", "failure", "neutral", "cancelled", "action_required"}
                    /\ vRow.sel.status \in {"success", "failure", "error"}
    BY <1>1 DEF Verdicts
  <2>2. vGithub \in GithubStates
    BY <1>1 DEF VerdictTyped
  <2>3. Opened => vGithub' \in GithubStates
    BY <2>2 DEF GithubStates
  <2>4. Selected /\ Closed => vGithub' \in GithubStates
    BY <2>1, <2>2 DEF GithubStates
  <2>5. Stated("pending") \/ (Selected /\ Stated(vRow.sel.status)) => vGithub' \in GithubStates
    BY <2>1, <2>2 DEF GithubStates
  <2> HIDE DEF Opened, Closed, Stated
  <2> QED
    BY <1>5, <2>2, <2>3, <2>4, <2>5
<1>7. /\ vGithub'.orphaned = vGithub.orphaned
       /\ \/ vGithub'.check = vGithub.check
          \/ /\ vPc[b] = "creating" /\ vIntent["start"] = "mutating" /\ vGithub.check = "none"
             /\ vGithub'.check = "open"
          \/ vPc[b] = "finishing" /\ vRow.id /\ Selected /\ vGithub'.check = vRow.sel.check
       /\ \/ vGithub'.status \in {vGithub.status, "pending"}
          \/ Selected /\ vGithub'.status = vRow.sel.status
  <2>1. vGithub \in GithubStates
    BY <1>1 DEF VerdictTyped
  <2>2. Opened => vGithub'.check = "open" /\ vGithub'.status = vGithub.status /\ vGithub'.orphaned = vGithub.orphaned
    BY <2>1 DEF GithubStates
  <2>3. Closed => /\ vGithub'.check = vRow.sel.check /\ vGithub'.status = vGithub.status
                  /\ vGithub'.orphaned = vGithub.orphaned
    BY <2>1 DEF GithubStates
  <2>4. \A t : Stated(t) => /\ vGithub'.check = vGithub.check /\ vGithub'.status = t
                            /\ vGithub'.orphaned = vGithub.orphaned
    BY <2>1 DEF GithubStates
  <2> HIDE DEF Opened, Closed, Stated
  <2> QED
    BY <1>5, <2>2, <2>3, <2>4
<1>8. VerdictTyped'
  <2>1. vFaults' \in 0 .. MaxVerdictFaults
    BY <1>1, FaultsBounded DEF VerdictCrash, VerdictTyped
  <2>2. vLock' = {} \/ \E a \in VerdictActors : vLock' = {a}
    BY <1>1, <1>2 DEF VerdictTyped
  <2> QED
    BY <1>1, <1>2, <1>3, <1>4, <1>6, <2>1, <2>2 DEF VerdictTyped
<1>9. SurfacesConsistent'
  BY <1>1, <1>2, <1>7 DEF SurfacesConsistent, Selected, IntentAccepted, Sent, AppliedIsClosed, SurfacesAgree
<1>10. ASSUME NEW a \in VerdictActors \ {b}
      PROVE  /\ vLock = {a} => vLock' = {a}
             /\ vPc[a] \in Section => vRow'.starting \/ vRow'.id
             /\ vPc[a] = "create" => vRow'.check # "skipped"
             /\ vPc[a] = "creating" => vIntent'["start"] = "mutating" /\ vGithub'.check = "none"
             /\ vPc[a] = "finished" => vIntent'["finish"] = "accepted"
  <2>1. vLock = {a} => vLock' = {a}
    BY <1>2
  <2>2. /\ vPc[a] \in Section => vRow.starting \/ vRow.id
        /\ vPc[a] = "create" => vRow.check # "skipped"
        /\ vPc[a] = "creating" => vIntent["start"] = "mutating" /\ vGithub.check = "none"
        /\ vPc[a] = "finished" => vIntent["finish"] = "accepted"
    BY DEF VerdictInv, ActorConsistent, IntentAccepted
  <2>3. vPc[a] = "creating" => vGithub'.check = vGithub.check
    <3>1. vPc[a] = "creating" => vPc[b] # "creating"
      BY <1>1 DEF OneReserves, Section
    <3>2. vPc[a] = "creating" => ~vRow.id
      BY <1>1, <2>2 DEF SurfacesConsistent, IntentAccepted
    <3> QED
      BY <1>7, <3>1, <3>2
  <2> QED
    BY <1>2, <2>1, <2>2, <2>3
<1>11. Frame(b, q)
  BY <1>1, <1>2, <1>4, <1>10 DEF Frame, Selected, IntentAccepted, VerdictTerminal, VerdictTyped
<1>12. ActorConsistent(b)'
  BY <1>3, <1>4, ActorsDiffer DEF ActorConsistent, Section, Closing, Deciding
<1> QED
  BY <1>3, <1>4, <1>8, <1>9, <1>11, <1>12, ActorKeeps

\* The lease, the cancellation, the access and a given-up answer move no actor.
LEMMA WorldStepsKeep ==
  ASSUME VerdictInv, TakeOverLease \/ CancelVerdictReview \/ AccessChanges \/ GiveUpFinish
  PROVE  VerdictInv'
<1>1. /\ VerdictTyped /\ SurfacesConsistent /\ OneReserves
      /\ \A a \in VerdictActors : ActorConsistent(a)
  BY DEF VerdictInv
<1>2. /\ UNCHANGED <<vRow, vGithub, vSummary, vLock, vPc>>
      /\ vItem' \in {vItem, "cancelled"} /\ (VerdictTerminal => VerdictTerminal')
      /\ \/ UNCHANGED vIntent
         \/ /\ vIntent["finish"] = "unknown" /\ vLock = {}
            /\ vIntent' = [vIntent EXCEPT !["finish"] = "terminal"]
  BY DEF TakeOverLease, CancelVerdictReview, AccessChanges, GiveUpFinish, VerdictTerminal
<1>3. VerdictTyped'
  <2>1. vFaults' \in 0 .. MaxVerdictFaults
    <3>1. VerdictFault \/ UNCHANGED vFaults
      BY DEF TakeOverLease, CancelVerdictReview, AccessChanges, GiveUpFinish
    <3> QED
      BY <1>1, <3>1, FaultsBounded DEF VerdictTyped
  <2>2. vLease' \in 0 .. LastEpoch
    BY <1>1, VerdictAssumption DEF TakeOverLease, CancelVerdictReview, AccessChanges, GiveUpFinish, VerdictTyped
  <2>3. vIntent' \in [{"start", "finish", "pending", "status"} -> Intents]
    BY <1>1, <1>2 DEF VerdictTyped, Intents
  <2> QED
    BY <1>1, <1>2, <2>1, <2>2, <2>3 DEF VerdictTyped
<1>4. /\ vIntent'["start"] = vIntent["start"]
      /\ vIntent'["finish"] = vIntent["finish"] \/ (vLock = {} /\ vIntent'["finish"] = "terminal")
  BY <1>1, <1>2 DEF VerdictTyped
<1>5. SurfacesConsistent'
  BY <1>1, <1>2, <1>4 DEF SurfacesConsistent, Selected, IntentAccepted, Sent, AppliedIsClosed, SurfacesAgree
<1>6. ASSUME NEW a \in VerdictActors
      PROVE  ActorConsistent(a)'
  <2>1. ActorConsistent(a) /\ (vPc[a] = "finished" => vLock = {a})
    BY <1>1 DEF ActorConsistent, Closing, Deciding
  <2> QED
    BY <1>2, <1>4, <2>1 DEF ActorConsistent, Selected, IntentAccepted, VerdictTerminal
<1>7. OneReserves'
  BY <1>1, <1>2 DEF OneReserves
<1> QED
  BY <1>3, <1>5, <1>6, <1>7 DEF VerdictInv

-----------------------------------------------------------------------------
(* The component *)

\* Before its first step nothing of the review is on GitHub.
LEMMA VerdictStarts ==
  ASSUME VerdictInit
  PROVE  VerdictInv
<1>1. /\ vPc \in [VerdictActors -> {"idle", "done", "begin"}]
      /\ \A a \in VerdictActors : vPc[a] = "idle" <=> a \in Repairers
      /\ \A a \in VerdictActors : vPc[a] \in {"idle", "done", "begin"}
  BY ActorsDiffer DEF VerdictInit
<1>2. {"idle", "done", "begin"} \subseteq Pcs
  BY DEF Pcs, Early
<1>3. /\ vRow.present = FALSE /\ vRow.id = FALSE /\ vRow.starting = FALSE /\ vRow.epoch = 0
      /\ vRow.sel = NoVerdict /\ vRow.check = "open" /\ vRow.status = "open" /\ vRow \in CheckRows
      /\ vGithub.check = "none" /\ vGithub.status = "none" /\ vIntent["start"] = "none"
      /\ vIntent["finish"] = "none"
  BY VerdictAssumption DEF VerdictInit, NoCheckRow, CheckRows, Surface
<1>4. VerdictTyped
  BY <1>1, <1>2, <1>3, VerdictAssumption DEF VerdictTyped, VerdictInit, Intents, GithubStates
<1>5. SurfacesConsistent
  BY <1>3 DEF SurfacesConsistent, Selected, IntentAccepted, Sent, AppliedIsClosed, SurfacesAgree
<1>6. ASSUME NEW a \in VerdictActors
      PROVE  ActorConsistent(a)
  <2>1. 0 \notin Executions
    BY DEF Executions
  <2> QED
    BY <1>1, <1>3, <2>1, ActorsDiffer DEF ActorConsistent, Early, Section, Closing, Deciding
<1>7. OneReserves
  BY <1>1 DEF OneReserves, Section
<1> QED
  BY <1>4, <1>5, <1>6, <1>7 DEF VerdictInv

\* Every step keeps the invariant.
LEMMA VerdictKeeps ==
  ASSUME VerdictInv, [VerdictNext]_verdictVars
  PROVE  VerdictInv'
<1>1. CASE VerdictNext
  <2>1. CASE \E a \in VerdictActors : VerdictStep(a) \/ VerdictCrash(a) \/ FailLostReview(a)
    <3>1. PICK a \in VerdictActors : VerdictStep(a) \/ VerdictCrash(a) \/ FailLostReview(a)
      BY <2>1
    <3> QED
      BY <3>1, QuietStepsKeep, SlotStepsKeep, SendingStepsKeep, SelectingStepsKeep,
         CompletingStepsKeep, CrashKeeps DEF VerdictStep
  <2> QED
    BY <1>1, <2>1, WorldStepsKeep DEF VerdictNext
<1>2. CASE UNCHANGED verdictVars
  <2>1. /\ VerdictTyped' /\ SurfacesConsistent' /\ OneReserves'
    BY <1>2 DEF VerdictInv, verdictVars, VerdictTyped, SurfacesConsistent, OneReserves, Selected,
       IntentAccepted, Sent, AppliedIsClosed, SurfacesAgree
  <2>2. \A a \in VerdictActors : ActorConsistent(a)'
    BY <1>2 DEF VerdictInv, verdictVars, ActorConsistent, Selected, IntentAccepted, VerdictTerminal
  <2> QED
    BY <2>1, <2>2 DEF VerdictInv
<1> QED
  BY <1>1, <1>2

\* What the invariant says of a state.
LEMMA VerdictInvSays ==
  ASSUME VerdictInv
  PROVE  VerdictTypeOK /\ SurfacesAgree /\ SkippedHasNoCheck /\ AppliedIsClosed
<1>1. VerdictTyped /\ SurfacesConsistent /\ vRow \in CheckRows
  BY DEF VerdictInv, VerdictTyped
<1>2. VerdictTypeOK
  <2>1. vLock \subseteq VerdictActors /\ Cardinality(vLock) <= 1
    <3>1. CASE vLock = {}
      BY <3>1, FS_EmptySet
    <3>2. CASE \E a \in VerdictActors : vLock = {a}
      BY <3>2, FS_Singleton
    <3> QED
      BY <1>1, <3>1, <3>2 DEF VerdictTyped
  <2>2. /\ vRow.sel.check \in {"none", "success", "failure", "neutral", "cancelled", "action_required"}
        /\ vRow.sel.status \in {"none", "success", "failure", "error"}
    BY <1>1 DEF CheckRows, Verdicts, NoVerdict
  <2> QED
    BY <1>1, <2>1, <2>2 DEF VerdictTypeOK, VerdictTyped, CheckRows, Surface, Intents, GithubStates
<1>3. SkippedHasNoCheck
  <2>1. vRow.check = "skipped" => vGithub.check = "none" /\ ~Sent("start")
    BY <1>1 DEF SurfacesConsistent
  <2>2. \A a \in VerdictActors : /\ vPc[a] = "create" => vRow.check # "skipped"
                                 /\ vPc[a] = "creating" => Sent("start")
                                 /\ vPc[a] = "record" => Sent("start")
    BY DEF VerdictInv, ActorConsistent, Sent, IntentAccepted
  <2> QED
    BY <2>1, <2>2 DEF SkippedHasNoCheck
<1> QED
  BY <1>1, <1>2, <1>3 DEF SurfacesConsistent

\* Only a claim selects.
LEMMA ClaimSelects ==
  ASSUME VerdictInv, VerdictNext, ~Selected, Selected'
  PROVE  \E a \in VerdictActors : claimOwnVerdict(a)
<1>1. vRow \in CheckRows /\ VerdictTyped
  BY DEF VerdictInv, VerdictTyped
<1>2. vRow' # vRow
  BY DEF Selected
<1>3. PICK a \in VerdictActors :
        \/ claimOwnVerdict(a)
        \/ Reserve(a) \/ RecoverReservation(a) \/ RecordCheck(a) \/ ReleaseReservation(a)
        \/ completeSelectedCheck(a) \/ RecordSkipped(a) \/ RecordSurfaceApplied(a) \/ WriteVerdictStatus(a)
  BY <1>2 DEF VerdictNext, VerdictStep, EnsureStarted, CreateCheck, CheckCreated, WritePendingStatus,
     cancelOrphanedCheckRunAfterRecordFailure, PendingStatusWritten, PublishSummary, Complete, BeginClose,
     closeOpenOwnVerdict, CheckFinished, VerdictStatusWritten, UnlockClose, VerdictCrash, FailLostReview,
     TakeOverLease, CancelVerdictReview, AccessChanges, GiveUpFinish
<1>4. ASSUME ~claimOwnVerdict(a)
      PROVE  vRow'.sel = NoVerdict
  <2>1. vRow.sel = NoVerdict /\ RecordedRow(a).sel = vRow.sel /\ RecordedRow(a) \in CheckRows
    BY <1>1, RecordedRowKeeps DEF Selected
  <2>2. CASE Reserve(a) \/ RecordCheck(a)
    <3> DEFINE e == IF a \in Executions THEN a ELSE vRow.epoch
    <3>1. \/ vRow' = [vRow EXCEPT !.present = TRUE, !.starting = TRUE, !.epoch = e]
          \/ vRow' = RecordedRow(a)
      BY <1>2, <2>2 DEF Reserve, RecordCheck
    <3> HIDE DEF e
    <3> QED
      BY <1>1, <2>1, <3>1 DEF CheckRows
  <2>3. CASE RecoverReservation(a) \/ ReleaseReservation(a)
    <3>1. vRow' = NoCheckRow
      BY <1>2, <2>3 DEF RecoverReservation, ReleaseReservation, ReleasedRow
    <3> QED
      BY <3>1 DEF NoCheckRow
  <2>4. CASE completeSelectedCheck(a)
    <3>1. vRow' = RecordedRow(a) \/ vRow' = [vRow EXCEPT !.check = "applied"]
      BY <1>2, <2>4 DEF completeSelectedCheck
    <3> QED
      BY <1>1, <2>1, <3>1 DEF CheckRows
  <2>5. CASE RecordSkipped(a) \/ RecordSurfaceApplied(a)
    <3>1. \/ vRow' = [vRow EXCEPT !.check = "skipped"]
          \/ vRow' = [vRow EXCEPT !.check = "applied"]
          \/ vRow' = [vRow EXCEPT !.status = "applied"]
      BY <1>2, <2>5 DEF RecordSkipped, RecordSurfaceApplied
    <3> QED
      BY <1>1, <2>1, <3>1 DEF CheckRows
  <2>6. CASE WriteVerdictStatus(a)
    <3>1. \E v \in {"skipped", vRow.status} : vRow' = [vRow EXCEPT !.status = v]
      BY <1>2, <2>6 DEF WriteVerdictStatus
    <3> QED
      BY <1>1, <2>1, <3>1 DEF CheckRows
  <2> QED
    BY <1>3, <1>4, <2>2, <2>3, <2>4, <2>5, <2>6
<1> QED
  BY <1>3, <1>4 DEF Selected

\* A selection is an execution's under its lease, or a repairer's for a terminal review and
\* then what the published summary says.
LEMMA SelectionIntended ==
  ASSUME VerdictInv, VerdictNext, ~Selected, Selected'
  PROVE  \/ \E a \in Executions : vPc[a] \in {"claim", "claimStale"} /\ vPc'[a] = "finish"
         \/ /\ VerdictTerminal
            /\ (vItem = "completed" /\ vSummary # NoSummary) =>
                 \E v \in Published :
                   /\ vSummary = summaryCommentVerdictMeta(v[1], v[2])
                   /\ vRow.sel' = ownVerdictSurfaces(closeOutcomeForCoverage(v[1], v[2]))
<1>1. PICK a \in VerdictActors : claimOwnVerdict(a)
  BY ClaimSelects
<1>2. /\ VerdictTyped /\ vRow \in CheckRows /\ vPc[a] \in {"claim", "claimStale"}
      /\ a # Ack /\ (a \in Repairers => VerdictTerminal)
  BY <1>1, HolderFacts DEF claimOwnVerdict, Closing
<1>3. VerdictFenced(a)
  BY <1>1 DEF claimOwnVerdict, Selected
<1>4. CASE a \in Executions
  <2>1. vPc'[a] = "finish"
    BY <1>1, <1>2, <1>3 DEF claimOwnVerdict, AtPc, VerdictTyped
  <2> QED
    BY <1>2, <1>4, <2>1
<1>5. CASE a \in Repairers
  <2>1. ASSUME vItem = "completed", vSummary # NoSummary
        PROVE  \E v \in Published :
                 /\ vSummary = summaryCommentVerdictMeta(v[1], v[2])
                 /\ vRow.sel' = ownVerdictSurfaces(closeOutcomeForCoverage(v[1], v[2]))
    <3>1. PICK v \in Published : vSummary = summaryCommentVerdictMeta(v[1], v[2])
      BY <1>2, <2>1 DEF VerdictTyped
    <3>2. ownVerdictFromSummaryDetail(vSummary) = closeOutcomeForCoverage(v[1], v[2])
      BY <3>1, SummaryReadBack
    <3>3. resolveOwnVerdictForTerminalReview = closeOutcomeForCoverage(v[1], v[2])
      BY <2>1, <3>2 DEF resolveOwnVerdictForTerminalReview
    <3>4. vRow' = ClaimedRow(a, closeOutcomeForCoverage(v[1], v[2]))
      BY <1>1, <1>3, <1>5, <3>3, ActorsDiffer DEF claimOwnVerdict
    <3> DEFINE r == IF IntentAccepted("start") /\ ~vRow.id THEN RecordedRow(a) ELSE vRow
               sel == ownVerdictSurfaces(closeOutcomeForCoverage(v[1], v[2]))
    <3>5. r \in CheckRows
      BY <1>2, RecordedRowKeeps
    <3>6. vRow' = [r EXCEPT !.present = TRUE, !.sel = sel]
      BY <3>4 DEF ClaimedRow
    <3> HIDE DEF r, sel
    <3>7. vRow'.sel = sel
      BY <3>5, <3>6 DEF CheckRows
    <3> QED
      BY <3>1, <3>7 DEF sel
  <2> QED
    BY <1>2, <1>5, <2>1
<1> QED
  BY <1>2, <1>4, <1>5, ActorsDiffer

\* What reviewVerdict.ts promises of one review's check and status holds for any number of
\* executions, repairers and faults.
THEOREM VerdictIsSound == VerdictSpec => VerdictSound
<1>1. VerdictInit => VerdictInv
  BY VerdictStarts
<1>2. VerdictInv /\ [VerdictNext]_verdictVars => VerdictInv'
  BY VerdictKeeps
<1>3. VerdictInv => VerdictTypeOK /\ SurfacesAgree /\ SkippedHasNoCheck /\ AppliedIsClosed
  BY VerdictInvSays
<1> DEFINE Intended ==
             (~Selected /\ Selected') =>
                \/ \E a \in Executions : vPc[a] \in {"claim", "claimStale"} /\ vPc'[a] = "finish"
                \/ /\ VerdictTerminal
                   /\ (vItem = "completed" /\ vSummary # NoSummary) =>
                        \E v \in Published :
                          /\ vSummary = summaryCommentVerdictMeta(v[1], v[2])
                          /\ vRow.sel' = ownVerdictSurfaces(closeOutcomeForCoverage(v[1], v[2]))
<1>4. VerdictInv /\ [VerdictNext]_verdictVars => [Intended]_verdictVars
  BY SelectionIntended
<1> HIDE DEF Intended
<1>5. VerdictSpec => []VerdictInv
  BY <1>1, <1>2, PTL DEF VerdictSpec
<1>6. VerdictSpec => [](VerdictTypeOK /\ SurfacesAgree /\ SkippedHasNoCheck /\ AppliedIsClosed)
  BY <1>3, <1>5, PTL
<1>7. VerdictSpec => [][Intended]_verdictVars
  BY <1>4, <1>5, PTL DEF VerdictSpec
<1>8. VerdictSpec => RepairSelectsIntended
  BY <1>7 DEF RepairSelectsIntended, Intended
<1> QED
  BY <1>6, <1>8 DEF VerdictSound

-----------------------------------------------------------------------------
(* ProgressComment *)

\* Where a writer is inside the lock, and where it has a place reserved.
Locked == {"locked", "found", "prepared", "resolved", "sent", "unlock", "error"}
Reserving == Locked \cup {"reserved", "connected"}
Resting == {"idle", "waiting", "editing", "done", "failed"}

ProgressBody == [item : 1 .. MaxProgressItems, rev : 0 .. Conclusion]
WriterRecord == [at : Reserving \cup Resting, rev : 0 .. Conclusion,
                 seen : ProgressBody \cup {NoComment}, target : Nat, live : BOOLEAN]

ProgressTyped ==
    /\ pcItems \in 0 .. MaxProgressItems /\ pcCancelled \subseteq 1 .. pcItems
    /\ pcRow \in [owner : 0 .. MaxProgressItems, rev : -1 .. Conclusion] /\ pcRow.owner = pcItems
    /\ pcComments \in Seq(ProgressBody)
    /\ \A n \in DOMAIN pcComments : pcComments[n].item <= pcItems
    /\ pcWriter \in [ProgressWriters -> WriterRecord]
    /\ pcReserved \in Nat /\ pcOthers \in 0 .. MaxOtherLocks
    /\ pcLock \in ProgressWriters \cup {Nobody}
    /\ pcFaults \in 0 .. MaxProgressFaults /\ pcLostSession \in BOOLEAN

Edits(i) == pcWriter[<<"cancel", i>>].at = "editing"

\* Nothing shown, and nothing a cancellation notice is about to put back, is of a later review
\* than `item` or of a later revision of that review.
UpTo(item, rev) ==
    /\ Shown.item <= item /\ (Shown.item = item => Shown.rev <= rev)
    /\ \A i \in 1 .. MaxProgressItems : Edits(i) =>
          i <= item /\ (i = item => pcWriter[<<"cancel", i>>].rev <= rev)

\* What a writer may rely on where it is; the second part as long as no lock session was lost.
WriterSound(w) ==
    LET me == pcWriter[w] IN
    /\ me.at # "idle" => w[2] <= pcItems
    /\ me.live <=> me.at \in Locked \cup {"connected"}
    /\ pcLock = w => me.at \in Locked
    /\ ~pcLostSession =>
         /\ me.at \in Locked => pcLock = w
         /\ me.at \in {"prepared", "resolved"} => UpTo(w[2], me.rev)
         /\ me.at = "resolved" => me.target = Len(pcComments)
         /\ me.at \in {"prepared", "resolved", "sent"} /\ pcRow.owner = w[2] => pcRow.rev = me.rev

\* The record is ahead of the comment.
RowAhead == ~pcLostSession /\ pcItems # 0 => UpTo(pcItems, pcRow.rev)

ProgressInv ==
    /\ ProgressTyped
    /\ \A w \in ProgressWriters : WriterSound(w)
    /\ RowAhead /\ OneProgressComment

Taken == {w \in ProgressWriters : pcWriter[w].at \in Reserving}
PlacesExact == pcReserved = pcOthers + Cardinality(Taken) /\ pcReserved <= Capacity

\* Constants, writers and the resting record.
LEMMA ProgressFacts ==
  /\ Conclusion \in Nat /\ Capacity \in Nat /\ Capacity <= PoolMax
  /\ Nobody \notin ProgressWriters
  /\ \A w \in ProgressWriters : w[2] \in 1 .. MaxProgressItems
  /\ \A i \in 1 .. MaxProgressItems : \A k \in {"ack", "work", "cancel"} :
        <<k, i>> \in ProgressWriters /\ <<k, i>>[1] = k /\ <<k, i>>[2] = i
  /\ \A w \in ProgressWriters : w[1] = "cancel" => w = <<"cancel", w[2]>>
  /\ RestingWriter \in WriterRecord /\ IsFiniteSet(ProgressWriters)
<1>1. Conclusion \in Nat /\ Capacity \in Nat /\ Capacity <= PoolMax
  BY ProgressAssumption DEF Conclusion, Capacity
<1>2. /\ Nobody \notin ProgressWriters
      /\ \A w \in ProgressWriters : w[2] \in 1 .. MaxProgressItems
      /\ \A i \in 1 .. MaxProgressItems : \A k \in {"ack", "work", "cancel"} :
            <<k, i>> \in ProgressWriters /\ <<k, i>>[1] = k /\ <<k, i>>[2] = i
      /\ \A w \in ProgressWriters : w[1] = "cancel" => w = <<"cancel", w[2]>>
  BY DEF Nobody, ProgressWriters
<1>3. RestingWriter \in WriterRecord
  BY <1>1 DEF RestingWriter, WriterRecord, Resting, NoComment
<1>4. IsFiniteSet(ProgressWriters)
  <2>1. IsFiniteSet(1 .. MaxProgressItems)
    BY FS_Interval, ProgressAssumption
  <2>2. IsFiniteSet({"ack", "work", "cancel"})
    <3>1. \A S, x : IsFiniteSet(S) => IsFiniteSet(S \cup {x})
      BY FS_AddElement
    <3>2. IsFiniteSet({} \cup {"ack"})
      BY <3>1, FS_EmptySet
    <3>3. IsFiniteSet(({} \cup {"ack"}) \cup {"work"})
      BY <3>1, <3>2
    <3>4. IsFiniteSet((({} \cup {"ack"}) \cup {"work"}) \cup {"cancel"})
      BY <3>1, <3>3
    <3>5. {"ack", "work", "cancel"} = (({} \cup {"ack"}) \cup {"work"}) \cup {"cancel"}
      OBVIOUS
    <3> QED BY <3>4, <3>5
  <2>3. \A S, T : IsFiniteSet(S) /\ IsFiniteSet(T) => IsFiniteSet(S \X T)
    BY FS_Product
  <2> QED BY <2>1, <2>2, <2>3 DEF ProgressWriters
<1> QED BY <1>1, <1>2, <1>3, <1>4

\* What is shown is a comment of a review that exists, or nothing.
LEMMA ShownTyped ==
  ASSUME ProgressTyped
  PROVE  /\ pcComments = <<>> => Shown = NoComment /\ Len(pcComments) = 0
         /\ pcComments # <<>> => /\ Shown \in ProgressBody /\ Shown = pcComments[1]
                                 /\ Shown.item <= pcItems /\ Len(pcComments) > 0
         /\ Shown.item \in Nat /\ Shown.rev \in Int /\ Shown.item <= pcItems
         /\ Shown # NoComment => Shown \in ProgressBody
         /\ NoComment.item = 0 /\ NoComment.rev = -1
<1>1. pcComments # <<>> => /\ Shown \in ProgressBody /\ Shown = pcComments[1]
                           /\ Shown.item <= pcItems /\ Len(pcComments) > 0
  BY DEF ProgressTyped, Shown
<1>2. NoComment.item = 0 /\ NoComment.rev = -1
  BY DEF NoComment
<1>3. pcComments = <<>> => Shown = NoComment /\ Len(pcComments) = 0
  BY DEF Shown
<1>4. pcItems \in Nat
  BY DEF ProgressTyped
<1>5. Shown \in ProgressBody => Shown.item \in Nat /\ Shown.rev \in Int
  BY ProgressFacts DEF ProgressBody
<1> QED BY <1>1, <1>2, <1>3, <1>4, <1>5

ProgressFull == ProgressInv /\ PlacesExact

\* Who holds a place is counted.
LEMMA TakenPlace ==
  ASSUME ProgressFull
  PROVE  /\ IsFiniteSet(Taken) /\ Cardinality(Taken) \in Nat
         /\ \A w \in Taken : pcReserved >= pcOthers + 1
         /\ pcReserved \in Nat /\ pcOthers \in Nat
<1>1. IsFiniteSet(Taken)
  BY ProgressFacts, FS_Subset DEF Taken
<1>2. Cardinality(Taken) \in Nat
  BY <1>1, FS_CardinalityType
<1>3. pcReserved \in Nat /\ pcOthers \in Nat
  BY ProgressAssumption DEF ProgressFull, ProgressInv, ProgressTyped
<1>4. \A w \in Taken : Cardinality(Taken) # 0
  BY <1>1, FS_EmptySet
<1> QED BY <1>1, <1>2, <1>3, <1>4 DEF ProgressFull, PlacesExact

\* One writer's places, when the others keep theirs.
LEMMA PlaceMoves ==
  ASSUME ProgressFull, NEW w \in ProgressWriters, pcOthers' = pcOthers,
         \A v \in ProgressWriters : v # w => pcWriter'[v].at = pcWriter[v].at,
         pcWriter'[w].at \in Reserving /\ pcWriter[w].at \notin Reserving
            => pcReserved' = pcReserved + 1 /\ pcReserved < Capacity,
         pcWriter'[w].at \notin Reserving /\ pcWriter[w].at \in Reserving
            => pcReserved' = pcReserved - 1,
         pcWriter'[w].at \in Reserving <=> pcWriter[w].at \in Reserving
            => pcReserved' = pcReserved
  PROVE  PlacesExact' /\ pcReserved' \in Nat
<1>1. /\ IsFiniteSet(Taken) /\ Cardinality(Taken) \in Nat /\ pcReserved \in Nat /\ pcOthers \in Nat
      /\ pcReserved = pcOthers + Cardinality(Taken) /\ pcReserved <= Capacity /\ Capacity \in Nat
      /\ \A v \in Taken : pcReserved >= pcOthers + 1
  BY TakenPlace, ProgressFacts DEF ProgressFull, PlacesExact
<1>2. Capacity' = Capacity
  BY DEF Capacity
<1>3. CASE pcWriter'[w].at \in Reserving /\ pcWriter[w].at \notin Reserving
  <2>1. Taken' = Taken \cup {w} /\ w \notin Taken
    BY <1>3 DEF Taken
  <2>2. Cardinality(Taken') = Cardinality(Taken) + 1
    BY <1>1, <2>1, FS_AddElement
  <2> QED BY <1>1, <1>2, <1>3, <2>2 DEF PlacesExact
<1>4. CASE pcWriter'[w].at \notin Reserving /\ pcWriter[w].at \in Reserving
  <2>1. Taken' = Taken \ {w} /\ w \in Taken
    BY <1>4 DEF Taken
  <2>2. Cardinality(Taken') = Cardinality(Taken) - 1
    BY <1>1, <2>1, FS_RemoveElement
  <2> QED BY <1>1, <1>2, <1>4, <2>1, <2>2 DEF PlacesExact
<1>5. CASE pcWriter'[w].at \in Reserving <=> pcWriter[w].at \in Reserving
  <2>1. Taken' = Taken
    BY <1>5 DEF Taken
  <2> QED BY <1>1, <1>2, <1>5, <2>1 DEF PlacesExact
<1> QED BY <1>3, <1>4, <1>5

\* A step of one writer that leaves the record and the comments alone.
Turns(w, m) ==
    /\ pcWriter' = [pcWriter EXCEPT ![w] = m] /\ m \in WriterRecord
    /\ UNCHANGED <<pcItems, pcCancelled, pcRow, pcComments, pcOthers, pcLostSession>>
    /\ pcFaults' \in 0 .. MaxProgressFaults
    /\ m.at \in Reserving /\ pcWriter[w].at \notin Reserving
          => pcReserved' = pcReserved + 1 /\ pcReserved < Capacity
    /\ m.at \notin Reserving /\ pcWriter[w].at \in Reserving => pcReserved' = pcReserved - 1
    /\ (m.at \in Reserving <=> pcWriter[w].at \in Reserving) => pcReserved' = pcReserved
    /\ pcLock' \in {pcLock, w, Nobody} /\ (pcLock' # pcLock => pcLock \in {w, Nobody})
    /\ m.at # "idle" => w[2] <= pcItems
    /\ m.live <=> m.at \in Locked \cup {"connected"}
    /\ pcLock' = w => m.at \in Locked
    /\ m.at = "editing" => Shown.item = w[2] /\ m.rev = Shown.rev
    /\ ~pcLostSession =>
         /\ m.at \in Locked => pcLock' = w
         /\ m.at \in {"prepared", "resolved"} => UpTo(w[2], m.rev)
         /\ m.at = "resolved" => m.target = Len(pcComments)
         /\ m.at \in {"prepared", "resolved", "sent"} /\ pcRow.owner = w[2] => pcRow.rev = m.rev

\* Such a step keeps the invariant: what the other writers rely on did not move.
LEMMA TurnKeeps ==
  ASSUME ProgressFull, NEW w \in ProgressWriters, NEW m, Turns(w, m)
  PROVE  ProgressFull'
<1>1. /\ ProgressTyped /\ pcWriter \in [ProgressWriters -> WriterRecord]
      /\ pcLock \in ProgressWriters \cup {Nobody}
  BY DEF ProgressFull, ProgressInv, ProgressTyped
<1>2. /\ pcWriter'[w] = m /\ \A v \in ProgressWriters : v # w => pcWriter'[v] = pcWriter[v]
      /\ pcWriter' \in [ProgressWriters -> WriterRecord]
  BY <1>1 DEF Turns
<1>3. PlacesExact' /\ pcReserved' \in Nat
  BY <1>2, PlaceMoves DEF Turns
<1>4. ProgressTyped'
  BY <1>1, <1>2, <1>3 DEF Turns, ProgressTyped
<1>5. Shown' = Shown /\ Shown.item \in Nat /\ Shown.rev \in Int
  BY <1>1, ShownTyped DEF Turns, Shown
<1>6. ASSUME NEW item \in Nat, NEW rev \in Int, UpTo(item, rev)
      PROVE  UpTo(item, rev)'
  <2>1. ASSUME NEW i \in 1 .. MaxProgressItems, Edits(i)'
        PROVE  i <= item /\ (i = item => pcWriter'[<<"cancel", i>>].rev <= rev)
    <3>1. <<"cancel", i>> \in ProgressWriters /\ <<"cancel", i>>[2] = i
      BY ProgressFacts
    <3>2. CASE <<"cancel", i>> = w
      BY <1>2, <1>5, <1>6, <2>1, <3>1, <3>2 DEF Turns, UpTo, Edits
    <3>3. CASE <<"cancel", i>> # w
      BY <1>2, <1>6, <2>1, <3>1, <3>3 DEF UpTo, Edits
    <3> QED BY <3>2, <3>3
  <2> QED BY <1>5, <1>6, <2>1 DEF UpTo
<1>7. /\ pcRow' = pcRow /\ pcItems' = pcItems /\ pcLostSession' = pcLostSession
      /\ pcComments' = pcComments /\ pcItems \in Nat /\ pcRow.rev \in Int
  BY <1>1, ProgressFacts DEF Turns, ProgressTyped
<1>8. ASSUME NEW v \in ProgressWriters
      PROVE  WriterSound(v)'
  <2>1. WriterSound(v) /\ v[2] \in Nat /\ pcWriter'[v] \in WriterRecord /\ pcWriter'[v].rev \in Int
    BY <1>2, ProgressFacts DEF ProgressFull, ProgressInv, WriterRecord
  <2>2. CASE v = w
    <3>1. m.rev \in Int
      BY <1>2, <2>1, <2>2
    <3>2. ~pcLostSession /\ m.at \in {"prepared", "resolved"} => UpTo(w[2], m.rev)'
      BY <1>6, <2>1, <2>2, <3>1 DEF Turns
    <3> QED BY <1>2, <1>7, <2>2, <3>2 DEF WriterSound, Turns, UpTo, Shown, Edits
  <2>3. CASE v # w
    <3>1. pcLock' = v <=> pcLock = v
      BY <1>1, <2>3, ProgressFacts DEF Turns
    <3>2. UpTo(v[2], pcWriter[v].rev) => UpTo(v[2], pcWriter[v].rev)'
      BY <1>2, <1>6, <2>1, <2>3
    <3>3. pcWriter'[v] = pcWriter[v]
      BY <1>2, <2>3
    <3> QED BY <1>7, <2>1, <3>1, <3>2, <3>3 DEF WriterSound, UpTo, Shown, Edits
  <2> QED BY <2>2, <2>3
<1>9. RowAhead' /\ OneProgressComment'
  BY <1>6, <1>7 DEF RowAhead, OneProgressComment, ProgressFull, ProgressInv
<1> QED BY <1>3, <1>4, <1>8, <1>9 DEF ProgressFull, ProgressInv

\* A writer's record with one field changed.
LEMMA WriterMoved ==
  ASSUME NEW me \in WriterRecord, NEW at \in Reserving \cup Resting
  PROVE  /\ [me EXCEPT !.at = at] \in WriterRecord
         /\ [me EXCEPT !.at = at, !.live = TRUE] \in WriterRecord
         /\ [me EXCEPT !.at = at, !.live = FALSE] \in WriterRecord
         /\ [me EXCEPT !.at = at, !.seen = NoComment] \in WriterRecord
         /\ \A n \in Nat : [me EXCEPT !.at = at, !.target = n] \in WriterRecord
         /\ \A rev \in 0 .. Conclusion : [RestingWriter EXCEPT !.at = at, !.rev = rev] \in WriterRecord
         /\ [RestingWriter EXCEPT !.at = at] \in WriterRecord
         /\ me.rev \in 0 .. Conclusion /\ me.at \in Reserving \cup Resting
<1>1. RestingWriter \in WriterRecord
  BY ProgressFacts
<1> QED BY <1>1 DEF WriterRecord

\* Places, connections and the lock.
LEMMA LockSteps ==
  ASSUME ProgressFull, NEW w \in ProgressWriters,
         ReservePlaces(w) \/ GivesUp(w) \/ Connect(w) \/ TryLock(w) \/ Unlock(w)
  PROVE  ProgressFull'
<1> DEFINE me == pcWriter[w]
<1>1. /\ me \in WriterRecord /\ WriterSound(w) /\ me.rev \in 0 .. Conclusion
      /\ pcFaults \in 0 .. MaxProgressFaults /\ pcLock \in ProgressWriters \cup {Nobody}
      /\ w # Nobody /\ MaxProgressFaults \in Nat
  <2>1. /\ me \in WriterRecord /\ WriterSound(w) /\ pcFaults \in 0 .. MaxProgressFaults
        /\ pcLock \in ProgressWriters \cup {Nobody}
    BY DEF ProgressFull, ProgressInv, ProgressTyped
  <2>2. me.rev \in 0 .. Conclusion
    BY <2>1 DEF WriterRecord
  <2> QED BY <2>1, <2>2, ProgressFacts, ProgressAssumption
<1>2. ProgressFault => pcFaults' \in 0 .. MaxProgressFaults
  BY <1>1 DEF ProgressFault
<1>3. /\ RestingWriter.live = FALSE
      /\ \A at : /\ [RestingWriter EXCEPT !.at = at, !.rev = me.rev].at = at
                 /\ [RestingWriter EXCEPT !.at = at, !.rev = me.rev].live = FALSE
                 /\ [RestingWriter EXCEPT !.rev = me.rev, !.at = at].at = at
                 /\ [RestingWriter EXCEPT !.rev = me.rev, !.at = at].live = FALSE
                 /\ [RestingWriter EXCEPT !.rev = me.rev, !.at = at]
                      = [RestingWriter EXCEPT !.at = at, !.rev = me.rev]
  BY DEF RestingWriter
<1>4. \A at : /\ [me EXCEPT !.at = at].at = at /\ [me EXCEPT !.at = at].live = me.live
              /\ [me EXCEPT !.at = at, !.live = TRUE].at = at
              /\ [me EXCEPT !.at = at, !.live = TRUE].live = TRUE
              /\ [me EXCEPT !.at = at, !.live = FALSE].at = at
              /\ [me EXCEPT !.at = at, !.live = FALSE].live = FALSE
  BY <1>1 DEF WriterRecord
<1>5. me.at # "idle" => w[2] <= pcItems
  BY <1>1 DEF WriterSound
<1>6. CASE ReservePlaces(w)
  <2> DEFINE m == [me EXCEPT !.at = "reserved"]
  <2>1. m \in WriterRecord
    BY <1>1, WriterMoved DEF Reserving
  <2>2. Turns(w, m)
    BY <1>1, <1>4, <1>6, <2>1 DEF Turns, ReservePlaces, Becomes, Reserving, Locked, WriterSound
  <2> QED BY <2>2, TurnKeeps
<1>7. CASE GivesUp(w)
  <2> DEFINE m == [RestingWriter EXCEPT !.at = "failed", !.rev = me.rev]
  <2>1. m \in WriterRecord
    BY <1>1, WriterMoved DEF Resting
  <2>2. m.at = "failed" /\ ~m.live
    BY <1>3
  <2>3. pcWriter' = [pcWriter EXCEPT ![w] = m]
    BY <1>7 DEF GivesUp, Becomes
  <2> HIDE DEF m
  <2>4. Turns(w, m)
    BY <1>1, <1>5, <1>7, <2>1, <2>2, <2>3 DEF Turns, GivesUp, Reserving, Locked, WriterSound
  <2> QED BY <2>4, TurnKeeps
<1>8. CASE Connect(w)
  <2> DEFINE m == [me EXCEPT !.at = "connected", !.live = TRUE]
  <2>1. m \in WriterRecord /\ m.at = "connected" /\ m.live
    BY <1>1, <1>4, WriterMoved DEF Reserving
  <2>2. pcWriter' = [pcWriter EXCEPT ![w] = m]
    BY <1>8 DEF Connect, Becomes
  <2> HIDE DEF m
  <2>3. Turns(w, m)
    BY <1>1, <1>5, <1>8, <2>1, <2>2 DEF Turns, Connect, Reserving, Locked, WriterSound
  <2> QED BY <2>3, TurnKeeps
<1>9. CASE TryLock(w)
  <2>1. /\ me.at = "connected"
        /\ UNCHANGED <<pcItems, pcCancelled, pcRow, pcComments, pcOthers, pcLostSession>>
    BY <1>9 DEF TryLock
  <2>2. CASE /\ ~LockTaken /\ pcLock' = w /\ Becomes(w, [me EXCEPT !.at = "locked"])
             /\ UNCHANGED <<pcReserved, pcFaults>>
    <3> DEFINE m == [me EXCEPT !.at = "locked"]
    <3>1. m \in WriterRecord /\ m.at = "locked" /\ m.live = me.live
      BY <1>1, <1>4, WriterMoved DEF Reserving, Locked
    <3>2. pcWriter' = [pcWriter EXCEPT ![w] = m]
      BY <2>2 DEF Becomes
    <3> HIDE DEF m
    <3>3. Turns(w, m)
      BY <1>1, <1>5, <2>1, <2>2, <3>1, <3>2 DEF Turns, LockTaken, Reserving, Locked, WriterSound
    <3> QED BY <3>3, TurnKeeps
  <2>3. CASE /\ LockTaken /\ pcReserved' = PlacesAfterRelease
             /\ Becomes(w, [me EXCEPT !.at = "waiting", !.live = FALSE])
             /\ UNCHANGED <<pcLock, pcFaults>>
    <3> DEFINE m == [me EXCEPT !.at = "waiting", !.live = FALSE]
    <3>1. m \in WriterRecord /\ m.at = "waiting" /\ ~m.live
      BY <1>1, <1>4, WriterMoved DEF Resting
    <3>2. pcWriter' = [pcWriter EXCEPT ![w] = m]
      BY <2>3 DEF Becomes
    <3> HIDE DEF m
    <3>3. Turns(w, m)
      BY <1>1, <1>5, <2>1, <2>3, <3>1, <3>2
         DEF Turns, PlacesAfterRelease, Reserving, Locked, WriterSound
    <3> QED BY <3>3, TurnKeeps
  <2>4. CASE /\ ProgressFault /\ ~LockTaken /\ LateLock(w) /\ pcReserved' = PlacesAfterRelease
             /\ Becomes(w, [RestingWriter EXCEPT !.at = "failed", !.rev = me.rev])
    <3> DEFINE m == [RestingWriter EXCEPT !.at = "failed", !.rev = me.rev]
    <3>1. m \in WriterRecord /\ m.at = "failed" /\ ~m.live
      BY <1>1, <1>3, WriterMoved DEF Resting
    <3>2. pcWriter' = [pcWriter EXCEPT ![w] = m]
      BY <2>4 DEF Becomes
    <3> HIDE DEF m
    <3>3. Turns(w, m)
      BY <1>1, <1>2, <1>5, <2>1, <2>4, <3>1, <3>2
         DEF Turns, LateLock, PlacesAfterRelease, Reserving, Locked, WriterSound
    <3> QED BY <3>3, TurnKeeps
  <2> QED BY <1>9, <2>2, <2>3, <2>4 DEF TryLock
<1>10. CASE Unlock(w)
  <2> DEFINE at == IF me.at = "unlock" THEN "done" ELSE "failed"
             m == [RestingWriter EXCEPT !.rev = me.rev, !.at = at]
  <2>1. at \in {"done", "failed"}
    OBVIOUS
  <2>2. pcWriter' = [pcWriter EXCEPT ![w] = m]
    BY <1>10 DEF Unlock, Becomes
  <2> HIDE DEF at
  <2>3. m \in WriterRecord /\ m.at = at /\ ~m.live
    BY <1>1, <1>3, <2>1, WriterMoved DEF Resting
  <2> HIDE DEF m
  <2>4. Turns(w, m)
    BY <1>1, <1>5, <1>10, <2>1, <2>2, <2>3
       DEF Turns, Unlock, PlacesAfterRelease, Reserving, Locked, WriterSound
  <2> QED BY <2>4, TurnKeeps
<1> QED BY <1>6, <1>7, <1>8, <1>9, <1>10

\* Reading the comment, finding that nothing is to be written, and looking for the comment's id.
LEMMA ReadSteps ==
  ASSUME ProgressFull, NEW w \in ProgressWriters,
         \/ findProgressComment(w)
         \/ prepareSummaryCommentAtRevision(w) /\ pcWriter'[w].at \in {"error", "unlock"}
         \/ upsertSummaryCommentWithoutRevision(w)
         \/ RecordSent(w) /\ ~(pcLock = w /\ MayRecord(w))
  PROVE  ProgressFull'
<1> DEFINE me == pcWriter[w]
<1>1. /\ me \in WriterRecord /\ WriterSound(w) /\ pcFaults \in 0 .. MaxProgressFaults
      /\ pcLock \in ProgressWriters \cup {Nobody} /\ w # Nobody /\ ProgressTyped
      /\ pcWriter \in [ProgressWriters -> WriterRecord]
  BY ProgressFacts DEF ProgressFull, ProgressInv, ProgressTyped
<1>2. me.at # "idle" => w[2] <= pcItems
  BY <1>1 DEF WriterSound
<1>3. \A at : /\ [me EXCEPT !.at = at].at = at /\ [me EXCEPT !.at = at].live = me.live
              /\ [me EXCEPT !.at = at].rev = me.rev
              /\ \A x : /\ [me EXCEPT !.at = at, !.seen = x].at = at
                        /\ [me EXCEPT !.at = at, !.seen = x].live = me.live
                        /\ [me EXCEPT !.at = at, !.seen = x].rev = me.rev
                        /\ [me EXCEPT !.at = at, !.target = x].at = at
                        /\ [me EXCEPT !.at = at, !.target = x].live = me.live
                        /\ [me EXCEPT !.at = at, !.target = x].rev = me.rev
                        /\ [me EXCEPT !.at = at, !.target = x].target = x
  BY <1>1 DEF WriterRecord
<1>4. Shown \in ProgressBody \cup {NoComment} /\ Len(pcComments) \in Nat
  BY <1>1, ShownTyped DEF ProgressTyped
<1>5. ASSUME NEW m \in WriterRecord, m.at \in {"found", "error", "unlock", "resolved"},
             m.live = me.live, m.rev = me.rev, me.at \in Locked,
             m.at = "resolved" => me.at = "prepared" /\ m.target = Len(pcComments),
             pcWriter' = [pcWriter EXCEPT ![w] = m],
             UNCHANGED <<pcItems, pcCancelled, pcRow, pcComments, pcReserved, pcOthers, pcLock,
                         pcFaults, pcLostSession>>
      PROVE  ProgressFull'
  <2>1. Turns(w, m)
    BY <1>1, <1>2, <1>5 DEF Turns, Reserving, Locked, WriterSound
  <2> QED BY <2>1, TurnKeeps
<1>6. CASE findProgressComment(w)
  <2> DEFINE m == [me EXCEPT !.at = "found", !.seen = Shown]
  <2>1. m \in WriterRecord
    BY <1>1, <1>4 DEF WriterRecord, Reserving, Locked
  <2>2. m.at = "found" /\ m.live = me.live /\ m.rev = me.rev
    BY <1>3
  <2>3. pcWriter' = [pcWriter EXCEPT ![w] = m] /\ me.at = "locked"
    BY <1>6 DEF findProgressComment, Becomes
  <2> HIDE DEF m
  <2> QED BY <1>5, <1>6, <2>1, <2>2, <2>3 DEF findProgressComment, Locked
<1>7. CASE prepareSummaryCommentAtRevision(w) /\ pcWriter'[w].at \in {"error", "unlock"}
  <2> DEFINE e == [me EXCEPT !.at = "error"]
             u == [me EXCEPT !.at = "unlock", !.seen = NoComment]
             r == [me EXCEPT !.at = "prepared", !.seen = NoComment]
  <2>1. me.at = "found" /\ e \in WriterRecord /\ u \in WriterRecord
    BY <1>1, <1>7, WriterMoved DEF prepareSummaryCommentAtRevision, Reserving, Locked
  <2>2. /\ e.at = "error" /\ e.live = me.live /\ e.rev = me.rev
        /\ u.at = "unlock" /\ u.live = me.live /\ u.rev = me.rev /\ r.at = "prepared"
    BY <1>3
  <2>3. \/ pcWriter' = [pcWriter EXCEPT ![w] = e] /\ UNCHANGED pcRow
        \/ pcWriter' = [pcWriter EXCEPT ![w] = u] /\ UNCHANGED pcRow
        \/ pcWriter' = [pcWriter EXCEPT ![w] = r]
    BY <1>7 DEF prepareSummaryCommentAtRevision, Becomes
  <2>4. pcWriter' = [pcWriter EXCEPT ![w] = r] => pcWriter'[w] = r
    BY <1>1
  <2> HIDE DEF e, u, r
  <2>5. pcWriter' # [pcWriter EXCEPT ![w] = r]
    BY <1>7, <2>2, <2>4
  <2>6. UNCHANGED <<pcItems, pcCancelled, pcComments, pcReserved, pcOthers, pcLock, pcFaults, pcLostSession>>
    BY <1>7 DEF prepareSummaryCommentAtRevision
  <2>7. CASE pcWriter' = [pcWriter EXCEPT ![w] = e] /\ UNCHANGED pcRow
    BY <1>5, <2>1, <2>2, <2>6, <2>7 DEF Locked
  <2>8. CASE pcWriter' = [pcWriter EXCEPT ![w] = u] /\ UNCHANGED pcRow
    BY <1>5, <2>1, <2>2, <2>6, <2>8 DEF Locked
  <2> QED BY <2>3, <2>5, <2>7, <2>8
<1>8. CASE upsertSummaryCommentWithoutRevision(w)
  <2> DEFINE e == [me EXCEPT !.at = "error"]
             r == [me EXCEPT !.at = "resolved", !.target = Len(pcComments)]
  <2>1. me.at = "prepared" /\ e \in WriterRecord /\ r \in WriterRecord
    BY <1>1, <1>4, <1>8, WriterMoved DEF upsertSummaryCommentWithoutRevision, Reserving, Locked
  <2>2. /\ e.at = "error" /\ e.live = me.live /\ e.rev = me.rev
        /\ r.at = "resolved" /\ r.live = me.live /\ r.rev = me.rev /\ r.target = Len(pcComments)
    BY <1>3
  <2>3. pcWriter' = [pcWriter EXCEPT ![w] = e] \/ pcWriter' = [pcWriter EXCEPT ![w] = r]
    BY <1>8 DEF upsertSummaryCommentWithoutRevision, Becomes
  <2>4. UNCHANGED <<pcItems, pcCancelled, pcRow, pcComments, pcReserved, pcOthers, pcLock, pcFaults, pcLostSession>>
    BY <1>8 DEF upsertSummaryCommentWithoutRevision
  <2> HIDE DEF e, r
  <2>5. CASE pcWriter' = [pcWriter EXCEPT ![w] = e]
    BY <1>5, <2>1, <2>2, <2>4, <2>5 DEF Locked
  <2>6. CASE pcWriter' = [pcWriter EXCEPT ![w] = r]
    BY <1>5, <2>1, <2>2, <2>4, <2>6 DEF Locked
  <2> QED BY <2>3, <2>5, <2>6
<1>9. CASE RecordSent(w) /\ ~(pcLock = w /\ MayRecord(w))
  <2> DEFINE e == [me EXCEPT !.at = "error"]
  <2>1. me.at = "sent" /\ e \in WriterRecord
    BY <1>1, <1>9, WriterMoved DEF RecordSent, Reserving, Locked
  <2>2. e.at = "error" /\ e.live = me.live /\ e.rev = me.rev
    BY <1>3
  <2>3. /\ pcWriter' = [pcWriter EXCEPT ![w] = e]
        /\ UNCHANGED <<pcItems, pcCancelled, pcRow, pcComments, pcReserved, pcOthers, pcLock,
                       pcFaults, pcLostSession>>
    BY <1>9 DEF RecordSent, Becomes
  <2> HIDE DEF e
  <2> QED BY <1>5, <2>1, <2>2, <2>3 DEF Locked
<1> QED BY <1>6, <1>7, <1>8, <1>9

\* A writer that begins: a stub, a tick, a cancellation notice.
LEMMA BeginSteps ==
  ASSUME ProgressFull, NEW i \in 1 .. MaxProgressItems,
         publishAckProgress(i) \/ tickProgressComment(i) \/ publishCancelProgress(i)
  PROVE  ProgressFull'
<1>1. /\ pcWriter \in [ProgressWriters -> WriterRecord] /\ pcItems \in Nat
      /\ pcFaults \in 0 .. MaxProgressFaults /\ ProgressTyped
      /\ pcCancelled \subseteq 1 .. pcItems
      /\ \A w \in ProgressWriters : WriterSound(w)
  BY ProgressAssumption DEF ProgressFull, ProgressInv, ProgressTyped
<1>2. \A k \in {"ack", "work", "cancel"} : <<k, i>> \in ProgressWriters /\ <<k, i>>[2] = i
  BY ProgressFacts
<1>3. ASSUME NEW w \in ProgressWriters, w[2] = i, i <= pcItems,
             NEW m \in WriterRecord, m.at \in {"waiting", "editing"}, ~m.live,
             m.at = "editing" => Shown.item = i /\ m.rev = Shown.rev,
             pcWriter[w].at \in {"idle", "done", "failed"},
             pcWriter' = [pcWriter EXCEPT ![w] = m],
             UNCHANGED <<pcItems, pcCancelled, pcRow, pcComments, pcReserved, pcOthers, pcLock,
                         pcFaults, pcLostSession>>
      PROVE  ProgressFull'
  <2>1. WriterSound(w)
    BY <1>1
  <2>2. pcLock # w
    BY <1>3, <2>1 DEF WriterSound, Locked
  <2>3. Turns(w, m)
    BY <1>1, <1>3, <2>2 DEF Turns, Reserving, Locked
  <2> QED BY <2>3, TurnKeeps
<1>4. \A at \in Resting : \A rev \in 0 .. Conclusion :
        LET m == [RestingWriter EXCEPT !.at = at, !.rev = rev] IN
        m \in WriterRecord /\ m.at = at /\ m.rev = rev /\ ~m.live
  <2>1. RestingWriter \in WriterRecord /\ RestingWriter.live = FALSE
    BY ProgressFacts DEF RestingWriter
  <2> QED BY <2>1 DEF WriterRecord
<1>5. \A at \in Resting : LET m == [RestingWriter EXCEPT !.at = at] IN
        m \in WriterRecord /\ m.at = at /\ ~m.live
  <2>1. RestingWriter \in WriterRecord /\ RestingWriter.live = FALSE
    BY ProgressFacts DEF RestingWriter
  <2> QED BY <2>1 DEF WriterRecord
<1>6. CASE publishAckProgress(i)
  <2> DEFINE m == [RestingWriter EXCEPT !.at = "waiting"]
  <2>1. m \in WriterRecord /\ m.at = "waiting" /\ ~m.live
    BY <1>5 DEF Resting
  <2> HIDE DEF m
  <2>2. /\ i <= pcItems /\ pcWriter[<<"ack", i>>].at = "idle"
        /\ pcWriter' = [pcWriter EXCEPT ![<<"ack", i>>] = m]
        /\ UNCHANGED <<pcItems, pcCancelled, pcRow, pcComments, pcReserved, pcOthers, pcLock,
                       pcFaults, pcLostSession>>
    BY <1>6 DEF publishAckProgress, Becomes, m
  <2> QED BY <1>2, <1>3, <2>1, <2>2
<1>7. CASE tickProgressComment(i)
  <2> DEFINE w == <<"work", i>>
             m == [RestingWriter EXCEPT !.at = "waiting", !.rev = pcWriter[w].rev + 1]
  <2>1. pcWriter[w].rev + 1 \in 0 .. Conclusion
    BY <1>1, <1>2, <1>7, ProgressFacts DEF tickProgressComment, WriterRecord
  <2>2. m \in WriterRecord /\ m.at = "waiting" /\ ~m.live
    BY <1>4, <2>1 DEF Resting
  <2>3. /\ i <= pcItems /\ pcWriter[w].at \in {"idle", "done", "failed"}
        /\ pcWriter' = [pcWriter EXCEPT ![w] = m]
        /\ UNCHANGED <<pcItems, pcCancelled, pcRow, pcComments, pcReserved, pcOthers, pcLock,
                       pcFaults, pcLostSession>>
    BY <1>7 DEF tickProgressComment, Becomes
  <2> HIDE DEF m
  <2> QED BY <1>2, <1>3, <2>2, <2>3
<1>8. CASE publishCancelProgress(i)
  <2> DEFINE w == <<"cancel", i>>
             edit == [RestingWriter EXCEPT !.at = "editing", !.rev = Shown.rev]
             wait == [RestingWriter EXCEPT !.at = "waiting"]
  <2>1. /\ i <= pcItems /\ pcWriter[w].at = "idle"
        /\ UNCHANGED <<pcItems, pcCancelled, pcRow, pcComments, pcReserved, pcOthers, pcLock,
                       pcFaults, pcLostSession>>
    BY <1>1, <1>8 DEF publishCancelProgress
  <2>2. CASE Shown # NoComment /\ Shown.item = i
    <3>1. Shown.rev \in 0 .. Conclusion
      BY <1>1, <2>2, ShownTyped DEF ProgressBody
    <3>2. edit \in WriterRecord /\ edit.at = "editing" /\ edit.rev = Shown.rev /\ ~edit.live
      BY <1>4, <3>1 DEF Resting
    <3>3. pcWriter' = [pcWriter EXCEPT ![w] = edit]
      BY <1>8, <2>2 DEF publishCancelProgress, Becomes
    <3> HIDE DEF edit
    <3> QED BY <1>2, <1>3, <2>1, <2>2, <3>2, <3>3
  <2>3. CASE ~(Shown # NoComment /\ Shown.item = i)
    <3>1. wait \in WriterRecord /\ wait.at = "waiting" /\ ~wait.live
      BY <1>5 DEF Resting
    <3>2. pcWriter' = [pcWriter EXCEPT ![w] = wait]
      BY <1>8, <2>3 DEF publishCancelProgress, Becomes
    <3> HIDE DEF wait
    <3> QED BY <1>2, <1>3, <2>1, <3>1, <3>2
  <2> QED BY <2>2, <2>3
<1> QED BY <1>6, <1>7, <1>8

\* What a write relies on grows with the revision, and reads only the comment and the notices.
LEMMA UpToGrows ==
  ASSUME ProgressFull, NEW item \in Nat, NEW rev \in Int, NEW later \in Int, rev <= later,
         UpTo(item, rev)
  PROVE  UpTo(item, later)
<1>1. Shown.rev \in Int
  BY ShownTyped DEF ProgressFull, ProgressInv
<1>2. \A i \in 1 .. MaxProgressItems : pcWriter[<<"cancel", i>>].rev \in Int
  <2>1. \A w \in ProgressWriters : pcWriter[w].rev \in Int
    BY ProgressFacts DEF ProgressFull, ProgressInv, ProgressTyped, WriterRecord
  <2> QED BY <2>1, ProgressFacts
<1> QED BY <1>1, <1>2 DEF UpTo

\* The record is brought to the revision about to be written, or that was just written.
LEMMA RecordKeeps ==
  ASSUME ProgressFull, NEW w \in ProgressWriters, NEW m \in WriterRecord,
         pcWriter[w].at \in {"found", "sent"}, pcLock = w, ~ForeignOwner(w),
         m.at \in {"prepared", "unlock"}, m.live = pcWriter[w].live, m.rev = pcWriter[w].rev,
         ~pcLostSession => pcRow.rev <= pcWriter[w].rev,
         recordProgress(w), pcWriter' = [pcWriter EXCEPT ![w] = m],
         UNCHANGED <<pcItems, pcCancelled, pcComments, pcReserved, pcOthers, pcLock, pcFaults,
                     pcLostSession>>
  PROVE  ProgressFull'
<1> DEFINE me == pcWriter[w]
<1>1. /\ ProgressTyped /\ pcWriter \in [ProgressWriters -> WriterRecord] /\ WriterSound(w)
      /\ pcItems \in Nat /\ w[2] \in 1 .. MaxProgressItems /\ pcRow.rev \in Int
      /\ me.rev \in 0 .. Conclusion /\ me.rev \in Int
  <2>1. /\ ProgressTyped /\ pcWriter \in [ProgressWriters -> WriterRecord] /\ WriterSound(w)
        /\ pcItems \in Nat /\ pcRow.rev \in Int
    BY ProgressAssumption, ProgressFacts DEF ProgressFull, ProgressInv, ProgressTyped
  <2>2. me.rev \in 0 .. Conclusion
    BY <2>1 DEF WriterRecord
  <2> QED BY <2>1, <2>2, ProgressFacts
<1>2. /\ pcWriter'[w] = m /\ \A v \in ProgressWriters : v # w => pcWriter'[v] = pcWriter[v]
      /\ pcWriter' \in [ProgressWriters -> WriterRecord]
  BY <1>1
<1>3. w[2] = pcItems /\ pcRow.owner = pcItems
  BY <1>1 DEF ForeignOwner, ProgressTyped, WriterSound
<1>4. PlacesExact' /\ pcReserved' \in Nat
  BY <1>2, PlaceMoves DEF Reserving, Locked
<1>5. pcRow' = [owner |-> pcItems, rev |-> me.rev]
  BY <1>3 DEF recordProgress
<1>6. ProgressTyped'
  BY <1>1, <1>2, <1>4, <1>5, ProgressAssumption DEF ProgressTyped
<1>7. \A item, rev : UpTo(item, rev) => UpTo(item, rev)'
  <2>1. Shown' = Shown
    BY DEF Shown
  <2>2. \A i \in 1 .. MaxProgressItems :
          Edits(i)' => Edits(i) /\ pcWriter'[<<"cancel", i>>] = pcWriter[<<"cancel", i>>]
    BY <1>2, ProgressFacts DEF Edits
  <2> QED BY <2>1, <2>2 DEF UpTo
<1>8. ~pcLostSession => UpTo(pcItems, me.rev)
  BY <1>1, <1>3, UpToGrows DEF RowAhead, ProgressFull, ProgressInv
<1>9. RowAhead'
  BY <1>5, <1>7, <1>8 DEF RowAhead
<1>10. ASSUME NEW v \in ProgressWriters
       PROVE  WriterSound(v)'
  <2>1. WriterSound(v)
    BY DEF ProgressFull, ProgressInv
  <2>2. CASE v = w
    <3>1. ~pcLostSession => UpTo(w[2], m.rev)'
      BY <1>3, <1>7, <1>8
    <3> QED BY <1>2, <1>3, <1>5, <2>1, <2>2, <3>1 DEF WriterSound, UpTo, Shown, Edits, Locked
  <2>3. CASE v # w
    <3>1. ~pcLostSession => pcWriter[v].at \notin Locked
      BY <2>1, <2>3 DEF WriterSound
    <3> QED BY <1>2, <2>1, <2>3, <3>1 DEF WriterSound, Locked
  <2> QED BY <2>2, <2>3
<1>11. OneProgressComment'
  BY DEF OneProgressComment, ProgressFull, ProgressInv
<1> QED BY <1>4, <1>6, <1>9, <1>10, <1>11 DEF ProgressFull, ProgressInv

\* The two steps that record a revision.
LEMMA RecordSteps ==
  ASSUME ProgressFull, NEW w \in ProgressWriters,
         \/ prepareSummaryCommentAtRevision(w) /\ pcWriter'[w].at \notin {"error", "unlock"}
         \/ RecordSent(w) /\ pcLock = w /\ MayRecord(w)
  PROVE  ProgressFull'
<1> DEFINE me == pcWriter[w]
<1>1. /\ me \in WriterRecord /\ WriterSound(w) /\ me.rev \in Int /\ pcRow.rev \in Int
      /\ pcWriter \in [ProgressWriters -> WriterRecord] /\ ProgressTyped
  BY ProgressFacts DEF ProgressFull, ProgressInv, ProgressTyped, WriterRecord
<1>2. \A at : /\ [me EXCEPT !.at = at].at = at /\ [me EXCEPT !.at = at].live = me.live
              /\ [me EXCEPT !.at = at].rev = me.rev
              /\ [me EXCEPT !.at = at, !.seen = NoComment].at = at
              /\ [me EXCEPT !.at = at, !.seen = NoComment].live = me.live
              /\ [me EXCEPT !.at = at, !.seen = NoComment].rev = me.rev
  BY <1>1 DEF WriterRecord
<1>3. CASE prepareSummaryCommentAtRevision(w) /\ pcWriter'[w].at \notin {"error", "unlock"}
  <2> DEFINE e == [me EXCEPT !.at = "error"]
             u == [me EXCEPT !.at = "unlock", !.seen = NoComment]
             r == [me EXCEPT !.at = "prepared", !.seen = NoComment]
  <2>1. me.at = "found" /\ r \in WriterRecord
    BY <1>1, <1>3, WriterMoved DEF prepareSummaryCommentAtRevision, Reserving, Locked
  <2>2. e.at = "error" /\ u.at = "unlock" /\ r.at = "prepared" /\ r.live = me.live /\ r.rev = me.rev
    BY <1>2
  <2>3. \/ pcWriter' = [pcWriter EXCEPT ![w] = e]
        \/ pcWriter' = [pcWriter EXCEPT ![w] = u]
        \/ /\ pcLock = w /\ ~ForeignOwner(w) /\ ~AlreadyThere(w)
           /\ recordProgress(w) /\ pcWriter' = [pcWriter EXCEPT ![w] = r]
    BY <1>3 DEF prepareSummaryCommentAtRevision, Becomes
  <2>4. UNCHANGED <<pcItems, pcCancelled, pcComments, pcReserved, pcOthers, pcLock, pcFaults, pcLostSession>>
    BY <1>3 DEF prepareSummaryCommentAtRevision
  <2> HIDE DEF e, u, r
  <2>5. \A x : pcWriter' = [pcWriter EXCEPT ![w] = x] => pcWriter'[w] = x
    BY <1>1
  <2>6. /\ pcLock = w /\ ~ForeignOwner(w) /\ ~AlreadyThere(w)
        /\ recordProgress(w) /\ pcWriter' = [pcWriter EXCEPT ![w] = r]
    BY <1>3, <2>2, <2>3, <2>5
  <2>7. pcRow.owner = w[2]
    BY <1>1, <2>1, <2>6, ProgressFacts DEF ForeignOwner, WriterSound, ProgressTyped
  <2>8. pcRow.rev <= me.rev
    BY <1>1, <2>6, <2>7 DEF AlreadyThere
  <2> QED BY <2>1, <2>2, <2>4, <2>6, <2>8, RecordKeeps
<1>4. CASE RecordSent(w) /\ pcLock = w /\ MayRecord(w)
  <2> DEFINE u == [me EXCEPT !.at = "unlock"]
  <2>1. me.at = "sent" /\ u \in WriterRecord
    BY <1>1, <1>4, WriterMoved DEF RecordSent, Reserving, Locked
  <2>2. u.at = "unlock" /\ u.live = me.live /\ u.rev = me.rev
    BY <1>2
  <2>3. /\ pcWriter' = [pcWriter EXCEPT ![w] = u] /\ recordProgress(w) /\ ~ForeignOwner(w)
        /\ UNCHANGED <<pcItems, pcCancelled, pcComments, pcReserved, pcOthers, pcLock, pcFaults,
                       pcLostSession>>
    BY <1>4 DEF RecordSent, Becomes, MayRecord
  <2> HIDE DEF u
  <2>4. ~pcLostSession => pcRow.rev <= me.rev
    BY <1>1, <2>1, <2>3, ProgressFacts DEF ForeignOwner, WriterSound, ProgressTyped
  <2> QED BY <1>4, <2>1, <2>2, <2>3, <2>4, RecordKeeps
<1> QED BY <1>3, <1>4

\* The first item of a sequence is replaced.
LEMMA FirstReplaced ==
  ASSUME NEW S, NEW s \in Seq(S), NEW e \in S
  PROVE  [s EXCEPT ![1] = e] \in Seq(S) /\ Len([s EXCEPT ![1] = e]) = Len(s)
<1>1. CASE 1 \in 1 .. Len(s)
  BY <1>1, ExceptSeq
<1>2. CASE 1 \notin 1 .. Len(s)
  <2>1. [s EXCEPT ![1] = e] = [n \in DOMAIN s |-> IF n = 1 THEN e ELSE s[n]]
    OBVIOUS
  <2>2. s = [n \in DOMAIN s |-> s[n]]
    OBVIOUS
  <2>3. DOMAIN s = 1 .. Len(s)
    OBVIOUS
  <2>4. [s EXCEPT ![1] = e] = s
    BY <1>2, <2>1, <2>2, <2>3
  <2> QED BY <2>4
<1> QED BY <1>1, <1>2

\* The comment is written: what is shown is the body, and there is one comment while no session
\* was lost.
LEMMA Upserted ==
  ASSUME ProgressFull, NEW w \in ProgressWriters, upsertReviewSummaryComment(w)
  PROVE  /\ pcComments' \in Seq(ProgressBody)
         /\ \A n \in DOMAIN pcComments' : pcComments'[n].item <= pcItems
         /\ ~pcLostSession => /\ Shown' = [item |-> w[2], rev |-> pcWriter[w].rev]
                              /\ Len(pcComments') <= 1 /\ UpTo(w[2], pcWriter[w].rev)
<1> DEFINE me == pcWriter[w]
           body == [item |-> w[2], rev |-> me.rev]
<1>1. /\ me \in WriterRecord /\ WriterSound(w) /\ ProgressTyped /\ me.at = "resolved"
      /\ pcComments \in Seq(ProgressBody) /\ OneProgressComment /\ me.target \in Nat
      /\ \A n \in DOMAIN pcComments : pcComments[n].item <= pcItems
  BY DEF ProgressFull, ProgressInv, ProgressTyped, upsertReviewSummaryComment, WriterRecord
<1>2. body \in ProgressBody /\ body.item <= pcItems
  BY <1>1, ProgressFacts DEF ProgressBody, WriterRecord, WriterSound
<1>3. \/ me.target = 0 /\ pcComments' = Append(pcComments, body)
      \/ me.target # 0 /\ pcComments' = [pcComments EXCEPT ![1] = body]
  BY DEF upsertReviewSummaryComment
<1>4. ~pcLostSession => me.target = Len(pcComments) /\ Len(pcComments) <= 1 /\ UpTo(w[2], me.rev)
  BY <1>1 DEF WriterSound, OneProgressComment
<1> HIDE DEF body
<1>5. CASE me.target = 0 /\ pcComments' = Append(pcComments, body)
  <2>1. /\ pcComments' \in Seq(ProgressBody)
        /\ \A n \in DOMAIN pcComments' : pcComments'[n].item <= pcItems
    BY <1>1, <1>2, <1>5
  <2>2. ~pcLostSession => Len(pcComments') <= 1 /\ pcComments' # <<>> /\ Head(pcComments') = body
    <3>1. ~pcLostSession => pcComments = <<>>
      BY <1>1, <1>4, <1>5
    <3>2. Append(<<>>, body) = <<body>> /\ Head(<<body>>) = body /\ Len(<<body>>) = 1 /\ <<body>> # <<>>
      OBVIOUS
    <3> QED BY <1>5, <3>1, <3>2
  <2> QED BY <1>4, <2>1, <2>2 DEF Shown, body
<1>6. CASE me.target # 0 /\ pcComments' = [pcComments EXCEPT ![1] = body]
  <2>1. /\ pcComments' \in Seq(ProgressBody) /\ Len(pcComments') = Len(pcComments)
        /\ \A n \in DOMAIN pcComments' : pcComments'[n].item <= pcItems
    <3>1. /\ DOMAIN pcComments' = DOMAIN pcComments
          /\ \A n \in DOMAIN pcComments : pcComments'[n] = IF n = 1 THEN body ELSE pcComments[n]
      BY <1>6
    <3>2. /\ DOMAIN pcComments = 1 .. Len(pcComments)
          /\ \A n \in DOMAIN pcComments : pcComments[n] \in ProgressBody
      BY <1>1
    <3>3. pcComments' \in Seq(ProgressBody) /\ Len(pcComments') = Len(pcComments)
      BY <1>1, <1>2, <1>6, FirstReplaced
    <3>4. ASSUME NEW n \in DOMAIN pcComments'
          PROVE  pcComments'[n].item <= pcItems
      <4>1. CASE n = 1
        BY <1>2, <3>1, <4>1
      <4>2. CASE n # 1
        BY <1>1, <3>1, <4>2
      <4> QED BY <4>1, <4>2
    <3> QED BY <3>3, <3>4
  <2>2. ~pcLostSession => Len(pcComments') <= 1 /\ pcComments' # <<>> /\ Head(pcComments') = body
    <3>1. ~pcLostSession => 1 \in DOMAIN pcComments /\ Len(pcComments') <= 1 /\ Len(pcComments') # 0
      <4>1. Len(pcComments) \in Nat /\ DOMAIN pcComments = 1 .. Len(pcComments)
        BY <1>1
      <4>2. ~pcLostSession => Len(pcComments) = 1
        BY <1>4, <1>6, <4>1
      <4> QED BY <2>1, <4>1, <4>2
    <3>2. 1 \in DOMAIN pcComments => pcComments'[1] = body
      BY <1>1, <1>6
    <3>3. pcComments' # <<>> => Head(pcComments') = pcComments'[1]
      BY <2>1
    <3> QED BY <2>1, <3>1, <3>2, <3>3
  <2> QED BY <1>4, <2>1, <2>2 DEF Shown, body
<1> QED BY <1>3, <1>5, <1>6

\* The comment is created or edited, and the answer may be lost.
LEMMA UpsertStep ==
  ASSUME ProgressFull, NEW w \in ProgressWriters, upsertReviewSummaryComment(w)
  PROVE  ProgressFull'
<1> DEFINE me == pcWriter[w]
<1>1. /\ me \in WriterRecord /\ WriterSound(w) /\ ProgressTyped /\ me.at = "resolved"
      /\ pcWriter \in [ProgressWriters -> WriterRecord] /\ me.rev \in Int
      /\ pcFaults \in 0 .. MaxProgressFaults /\ pcItems \in Nat /\ MaxProgressFaults \in Nat
  <2>1. /\ me \in WriterRecord /\ WriterSound(w) /\ ProgressTyped /\ me.at = "resolved"
        /\ pcWriter \in [ProgressWriters -> WriterRecord]
        /\ pcFaults \in 0 .. MaxProgressFaults /\ pcItems \in Nat /\ MaxProgressFaults \in Nat
    BY ProgressAssumption DEF ProgressFull, ProgressInv, ProgressTyped, upsertReviewSummaryComment
  <2>2. me.rev \in Int
    BY <2>1, ProgressFacts DEF WriterRecord
  <2> QED BY <2>1, <2>2
<1>2. \E m \in WriterRecord : /\ m.at \in {"sent", "error"} /\ m.live = me.live /\ m.rev = me.rev
                              /\ pcWriter' = [pcWriter EXCEPT ![w] = m]
  <2>1. /\ [me EXCEPT !.at = "sent", !.target = 0] \in WriterRecord
        /\ [me EXCEPT !.at = "error"] \in WriterRecord
    BY <1>1, WriterMoved DEF Reserving, Locked
  <2>2. \/ pcWriter' = [pcWriter EXCEPT ![w] = [me EXCEPT !.at = "sent", !.target = 0]]
        \/ pcWriter' = [pcWriter EXCEPT ![w] = [me EXCEPT !.at = "error"]]
    BY DEF upsertReviewSummaryComment, Becomes
  <2>3. /\ [me EXCEPT !.at = "sent", !.target = 0].at = "sent"
        /\ [me EXCEPT !.at = "sent", !.target = 0].live = me.live
        /\ [me EXCEPT !.at = "sent", !.target = 0].rev = me.rev
        /\ [me EXCEPT !.at = "error"].at = "error"
        /\ [me EXCEPT !.at = "error"].live = me.live
        /\ [me EXCEPT !.at = "error"].rev = me.rev
    BY <1>1 DEF WriterRecord
  <2> QED BY <2>1, <2>2, <2>3
<1>3. PICK m \in WriterRecord : /\ m.at \in {"sent", "error"} /\ m.live = me.live /\ m.rev = me.rev
                                /\ pcWriter' = [pcWriter EXCEPT ![w] = m]
  BY <1>2
<1>4. /\ UNCHANGED <<pcItems, pcCancelled, pcRow, pcReserved, pcOthers, pcLock, pcLostSession>>
      /\ pcFaults' \in 0 .. MaxProgressFaults
  BY <1>1 DEF upsertReviewSummaryComment, ProgressFault
<1>5. /\ pcWriter'[w] = m /\ \A v \in ProgressWriters : v # w => pcWriter'[v] = pcWriter[v]
      /\ pcWriter' \in [ProgressWriters -> WriterRecord]
  BY <1>1, <1>3
<1>6. PlacesExact' /\ pcReserved' \in Nat
  BY <1>1, <1>3, <1>4, <1>5, PlaceMoves DEF Reserving, Locked
<1>7. /\ pcComments' \in Seq(ProgressBody)
      /\ \A n \in DOMAIN pcComments' : pcComments'[n].item <= pcItems
      /\ ~pcLostSession => /\ Shown' = [item |-> w[2], rev |-> me.rev]
                           /\ Len(pcComments') <= 1 /\ UpTo(w[2], me.rev)
  BY Upserted
<1>8. ProgressTyped'
  BY <1>1, <1>4, <1>5, <1>6, <1>7 DEF ProgressTyped
<1>9. RowAhead'
  <2> SUFFICES ASSUME ~pcLostSession, pcItems # 0
               PROVE  UpTo(pcItems, pcRow.rev)'
    BY <1>4 DEF RowAhead
  <2>1. UpTo(pcItems, pcRow.rev)
    BY DEF RowAhead, ProgressFull, ProgressInv
  <2>2. \A i \in 1 .. MaxProgressItems :
          Edits(i)' => Edits(i) /\ pcWriter'[<<"cancel", i>>] = pcWriter[<<"cancel", i>>]
    BY <1>3, <1>5, ProgressFacts DEF Edits
  <2>3. w[2] <= pcItems /\ (w[2] = pcItems => pcRow.rev = me.rev)
    BY <1>1 DEF WriterSound, ProgressTyped
  <2>4. Shown'.item <= pcItems /\ (Shown'.item = pcItems => Shown'.rev <= pcRow.rev)
    BY <1>1, <1>7, <2>3
  <2> QED BY <1>4, <2>1, <2>2, <2>4 DEF UpTo
<1>10. ASSUME NEW v \in ProgressWriters
       PROVE  WriterSound(v)'
  <2>1. WriterSound(v)
    BY DEF ProgressFull, ProgressInv
  <2>2. CASE v = w
    BY <1>1, <1>3, <1>4, <1>5, <2>1, <2>2 DEF WriterSound, Locked
  <2>3. CASE v # w
    <3>1. ~pcLostSession => pcWriter[v].at \notin Locked
      BY <1>1, <2>1, <2>3 DEF WriterSound, Locked
    <3> QED BY <1>4, <1>5, <2>1, <2>3, <3>1 DEF WriterSound, Locked
  <2> QED BY <2>2, <2>3
<1>11. OneProgressComment'
  BY <1>4, <1>7 DEF OneProgressComment
<1> QED BY <1>6, <1>8, <1>9, <1>10, <1>11 DEF ProgressFull, ProgressInv

\* A notice edits the stub it read: what is shown stays within what anybody relies on.
LEMMA CancelEditsStep ==
  ASSUME ProgressFull, NEW i \in 1 .. MaxProgressItems, CancelEdits(i)
  PROVE  ProgressFull'
<1> DEFINE w == <<"cancel", i>>
           body == [item |-> i, rev |-> pcWriter[w].rev]
           m == [RestingWriter EXCEPT !.at = "done"]
<1>1. /\ w \in ProgressWriters /\ w[2] = i /\ WriterSound(w) /\ ProgressTyped
      /\ pcWriter \in [ProgressWriters -> WriterRecord] /\ pcWriter[w].at = "editing"
      /\ pcComments \in Seq(ProgressBody) /\ pcLock # w
      /\ \A n \in DOMAIN pcComments : pcComments[n].item <= pcItems
  BY ProgressFacts DEF ProgressFull, ProgressInv, ProgressTyped, CancelEdits, WriterSound, Locked
<1>2. m \in WriterRecord /\ m.at = "done" /\ ~m.live
  <2>1. RestingWriter \in WriterRecord /\ RestingWriter.live = FALSE
    BY ProgressFacts DEF RestingWriter
  <2> QED BY <2>1 DEF WriterRecord, Resting
<1>3. /\ pcWriter' = [pcWriter EXCEPT ![w] = m] /\ pcComments' = [pcComments EXCEPT ![1] = body]
      /\ UNCHANGED <<pcItems, pcCancelled, pcRow, pcReserved, pcOthers, pcLock, pcFaults, pcLostSession>>
  BY DEF CancelEdits, Becomes
<1>4. body \in ProgressBody /\ body.item = i /\ i <= pcItems /\ body.rev = pcWriter[w].rev
  BY <1>1 DEF ProgressBody, WriterRecord, WriterSound
<1> HIDE DEF m, body
<1>5. /\ pcWriter'[w] = m /\ \A v \in ProgressWriters : v # w => pcWriter'[v] = pcWriter[v]
      /\ pcWriter' \in [ProgressWriters -> WriterRecord]
  BY <1>1, <1>2, <1>3
<1>6. PlacesExact' /\ pcReserved' \in Nat
  BY <1>1, <1>2, <1>3, <1>5, PlaceMoves DEF Reserving, Locked
<1>7. /\ pcComments' \in Seq(ProgressBody) /\ Len(pcComments') = Len(pcComments)
      /\ \A n \in DOMAIN pcComments' : pcComments'[n].item <= pcItems
      /\ pcComments = <<>> => pcComments' = <<>>
      /\ pcComments # <<>> => pcComments' # <<>> /\ Head(pcComments') = body
  <2>1. /\ pcComments' \in Seq(ProgressBody) /\ Len(pcComments') = Len(pcComments)
        /\ \A n \in DOMAIN pcComments' : pcComments'[n].item <= pcItems
    <3>1. /\ DOMAIN pcComments' = DOMAIN pcComments
          /\ \A n \in DOMAIN pcComments : pcComments'[n] = IF n = 1 THEN body ELSE pcComments[n]
      BY <1>3
    <3>2. /\ DOMAIN pcComments = 1 .. Len(pcComments)
          /\ \A n \in DOMAIN pcComments : pcComments[n] \in ProgressBody
      BY <1>1
    <3>3. pcComments' \in Seq(ProgressBody) /\ Len(pcComments') = Len(pcComments)
      BY <1>1, <1>3, <1>4, FirstReplaced
    <3>4. ASSUME NEW n \in DOMAIN pcComments'
          PROVE  pcComments'[n].item <= pcItems
      <4>1. CASE n = 1
        BY <1>4, <3>1, <4>1
      <4>2. CASE n # 1
        BY <1>1, <3>1, <4>2
      <4> QED BY <4>1, <4>2
    <3> QED BY <3>3, <3>4
  <2>2. pcComments = <<>> <=> pcComments' = <<>>
    <3>1. \A s \in Seq(ProgressBody) : s = <<>> <=> Len(s) = 0
      BY EmptySeq
    <3> QED BY <1>1, <2>1, <3>1
  <2>3. pcComments # <<>> => pcComments'[1] = body /\ Head(pcComments') = pcComments'[1]
    BY <1>1, <1>3, <2>1, <2>2
  <2> QED BY <2>1, <2>2, <2>3
<1>8. Shown' = Shown \/ Shown' = body
  BY <1>7 DEF Shown
<1>9. ProgressTyped'
  BY <1>1, <1>3, <1>5, <1>6, <1>7 DEF ProgressTyped
<1>10. \A item, rev : UpTo(item, rev) => UpTo(item, rev)'
  <2>1. ASSUME NEW j \in 1 .. MaxProgressItems, Edits(j)'
        PROVE  Edits(j) /\ pcWriter'[<<"cancel", j>>] = pcWriter[<<"cancel", j>>]
    <3>1. <<"cancel", j>> \in ProgressWriters
      BY ProgressFacts
    <3>2. pcWriter'[<<"cancel", j>>].at = "editing"
      BY <2>1 DEF Edits
    <3>3. <<"cancel", j>> # w
      BY <1>2, <1>5, <3>2
    <3> QED BY <1>5, <3>1, <3>2, <3>3 DEF Edits
  <2>2. Edits(i)
    BY <1>1 DEF Edits
  <2> QED BY <1>4, <1>8, <2>1, <2>2 DEF UpTo
<1>11. RowAhead'
  BY <1>3, <1>10 DEF RowAhead, ProgressFull, ProgressInv
<1>12. ASSUME NEW v \in ProgressWriters
       PROVE  WriterSound(v)'
  <2>1. WriterSound(v)
    BY DEF ProgressFull, ProgressInv
  <2>2. CASE v = w
    BY <1>1, <1>2, <1>3, <1>4, <1>5, <2>2 DEF WriterSound, Locked
  <2>3. CASE v # w
    <3>1. UpTo(v[2], pcWriter[v].rev) => UpTo(v[2], pcWriter[v].rev)'
      <4>1. PICK rev : rev = pcWriter[v].rev
        OBVIOUS
      <4>2. pcWriter'[v].rev = rev
        BY <1>5, <2>3, <4>1
      <4>3. UpTo(v[2], rev) => UpTo(v[2], rev)'
        BY <1>10
      <4> QED BY <4>1, <4>2, <4>3 DEF UpTo, Shown, Edits
    <3> QED BY <1>3, <1>5, <1>7, <2>1, <2>3, <3>1 DEF WriterSound, UpTo, Shown, Edits
  <2> QED BY <2>2, <2>3
<1>13. OneProgressComment'
  BY <1>3, <1>7 DEF OneProgressComment, ProgressFull, ProgressInv
<1> QED BY <1>6, <1>9, <1>11, <1>12, <1>13 DEF ProgressFull, ProgressInv

\* Intake hands the comment to a new review, which nobody writes for yet.
LEMMA TransferStep ==
  ASSUME ProgressFull, transferProgressCommentOwnership
  PROVE  ProgressFull'
<1>1. /\ ProgressTyped /\ pcItems \in Nat /\ pcItems + 1 \in 1 .. MaxProgressItems
      /\ pcItems' = pcItems + 1 /\ pcRow' \in [owner : 0 .. MaxProgressItems, rev : -1 .. Conclusion]
      /\ pcRow'.owner = pcItems + 1 /\ pcRow'.rev = -1
      /\ UNCHANGED <<pcCancelled, pcComments, pcWriter, pcReserved, pcOthers, pcLock, pcFaults,
                     pcLostSession>>
  <2>1. /\ ProgressTyped /\ pcItems \in 0 .. MaxProgressItems /\ MaxProgressItems \in Nat
        /\ pcRow \in [owner : 0 .. MaxProgressItems, rev : -1 .. Conclusion]
    BY ProgressAssumption DEF ProgressFull, ProgressInv, ProgressTyped
  <2>2. -1 \in -1 .. Conclusion
    BY ProgressFacts
  <2>3. pcItems + 1 \in 1 .. MaxProgressItems /\ pcItems + 1 \in 0 .. MaxProgressItems
    BY <2>1 DEF transferProgressCommentOwnership
  <2>4. pcRow' = [pcRow EXCEPT !.owner = pcItems + 1, !.rev = -1]
    BY DEF transferProgressCommentOwnership
  <2>5. /\ pcRow' \in [owner : 0 .. MaxProgressItems, rev : -1 .. Conclusion]
        /\ pcRow'.owner = pcItems + 1 /\ pcRow'.rev = -1
    BY <2>1, <2>2, <2>3, <2>4
  <2> QED BY <2>1, <2>3, <2>5 DEF transferProgressCommentOwnership
<1>2. ProgressTyped'
  <2>1. \A n \in DOMAIN pcComments : pcComments[n].item \in Int
    <3>1. \A n \in DOMAIN pcComments : pcComments[n] \in ProgressBody
      BY <1>1 DEF ProgressTyped
    <3> QED BY <3>1 DEF ProgressBody
  <2>2. -1 \in -1 .. Conclusion
    BY ProgressFacts
  <2> QED BY <1>1, <2>1, <2>2 DEF ProgressTyped
<1>3. Shown' = Shown /\ Shown.item \in Nat /\ Shown.item <= pcItems
  BY <1>1, ShownTyped DEF Shown
<1>4. \A i \in 1 .. MaxProgressItems : Edits(i) => i <= pcItems
  BY ProgressFacts DEF ProgressFull, ProgressInv, WriterSound, Edits
<1>5. RowAhead'
  BY <1>1, <1>3, <1>4 DEF RowAhead, UpTo, Edits
<1>6. ASSUME NEW w \in ProgressWriters
      PROVE  WriterSound(w)'
  <2>1. WriterSound(w) /\ w[2] \in Nat
    BY ProgressFacts DEF ProgressFull, ProgressInv
  <2>2. UpTo(w[2], pcWriter[w].rev) => UpTo(w[2], pcWriter[w].rev)'
    BY <1>1, <1>3 DEF UpTo, Edits
  <2>3. pcWriter[w].at # "idle" => pcRow'.owner # w[2]
    BY <1>1, <2>1 DEF WriterSound
  <2> QED BY <1>1, <2>1, <2>2, <2>3 DEF WriterSound
<1>7. PlacesExact' /\ OneProgressComment'
  BY <1>1 DEF ProgressFull, ProgressInv, PlacesExact, Taken, OneProgressComment, Capacity
<1> QED BY <1>2, <1>5, <1>6, <1>7 DEF ProgressFull, ProgressInv

\* Steps that leave writers, record and comment alone.
LEMMA OutsideSteps ==
  ASSUME ProgressFull,
         \/ OtherTakes \/ OtherEnds \/ UNCHANGED progressVars
         \/ \E w \in ProgressWriters : SessionLost(w)
         \/ \E i \in 1 .. MaxProgressItems : CancelReview(i)
  PROVE  ProgressFull'
<1>1. /\ ProgressTyped /\ pcItems \in Nat /\ pcReserved \in Nat /\ pcOthers \in Nat
      /\ Capacity \in Nat /\ Cardinality(Taken) \in Nat /\ PlacesExact
      /\ MaxOtherLocks \in Nat /\ MaxProgressFaults \in Nat /\ Nobody \notin ProgressWriters
  BY ProgressAssumption, ProgressFacts, TakenPlace DEF ProgressFull, ProgressInv, ProgressTyped
<1>2. UNCHANGED <<pcItems, pcRow, pcComments, pcWriter>>
  BY DEF OtherTakes, OtherEnds, progressVars, SessionLost, CancelReview
<1>3. \/ UNCHANGED <<pcReserved, pcOthers>>
      \/ pcReserved < Capacity /\ pcReserved' = pcReserved + 1 /\ pcOthers' = pcOthers + 1
      \/ pcOthers > 0 /\ pcReserved' = pcReserved - 1 /\ pcOthers' = pcOthers - 1
  BY DEF OtherTakes, OtherEnds, progressVars, SessionLost, CancelReview, PlacesAfterRelease
<1>4. \/ UNCHANGED <<pcLock, pcLostSession>>
      \/ pcLock' = Nobody /\ pcLostSession'
  BY DEF OtherTakes, OtherEnds, progressVars, SessionLost, CancelReview
<1>5. /\ pcCancelled' \subseteq 1 .. pcItems /\ pcFaults' \in 0 .. MaxProgressFaults
      /\ pcOthers' \in 0 .. MaxOtherLocks /\ pcLostSession' \in BOOLEAN
  <2>1. pcCancelled' \subseteq 1 .. pcItems
    BY <1>1 DEF ProgressTyped, OtherTakes, OtherEnds, progressVars, SessionLost, CancelReview
  <2>2. pcFaults' \in 0 .. MaxProgressFaults
    BY <1>1 DEF ProgressTyped, OtherTakes, OtherEnds, progressVars, SessionLost, CancelReview,
                ProgressFault
  <2>3. pcOthers' \in 0 .. MaxOtherLocks
    BY <1>1 DEF ProgressTyped, OtherTakes, OtherEnds, progressVars, SessionLost, CancelReview
  <2>4. pcLostSession' \in BOOLEAN
    BY <1>1 DEF ProgressTyped, OtherTakes, OtherEnds, progressVars, SessionLost, CancelReview
  <2> QED BY <2>1, <2>2, <2>3, <2>4
<1>6. PlacesExact' /\ pcReserved' \in Nat
  <2>1. Taken' = Taken /\ Capacity' = Capacity
    BY <1>2 DEF Taken, Capacity
  <2> QED BY <1>1, <1>3, <2>1 DEF PlacesExact
<1>7. ProgressTyped'
  BY <1>1, <1>2, <1>4, <1>5, <1>6 DEF ProgressTyped
<1>8. \A item, rev : UpTo(item, rev)' <=> UpTo(item, rev)
  BY <1>2 DEF UpTo, Shown, Edits
<1>9. ASSUME NEW w \in ProgressWriters
      PROVE  WriterSound(w)'
  <2>1. WriterSound(w)
    BY DEF ProgressFull, ProgressInv
  <2> QED BY <1>1, <1>2, <1>4, <2>1 DEF WriterSound, UpTo, Shown, Edits
<1>10. RowAhead' /\ OneProgressComment'
  BY <1>2, <1>4 DEF RowAhead, UpTo, Shown, Edits, OneProgressComment, ProgressFull, ProgressInv
<1> QED BY <1>6, <1>7, <1>9, <1>10 DEF ProgressFull, ProgressInv

\* The invariant holds initially.
LEMMA ProgressStarts == ProgressInit => ProgressFull
<1> SUFFICES ASSUME ProgressInit PROVE ProgressFull
  OBVIOUS
<1>1. /\ pcWriter = [w \in ProgressWriters |-> RestingWriter] /\ RestingWriter \in WriterRecord
      /\ RestingWriter.at = "idle" /\ ~RestingWriter.live
      /\ \A w \in ProgressWriters : pcWriter[w] = RestingWriter
  BY ProgressFacts DEF ProgressInit, RestingWriter
<1>2. ProgressTyped
  <2>1. pcComments = <<>> /\ <<>> \in Seq(ProgressBody) /\ DOMAIN <<>> = {}
    BY DEF ProgressInit
  <2>2. -1 \in -1 .. Conclusion
    BY ProgressFacts
  <2>3. pcRow \in [owner : 0 .. MaxProgressItems, rev : -1 .. Conclusion] /\ pcRow.owner = 0
    BY <2>2, ProgressAssumption DEF ProgressInit
  <2>4. pcWriter \in [ProgressWriters -> WriterRecord]
    BY <1>1
  <2>5. \A n \in DOMAIN pcComments : pcComments[n].item <= pcItems
    BY <2>1
  <2>6. pcComments \in Seq(ProgressBody)
    BY <2>1
  <2>7. /\ pcItems \in 0 .. MaxProgressItems /\ pcCancelled \subseteq 1 .. pcItems
        /\ pcRow.owner = pcItems /\ pcReserved \in Nat /\ pcOthers \in 0 .. MaxOtherLocks
        /\ pcLock \in ProgressWriters \cup {Nobody}
        /\ pcFaults \in 0 .. MaxProgressFaults /\ pcLostSession \in BOOLEAN
    <3>1. /\ pcItems = 0 /\ pcCancelled = {} /\ pcReserved = 0 /\ pcOthers = 0 /\ pcLock = Nobody
          /\ pcFaults = 0 /\ pcLostSession = FALSE
      BY DEF ProgressInit
    <3>2. 0 \in 0 .. MaxProgressItems /\ 0 \in 0 .. MaxOtherLocks /\ 0 \in 0 .. MaxProgressFaults
      BY ProgressAssumption
    <3> QED BY <2>3, <3>1, <3>2
  <2> QED BY <2>3, <2>4, <2>5, <2>6, <2>7 DEF ProgressTyped
<1>3. ASSUME NEW w \in ProgressWriters
      PROVE  WriterSound(w)
  <2>1. w # Nobody
    BY ProgressFacts
  <2> QED BY <1>1, <2>1 DEF ProgressInit, WriterSound, Locked
<1>4. RowAhead /\ OneProgressComment
  BY DEF RowAhead, OneProgressComment, ProgressInit
<1>5. PlacesExact
  <2>1. Taken = {}
    BY <1>1 DEF Taken, Reserving, Locked
  <2>2. Cardinality({}) = 0
    BY FS_EmptySet
  <2> QED BY <2>1, <2>2, ProgressFacts DEF ProgressInit, PlacesExact
<1> QED BY <1>2, <1>3, <1>4, <1>5 DEF ProgressFull, ProgressInv

\* Every step keeps the invariant.
LEMMA ProgressKept == ProgressFull /\ [ProgressNext]_progressVars => ProgressFull'
<1> SUFFICES ASSUME ProgressFull, [ProgressNext]_progressVars PROVE ProgressFull'
  OBVIOUS
<1>1. ASSUME NEW w \in ProgressWriters, WriterStep(w)
      PROVE  ProgressFull'
  <2>1. CASE ReservePlaces(w) \/ GivesUp(w) \/ Connect(w) \/ TryLock(w) \/ Unlock(w)
    BY <2>1, LockSteps
  <2>2. CASE findProgressComment(w) \/ upsertSummaryCommentWithoutRevision(w)
    BY <2>2, ReadSteps
  <2>3. CASE prepareSummaryCommentAtRevision(w)
    BY <2>3, ReadSteps, RecordSteps
  <2>4. CASE upsertReviewSummaryComment(w)
    BY <2>4, UpsertStep
  <2>5. CASE RecordSent(w)
    BY <2>5, ReadSteps, RecordSteps
  <2> QED BY <1>1, <2>1, <2>2, <2>3, <2>4, <2>5 DEF WriterStep
<1>2. ASSUME NEW i \in 1 .. MaxProgressItems,
             \/ publishAckProgress(i) \/ tickProgressComment(i)
             \/ publishCancelProgress(i) \/ CancelEdits(i)
      PROVE  ProgressFull'
  BY <1>2, BeginSteps, CancelEditsStep
<1> QED BY <1>1, <1>2, TransferStep, OutsideSteps DEF ProgressNext

\* The invariant always holds.
LEMMA ProgressHolds == ProgressSpec => []ProgressFull
BY ProgressStarts, ProgressKept, PTL DEF ProgressSpec

\* What a step shows in place of what was shown.
LEMMA ShownMoves ==
  ASSUME ProgressFull, [ProgressNext]_progressVars, ~CancelEdited, ~pcLostSession
  PROVE  /\ Shown'.item >= Shown.item
         /\ Shown'.item = Shown.item => Shown'.rev >= Shown.rev
<1>1. Shown.item \in Nat /\ Shown.rev \in Int
  BY ShownTyped DEF ProgressFull, ProgressInv
<1>2. CASE UNCHANGED pcComments
  BY <1>1, <1>2 DEF Shown
<1>3. ASSUME NEW w \in ProgressWriters, upsertReviewSummaryComment(w)
      PROVE  /\ Shown'.item >= Shown.item
             /\ Shown'.item = Shown.item => Shown'.rev >= Shown.rev
  <2>1. Shown' = [item |-> w[2], rev |-> pcWriter[w].rev] /\ UpTo(w[2], pcWriter[w].rev)
    BY <1>3, Upserted
  <2>2. w[2] \in Nat /\ pcWriter[w].rev \in Int
    BY ProgressFacts DEF ProgressFull, ProgressInv, ProgressTyped, WriterRecord
  <2> QED BY <1>1, <2>1, <2>2 DEF UpTo
<1>4. ASSUME NEW i \in 1 .. MaxProgressItems, CancelEdits(i)
      PROVE  FALSE
  <2>1. pcWriter'[<<"cancel", i>>].at = "done"
    <3>1. pcWriter \in [ProgressWriters -> WriterRecord] /\ <<"cancel", i>> \in ProgressWriters
      BY ProgressFacts DEF ProgressFull, ProgressInv, ProgressTyped
    <3>2. [RestingWriter EXCEPT !.at = "done"].at = "done"
      BY DEF RestingWriter
    <3> QED BY <1>4, <3>1, <3>2 DEF CancelEdits, Becomes
  <2> QED BY <1>4, <2>1 DEF CancelEdits, CancelEdited
<1>5. \/ UNCHANGED pcComments
      \/ \E w \in ProgressWriters : upsertReviewSummaryComment(w)
      \/ \E i \in 1 .. MaxProgressItems : CancelEdits(i)
  BY DEF ProgressNext, WriterStep, transferProgressCommentOwnership, OtherTakes, OtherEnds,
         SessionLost, CancelReview, publishAckProgress, tickProgressComment,
         publishCancelProgress, ReservePlaces, GivesUp, Connect, TryLock, Unlock,
         findProgressComment, prepareSummaryCommentAtRevision,
         upsertSummaryCommentWithoutRevision, RecordSent, progressVars
<1> QED BY <1>2, <1>3, <1>4, <1>5

\* The invariant gives the types the module states.
LEMMA ProgressTypes == ProgressFull => ProgressTypeOK
<1> SUFFICES ASSUME ProgressFull PROVE ProgressTypeOK
  OBVIOUS
<1>1. /\ ProgressTyped /\ pcReserved \in 0 .. PoolMax
  BY ProgressFacts, ProgressAssumption DEF ProgressFull, ProgressInv, ProgressTyped, PlacesExact
<1>2. /\ pcRow.owner \in 0 .. pcItems /\ pcRow.rev \in -1 .. Conclusion
      /\ \A n \in DOMAIN pcComments : pcComments[n].item \in 1 .. pcItems
  <2>1. /\ pcRow.owner \in 0 .. pcItems /\ pcRow.rev \in -1 .. Conclusion
    BY <1>1, ProgressAssumption DEF ProgressTyped
  <2>2. \A n \in DOMAIN pcComments : pcComments[n] \in ProgressBody /\ pcComments[n].item <= pcItems
    BY <1>1 DEF ProgressTyped
  <2>3. \A n \in DOMAIN pcComments : pcComments[n].item \in 1 .. MaxProgressItems
    BY <2>2 DEF ProgressBody
  <2>4. pcItems \in Nat /\ MaxProgressItems \in Nat
    BY <1>1, ProgressAssumption DEF ProgressTyped
  <2> QED BY <2>1, <2>2, <2>3, <2>4
<1>3. \A w \in ProgressWriters : pcWriter[w].at \in Reserving \cup Resting
  BY <1>1 DEF ProgressTyped, WriterRecord
<1> QED BY <1>1, <1>2, <1>3 DEF ProgressTypeOK, ProgressTyped, Reserving, Resting, Locked

\* A pull request has one progress comment whatever writers, lost answers and replacements do; its
\* revisions only advance and a replaced review never takes it back: upsert at a revision under the
\* session lock, with ownership moving without the lock (publishRecordRepository, sessionLock).
THEOREM ProgressCommentIsSound == ProgressSpec => ProgressCommentSound
<1>1. ProgressFull => ProgressTypeOK /\ OneProgressComment
  BY ProgressTypes DEF ProgressFull, ProgressInv
<1>2. ProgressFull /\ [ProgressNext]_progressVars
        => [(Shown.item = Shown'.item /\ ~CancelEdited /\ ~pcLostSession)
              => Shown'.rev >= Shown.rev]_progressVars
  BY ShownMoves
<1>3. ProgressFull /\ [ProgressNext]_progressVars
        => [~CancelEdited /\ ~pcLostSession => Shown'.item >= Shown.item]_progressVars
  BY ShownMoves
<1> QED BY <1>1, <1>2, <1>3, ProgressHolds, PTL
       DEF ProgressSpec, ProgressCommentSound, RevisionsAdvance, ReplacementKeepsComment

\* The lock is held only by a live connection, the reservations are exactly the places taken and
\* never pass half of the pool: withSessionLock gives back what it took on every path.
THEOREM LockIsGivenBack == ProgressSpec => []LockSound
<1>1. ProgressFull => LockSound
  <2> SUFFICES ASSUME ProgressFull PROVE LockSound
    OBVIOUS
  <2>1. LockHasHolder
    BY DEF LockHasHolder, ProgressFull, ProgressInv, ProgressTyped, WriterSound
  <2>2. {w \in ProgressWriters : pcWriter[w].at \notin {"idle", "waiting", "failed", "done", "editing"}}
          = Taken
    <3>1. \A w \in ProgressWriters : pcWriter[w].at \in Reserving \cup Resting
      BY DEF ProgressFull, ProgressInv, ProgressTyped, WriterRecord
    <3> QED BY <3>1 DEF Taken, Reserving, Resting, Locked
  <2> QED BY <2>1, <2>2 DEF LockSound, ReservationsExact, ProgressFull, PlacesExact
<1> QED BY <1>1, ProgressHolds, PTL

-----------------------------------------------------------------------------
(* Triage: the inductive invariant *)

TriageMaps == UNION {[S -> TriageVerdicts] : S \in SUBSET TriageThreads}
TriagePlans == [base : Nat, item : Nat, try : Nat, verdicts : TriageMaps, fixes : SUBSET TriageThreads]
TriageRuns == [at : TriagePlaces, inv : SUBSET TriageThreads, plan : TriagePlans,
               outcome : PushOutcomes, todo : SUBSET TriageThreads]
TriageRows == [n : 0 .. MaxTriageItems, mode : {"preview", "apply", "bulk"}, excl : SUBSET TriageThreads,
               head : Nat, tries : Nat, cancelled : BOOLEAN, died : BOOLEAN,
               status : {"none", "queued", "running", "completed", "failed", "cancelled"}]
TriagePushes == [item : Nat, try : Nat, base : Nat, fixes : SUBSET TriageThreads,
                 mode : {"person", "preview", "apply", "bulk"}, excl : SUBSET TriageThreads]
PushIntents == [state : {"none", "armed", "mutating", "unknown", "reconciled", "failed", "terminal"},
                plan : TriagePlans]
PushRecords == [outcome : PushOutcomes, plan : TriagePlans]
TriagePreviews == [head : Nat, verdicts : TriageMaps, hunks : SUBSET TriageThreads]
TriageReports == [outcome : PushOutcomes \cup {"notice", "preview"}, listed : SUBSET TriagePlans]
TriageThreadRows == [resolved : BOOLEAN, replied : BOOLEAN, fixedBy : TriagePlans]
TriagePrs == [open : BOOLEAN, fork : BOOLEAN, moves : 0 .. MaxTriageMoves]

TriageTyped ==
  /\ tgPr \in TriagePrs /\ tgBranch \in Seq(TriagePushes) /\ tgBranch # <<>>
  /\ tgThread \in [TriageThreads -> TriageThreadRows]
  /\ tgItem \in TriageRows /\ tgRun \in TriageRuns
  /\ tgIntent \in [TriageItems -> PushIntents] /\ tgPush \in [TriageItems -> PushRecords]
  /\ tgUnreported \in 0 .. MaxTriageItems
  /\ tgPreview \in [TriageItems -> TriagePreviews] /\ tgReport \in [TriageItems -> TriageReports]

\* The places of an attempt that builds a push of its own, and those from which it may be sent.
PushBuilding == {"arm", "start_push", "pushing", "push_closed"}
PushSending == {"start_push", "pushing", "push_closed"}

\* Whatever a plan calls fixed has a commit in it.
PlanFits(plan) == \A t \in DOMAIN plan.verdicts : plan.verdicts[t] = "fixed" => t \in plan.fixes

\* The preview of item i approves these fixes for this head.
Approves(i, base, fixes) ==
  tgPreview[i] # NoPreview /\ tgPreview[i].head = base /\ fixes \subseteq tgPreview[i].hunks
Approved(base, fixes) == \E i \in TriageItems : Approves(i, base, fixes)

\* What is kept: a reconciled intent and a record of success are about a push that is on the
\* branch, and so is what a thread or a report says of one.
ThreadsFit == \A t \in TriageThreads :
  tgThread[t].fixedBy # NoPlan => OnBranch(tgThread[t].fixedBy) /\ t \in tgThread[t].fixedBy.fixes
IntentsFit == \A i \in TriageItems :
  PlanFits(tgIntent[i].plan) /\ (tgIntent[i].state = "reconciled" => OnBranch(tgIntent[i].plan))
PushesFit == \A i \in TriageItems :
  PlanFits(tgPush[i].plan) /\ (tgPush[i].outcome = "pushed" => OnBranch(tgPush[i].plan))
ReportsFit == \A i \in TriageItems :
  /\ \A plan \in tgReport[i].listed : OnBranch(plan)
  /\ tgReport[i].outcome = "stale" => ~Pushed(i)
  /\ tgPreview[i] # NoPreview => tgReport[i] # NoReport
BranchFits == \A k \in DOMAIN tgBranch :
  tgBranch[k].mode = "bulk" =>
    /\ tgBranch[k].fixes \cap tgBranch[k].excl = {}
    /\ Approved(tgBranch[k].base, tgBranch[k].fixes)
StoreFits == ThreadsFit /\ IntentsFit /\ PushesFit /\ ReportsFit /\ BranchFits

\* The newest work item: later ones have left nothing yet, and it has pushed after its head.
RowFits(run, item) ==
  /\ item.status = "running" <=> run.at # "idle"
  /\ item.status # "none" <=> item.n \in TriageItems
  /\ item.status = "queued" => item.tries < MaxTriageTries
  /\ item.tries <= MaxTriageTries
  /\ \A i \in TriageItems : i > item.n => tgIntent[i].state = "none" /\ tgReport[i] = NoReport
  /\ \A k \in DOMAIN tgBranch : tgBranch[k].item <= item.n
  /\ \A k \in DOMAIN tgBranch : item.n \in TriageItems /\ tgBranch[k].item = item.n => item.head < k /\ item.head # 0

\* Its attempt.
AttemptFits(run, item) ==
  /\ run.todo \subseteq DOMAIN run.plan.verdicts /\ PlanFits(run.plan)
  /\ run.at \notin PushBuilding \cup {"recheck", "threads"} => run.todo = {}
  /\ run.at \in PushBuilding =>
       /\ run.plan.item = item.n /\ run.plan.base = item.head /\ run.plan.try = item.tries
       /\ ~Pushed(item.n)
  /\ run.at = "start_push" => tgIntent[item.n].state = "armed"
  /\ run.at \in {"pushing", "push_closed"} => tgIntent[item.n].state = "mutating"
  /\ run.at \in PushSending => tgIntent[item.n].plan = run.plan
  /\ run.at = "recheck" => OnBranch(run.plan) /\ PushStarted(tgIntent[item.n])
  /\ run.at = "threads" =>
       /\ run.outcome = "pushed" => OnBranch(run.plan)
       /\ run.outcome = "stale" \/ (run.outcome = "not-needed" /\ ~item.died) => ~Pushed(item.n)
  /\ tgReport[item.n] # NoReport /\ item.n \in TriageItems =>
       run.at \notin {"agent", "preview", "recheck", "threads"} \cup PushBuilding

\* What its push has come to.
PushOfItemFits(run, item) ==
  item.n \in TriageItems =>
    /\ item.died \/ Pushed(item.n) => PushStarted(tgIntent[item.n]) /\ run.at \notin PushSending
    /\ ~item.died /\ Pushed(item.n) =>
         \/ run.at = "recheck" \/ item.status = "cancelled"
         \/ tgPush[item.n].outcome \in {"pushed", "closed"}
    /\ ~item.died /\ tgReport[item.n].outcome = "not-needed" => ~Pushed(item.n)

\* The approval of a bulk push.
ApprovalFits(run, item) ==
  /\ run.at = "preview" => item.mode = "preview"
  /\ run.at \in {"discover", "agent"} /\ item.mode = "bulk" =>
       latestPreview # NoPreview /\ latestPreview.head = item.head
  /\ run.at \in PushBuilding /\ item.mode = "bulk" =>
       run.plan.fixes \cap item.excl = {} /\ Approved(run.plan.base, run.plan.fixes)

ItemFits(run, item) ==
  RowFits(run, item) /\ AttemptFits(run, item) /\ PushOfItemFits(run, item) /\ ApprovalFits(run, item)

TriageInv == TriageTyped /\ StoreFits /\ ItemFits(tgRun, tgItem)

(* Kept when the store is *)

LEMMA ItemFitsNext ==
  ASSUME NEW run, NEW item, ItemFits(run, item), tgRun' = run, tgItem' = item,
         UNCHANGED <<tgBranch, tgIntent, tgPush, tgPreview, tgReport>>
  PROVE  ItemFits(tgRun, tgItem)'
BY DEF ItemFits, RowFits, AttemptFits, PushOfItemFits, ApprovalFits, Approved, Approves, Pushed, OnBranch,
       PlanFits, PushStarted, latestPreview

LEMMA StoreFitsNext ==
  ASSUME StoreFits, ThreadsFit', UNCHANGED <<tgBranch, tgIntent, tgPush, tgPreview, tgReport>>
  PROVE  StoreFits'
BY DEF StoreFits, IntentsFit, PushesFit, ReportsFit, BranchFits, Approved, Approves, Pushed, OnBranch, PlanFits

LEMMA ThreadsFitNext ==
  ASSUME ThreadsFit, UNCHANGED <<tgBranch, tgThread>>
  PROVE  ThreadsFit'
BY DEF ThreadsFit, OnBranch

LEMMA TriageTypedNext ==
  ASSUME TriageInv, NEW run \in TriageRuns, NEW item \in TriageRows, tgRun' = run, tgItem' = item,
         UNCHANGED <<tgPr, tgBranch, tgThread, tgIntent, tgPush, tgUnreported, tgPreview, tgReport>>
  PROVE  TriageTyped'
BY DEF TriageInv, TriageTyped

\* A step that only changes the attempt and its row.
LEMMA AttemptStep ==
  ASSUME TriageInv, NEW run \in TriageRuns, NEW item \in TriageRows, ItemFits(run, item),
         tgRun' = run, tgItem' = item,
         UNCHANGED <<tgPr, tgBranch, tgThread, tgIntent, tgPush, tgUnreported, tgPreview, tgReport>>
  PROVE  TriageInv'
<1>1. TriageTyped'
  BY TriageTypedNext
<1>2. StoreFits'
  BY ThreadsFitNext, StoreFitsNext DEF TriageInv, StoreFits
<1>3. ItemFits(tgRun, tgItem)'
  BY ItemFitsNext
<1> QED
  BY <1>1, <1>2, <1>3 DEF TriageInv

(* The empty values *)

LEMMA NoPlanTyped ==
  /\ NoPlan \in TriagePlans /\ PlanFits(NoPlan) /\ DOMAIN NoPlan.verdicts = {}
  /\ TriageIdle \in TriageRuns /\ NoRecord \in PushRecords /\ NoPreview \in TriagePreviews
  /\ NoReport \in TriageReports
<1>1. <<>> \in TriageMaps /\ DOMAIN <<>> = {}
  <2>1. <<>> \in [{} -> TriageVerdicts]
    OBVIOUS
  <2>2. {} \in SUBSET TriageThreads
    OBVIOUS
  <2> QED
    BY <2>1, <2>2 DEF TriageMaps
<1>2. NoPlan \in TriagePlans /\ NoPlan.verdicts = <<>>
  BY <1>1 DEF NoPlan, TriagePlans
<1>3. PlanFits(NoPlan) /\ DOMAIN NoPlan.verdicts = {}
  BY <1>1, <1>2 DEF PlanFits
<1>4. TriageIdle \in TriageRuns
  BY <1>2 DEF TriageIdle, TriageRuns, TriagePlaces, PushOutcomes
<1>5. NoRecord \in PushRecords
  BY <1>2 DEF NoRecord, PushRecords, PushOutcomes
<1>6. NoPreview \in TriagePreviews
  BY <1>1 DEF NoPreview, TriagePreviews
<1>7. NoReport \in TriageReports
  BY DEF NoReport, TriageReports, PushOutcomes
<1> QED
  BY <1>2, <1>3, <1>4, <1>5, <1>6, <1>7

LEMMA TriageFacts ==
  ASSUME TriageInv
  PROVE  /\ tgItem \in TriageRows /\ tgRun \in TriageRuns /\ tgRun.plan \in TriagePlans
         /\ tgItem.n \in Nat /\ tgItem.n <= MaxTriageItems /\ tgItem.head \in Nat /\ tgItem.tries \in Nat
         /\ tgItem.cancelled \in BOOLEAN /\ tgItem.died \in BOOLEAN
         /\ tgBranch \in Seq(TriagePushes) /\ Len(tgBranch) \in Nat /\ DOMAIN tgBranch = 1 .. Len(tgBranch)
         /\ MaxTriageItems \in Nat /\ MaxTriageTries \in Nat \ {0}
         /\ ItemFits(tgRun, tgItem) /\ StoreFits
         /\ (tgRun.at # "idle" => tgItem.status = "running" /\ tgItem.n \in TriageItems)
<1>1. tgItem \in TriageRows /\ tgRun \in TriageRuns /\ tgBranch \in Seq(TriagePushes)
  BY DEF TriageInv, TriageTyped
<1>2. MaxTriageItems \in Nat /\ MaxTriageTries \in Nat \ {0}
  BY TriageAssumption
<1>3. tgItem.n \in 0 .. MaxTriageItems /\ tgItem.head \in Nat /\ tgItem.tries \in Nat
      /\ tgItem.cancelled \in BOOLEAN /\ tgItem.died \in BOOLEAN
  BY <1>1 DEF TriageRows
<1>4. tgRun.plan \in TriagePlans
  BY <1>1 DEF TriageRuns
<1>5. ItemFits(tgRun, tgItem) /\ StoreFits
  BY DEF TriageInv
<1>6. tgRun.at # "idle" => tgItem.status = "running" /\ tgItem.n \in TriageItems
  BY <1>5 DEF ItemFits, RowFits
<1> QED
  BY <1>1, <1>2, <1>3, <1>4, <1>5, <1>6

LEMMA IdleFacts ==
  /\ TriageIdle.at = "idle" /\ TriageIdle.plan = NoPlan /\ TriageIdle.todo = {}
BY DEF TriageIdle

(* The end of an attempt *)

LEMMA EndFits ==
  ASSUME TriageInv, tgRun.at # "idle", NEW item \in TriageRows,
         item.n = tgItem.n, item.head = tgItem.head, item.tries = tgItem.tries,
         item.status \in {"queued", "completed", "failed", "cancelled"},
         item.status = "queued" => item.tries < MaxTriageTries,
         item.died => tgItem.died \/ tgRun.at \in {"pushing", "recheck"},
         tgItem.died => item.died,
         ~item.died /\ tgRun.at = "recheck" => item.status = "cancelled"
  PROVE  ItemFits(TriageIdle, item)
<1>1. RowFits(tgRun, tgItem) /\ AttemptFits(tgRun, tgItem) /\ PushOfItemFits(tgRun, tgItem)
  BY DEF TriageInv, ItemFits
<1>2. tgItem.n \in TriageItems /\ tgItem.status = "running"
  BY TriageFacts
<1>3. RowFits(TriageIdle, item)
  BY <1>1, <1>2, IdleFacts DEF RowFits
<1>4. AttemptFits(TriageIdle, item)
  BY IdleFacts, NoPlanTyped DEF AttemptFits, PushBuilding, PushSending
<1>5. PushOfItemFits(TriageIdle, item)
  <2>1. item.died \/ Pushed(item.n) => PushStarted(tgIntent[item.n])
    BY <1>1, <1>2 DEF PushOfItemFits, AttemptFits, PushStarted
  <2>2. ~item.died /\ Pushed(item.n) =>
          item.status = "cancelled" \/ tgPush[item.n].outcome \in {"pushed", "closed"}
    BY <1>1, <1>2 DEF PushOfItemFits
  <2>3. ~item.died /\ tgReport[item.n].outcome = "not-needed" => ~Pushed(item.n)
    BY <1>1, <1>2 DEF PushOfItemFits
  <2> QED
    BY <2>1, <2>2, <2>3, IdleFacts DEF PushOfItemFits, PushSending
<1>6. ApprovalFits(TriageIdle, item)
  BY IdleFacts DEF ApprovalFits, PushBuilding
<1> QED
  BY <1>3, <1>4, <1>5, <1>6 DEF ItemFits

LEMMA ThrownStatusFacts ==
  ASSUME TriageInv
  PROVE  /\ ThrownStatus \in {"queued", "failed", "cancelled"}
         /\ ThrownStatus = "queued" => tgItem.tries < MaxTriageTries
         /\ tgItem.cancelled => ThrownStatus = "cancelled"
BY TriageFacts DEF ThrownStatus

EndedRow(status, died) == [tgItem EXCEPT !.status = status, !.died = died]

LEMMA EndedRowFacts ==
  ASSUME TriageInv, NEW status \in {"queued", "completed", "failed", "cancelled"}, NEW died \in BOOLEAN
  PROVE  /\ EndedRow(status, died) \in TriageRows
         /\ EndedRow(status, died).n = tgItem.n /\ EndedRow(status, died).head = tgItem.head
         /\ EndedRow(status, died).tries = tgItem.tries /\ EndedRow(status, died).status = status
         /\ EndedRow(status, died).died = died
<1>1. tgItem \in TriageRows
  BY TriageFacts
<1> QED
  BY <1>1 DEF TriageRows, EndedRow

LEMMA SameDied ==
  ASSUME TriageInv, NEW status
  PROVE  [tgItem EXCEPT !.status = status] = EndedRow(status, tgItem.died)
<1>1. tgItem \in TriageRows
  BY TriageFacts
<1> QED
  BY <1>1 DEF TriageRows, EndedRow

\* An attempt ends and leaves the store alone.
LEMMA EndStep ==
  ASSUME TriageInv, tgRun.at # "idle",
         NEW status \in {"queued", "completed", "failed", "cancelled"}, NEW died \in BOOLEAN,
         status = "queued" => tgItem.tries < MaxTriageTries,
         died => tgItem.died \/ tgRun.at \in {"pushing", "recheck"}, tgItem.died => died,
         ~died /\ tgRun.at = "recheck" => status = "cancelled",
         tgRun' = TriageIdle, tgItem' = EndedRow(status, died),
         UNCHANGED <<tgPr, tgBranch, tgThread, tgIntent, tgPush, tgUnreported, tgPreview, tgReport>>
  PROVE  TriageInv'
<1> PICK item : item = EndedRow(status, died)
  OBVIOUS
<1> PICK idle : idle = TriageIdle
  OBVIOUS
<1>1. /\ item \in TriageRows /\ item.n = tgItem.n /\ item.head = tgItem.head
      /\ item.tries = tgItem.tries /\ item.status = status /\ item.died = died
  BY EndedRowFacts
<1>2. ItemFits(TriageIdle, item)
  BY <1>1, EndFits
<1>3. idle \in TriageRuns /\ tgRun' = idle /\ ItemFits(idle, item) /\ tgItem' = item
  BY <1>2, NoPlanTyped
<1> QED
  BY <1>1, <1>3, AttemptStep

LEMMA ThrownStep ==
  ASSUME TriageInv, tgRun.at \notin {"idle", "recheck"}, TriageThrown,
         UNCHANGED <<tgPr, tgBranch, tgThread, tgIntent, tgPush, tgUnreported, tgPreview, tgReport>>
  PROVE  TriageInv'
<1> PICK status : status = ThrownStatus
  OBVIOUS
<1> PICK died : died = tgItem.died
  OBVIOUS
<1>1. status \in {"queued", "failed", "cancelled"} /\ (status = "queued" => tgItem.tries < MaxTriageTries)
  BY ThrownStatusFacts
<1>2. died \in BOOLEAN
  BY TriageFacts
<1>3. tgRun' = TriageIdle /\ tgItem' = EndedRow(status, died)
  BY SameDied DEF TriageThrown
<1> QED
  BY <1>1, <1>2, <1>3, EndStep

LEMMA StopCancelledStep ==
  ASSUME TriageInv, StopCancelled
  PROVE  TriageInv'
<1>1. tgRun.at \notin {"idle", "recheck"}
  BY DEF StopCancelled, TriageCheckpoints
<1> QED
  BY <1>1, ThrownStep DEF StopCancelled

LEMMA CheckoutFailsStep ==
  ASSUME TriageInv, CheckoutFails
  PROVE  TriageInv'
<1>1. tgRun.at \notin {"idle", "recheck"}
  BY DEF CheckoutFails, TriageAt
<1> QED
  BY <1>1, ThrownStep DEF CheckoutFails

LEMMA FinishStep ==
  ASSUME TriageInv, FinishTriage
  PROVE  TriageInv'
<1> PICK status : status = IF tgItem.cancelled THEN "cancelled" ELSE "completed"
  OBVIOUS
<1> PICK died : died = tgItem.died
  OBVIOUS
<1>1. tgRun.at = "finish" /\ died \in BOOLEAN
  BY TriageFacts DEF FinishTriage, TriageAt
<1>2. tgRun' = TriageIdle /\ tgItem' = EndedRow(status, died)
  BY SameDied DEF FinishTriage
<1> QED
  BY <1>1, <1>2, EndStep DEF FinishTriage

(* The queue *)

LEMMA RequestStep ==
  ASSUME TriageInv, NEW mode \in TriageModes, NEW excl \in SUBSET TriageThreads, RequestTriage(mode, excl)
  PROVE  TriageInv'
<1> PICK run : run = tgRun
  OBVIOUS
<1> PICK item : item = [n |-> tgItem.n + 1, mode |-> mode, excl |-> excl, head |-> 0, tries |-> 0,
                        cancelled |-> FALSE, died |-> FALSE, status |-> "queued"]
  OBVIOUS
<1> PICK n : n = tgItem.n + 1
  OBVIOUS
<1>1. n \in 1 .. MaxTriageItems /\ n \in TriageItems /\ n > tgItem.n
  BY TriageFacts DEF RequestTriage, TriageItems
<1>2. item \in TriageRows
  <2>1. mode \in {"preview", "apply", "bulk"} /\ n \in 0 .. MaxTriageItems
    BY <1>1, TriageAssumption
  <2>2. item = [n |-> n, mode |-> mode, excl |-> excl, head |-> 0, tries |-> 0,
                cancelled |-> FALSE, died |-> FALSE, status |-> "queued"]
    OBVIOUS
  <2> QED
    BY <2>1, <2>2 DEF TriageRows
<1>3. /\ item.n = n /\ item.head = 0 /\ item.tries = 0 /\ ~item.died /\ item.status = "queued"
  OBVIOUS
<1>4. RowFits(run, tgItem) /\ AttemptFits(run, tgItem) /\ ApprovalFits(run, tgItem) /\ run.at = "idle"
  <2>1. tgItem.status # "running"
    BY DEF RequestTriage
  <2> QED
    BY <2>1 DEF TriageInv, ItemFits, RowFits
<1>5. /\ \A k \in DOMAIN tgBranch : tgBranch[k].item <= tgItem.n /\ tgBranch[k].item \in Nat
      /\ tgItem.n \in Nat
  <2>1. ASSUME NEW k \in DOMAIN tgBranch
        PROVE  tgBranch[k].item <= tgItem.n /\ tgBranch[k].item \in Nat
    <3>1. tgBranch[k] \in TriagePushes
      BY TriageFacts
    <3> QED
      BY <1>4, <3>1 DEF RowFits, TriagePushes
  <2> QED
    BY <2>1, TriageFacts
<1>6. ~Pushed(n)
  BY <1>1, <1>5 DEF Pushed
<1>7. tgIntent[n].state = "none" /\ tgReport[n] = NoReport
  BY <1>1, <1>4 DEF RowFits
<1>8. RowFits(run, item)
  <2>1. \A i \in TriageItems : i > item.n => i > tgItem.n
    BY <1>1, <1>3, <1>5 DEF TriageItems
  <2>2. \A k \in DOMAIN tgBranch : tgBranch[k].item <= item.n /\ tgBranch[k].item # item.n
    BY <1>1, <1>3, <1>5
  <2>3. item.tries < MaxTriageTries /\ item.tries <= MaxTriageTries
    BY <1>3, TriageFacts
  <2> QED
    BY <1>1, <1>3, <1>4, <2>1, <2>2, <2>3 DEF RowFits
<1>9. AttemptFits(run, item)
  BY <1>3, <1>4, <1>7 DEF AttemptFits, PushBuilding, PushSending
<1>10. PushOfItemFits(run, item)
  BY <1>3, <1>6 DEF PushOfItemFits
<1>11. ApprovalFits(run, item)
  BY <1>4 DEF ApprovalFits, PushBuilding
<1>12. run \in TriageRuns /\ tgRun' = run /\ tgItem' = item
  BY TriageFacts DEF RequestTriage
<1> QED
  BY <1>2, <1>8, <1>9, <1>10, <1>11, <1>12, AttemptStep DEF RequestTriage, ItemFits

LEMMA CancelStep ==
  ASSUME TriageInv, CancelTriage
  PROVE  TriageInv'
<1> PICK run : run = tgRun
  OBVIOUS
<1> PICK item : item = [tgItem EXCEPT !.cancelled = TRUE]
  OBVIOUS
<1>1. tgItem \in TriageRows /\ run \in TriageRuns
  BY TriageFacts
<1>2. item \in TriageRows
  BY <1>1 DEF TriageRows
<1>3. /\ item.n = tgItem.n /\ item.mode = tgItem.mode /\ item.excl = tgItem.excl
      /\ item.head = tgItem.head /\ item.tries = tgItem.tries /\ item.died = tgItem.died
      /\ item.status = tgItem.status
  BY <1>1 DEF TriageRows
<1>4. ItemFits(run, item)
  BY <1>3 DEF TriageInv, ItemFits, RowFits, AttemptFits, PushOfItemFits, ApprovalFits
<1>5. tgRun' = run /\ tgItem' = item
  BY DEF CancelTriage
<1> QED
  BY <1>1, <1>2, <1>4, <1>5, AttemptStep DEF CancelTriage

LEMMA StartStep ==
  ASSUME TriageInv, StartTriage
  PROVE  TriageInv'
<1>1. RowFits(tgRun, tgItem) /\ AttemptFits(tgRun, tgItem) /\ PushOfItemFits(tgRun, tgItem)
  BY DEF TriageInv, ItemFits
<1>2. /\ tgItem \in TriageRows /\ tgRun \in TriageRuns /\ tgItem.status = "queued" /\ tgRun.at = "idle"
      /\ tgItem.n \in TriageItems /\ tgItem.tries < MaxTriageTries /\ tgItem.tries \in Nat
      /\ tgItem.head \in Nat /\ LiveHead \in Nat /\ MaxTriageTries \in Nat
  BY <1>1, TriageFacts DEF StartTriage, TriageAt, RowFits, LiveHead
<1>3. UNCHANGED <<tgPr, tgBranch, tgThread, tgIntent, tgPush, tgUnreported, tgPreview, tgReport>>
  BY DEF StartTriage
<1>4. CASE tgItem.cancelled
  <2> PICK run : run = tgRun
    OBVIOUS
  <2> PICK item : item = [tgItem EXCEPT !.status = "cancelled"]
    OBVIOUS
  <2>1. item \in TriageRows
    BY <1>2 DEF TriageRows
  <2>2. /\ item.n = tgItem.n /\ item.mode = tgItem.mode /\ item.excl = tgItem.excl
        /\ item.head = tgItem.head /\ item.tries = tgItem.tries /\ item.died = tgItem.died
        /\ item.status = "cancelled"
    BY <1>2 DEF TriageRows
  <2>3. RowFits(run, item)
    BY <1>1, <1>2, <2>2 DEF RowFits
  <2>4. AttemptFits(run, item) /\ PushOfItemFits(run, item)
    BY <1>1, <1>2, <2>2 DEF AttemptFits, PushOfItemFits, PushBuilding, PushSending
  <2>5. ApprovalFits(run, item)
    BY <1>2 DEF ApprovalFits, PushBuilding
  <2>6. tgRun' = run /\ tgItem' = item /\ run \in TriageRuns
    BY <1>2, <1>4 DEF StartTriage
  <2> QED
    BY <1>3, <2>1, <2>3, <2>4, <2>5, <2>6, AttemptStep DEF ItemFits
<1>5. CASE ~tgItem.cancelled
  <2> PICK head : head = resolveWorkItemHead
    OBVIOUS
  <2> PICK tries : tries = tgItem.tries + 1
    OBVIOUS
  <2> PICK run : run = [tgRun EXCEPT !.at = "preview_check"]
    OBVIOUS
  <2> PICK item : item = [tgItem EXCEPT !.status = "running", !.tries = tries, !.head = head]
    OBVIOUS
  <2>1. head \in Nat /\ (tgItem.head # 0 => head = tgItem.head) /\ tries \in Nat /\ tries <= MaxTriageTries
    BY <1>2 DEF resolveWorkItemHead
  <2>2. item \in TriageRows
    BY <1>2, <2>1 DEF TriageRows
  <2>3. /\ item.n = tgItem.n /\ item.mode = tgItem.mode /\ item.excl = tgItem.excl
        /\ item.head = head /\ item.tries = tries /\ item.died = tgItem.died
        /\ item.status = "running"
    BY <1>2 DEF TriageRows
  <2>4. run \in TriageRuns
    BY <1>2 DEF TriageRuns, TriagePlaces
  <2>5. run.at = "preview_check" /\ run.plan = tgRun.plan /\ run.todo = tgRun.todo
    BY <1>2 DEF TriageRuns
  <2>6. RowFits(run, item)
    BY <1>1, <1>2, <2>1, <2>3, <2>5 DEF RowFits
  <2>7. AttemptFits(run, item)
    BY <1>1, <1>2, <2>5 DEF AttemptFits, PushBuilding, PushSending
  <2>8. PushOfItemFits(run, item)
    BY <1>1, <1>2, <2>3, <2>5 DEF PushOfItemFits, PushSending
  <2>9. ApprovalFits(run, item)
    BY <2>5 DEF ApprovalFits, PushBuilding
  <2>10. tgRun' = run /\ tgItem' = item
    BY <1>5 DEF StartTriage, TriageGoes
  <2> QED
    BY <1>3, <2>2, <2>4, <2>6, <2>7, <2>8, <2>9, <2>10, AttemptStep DEF ItemFits
<1> QED
  BY <1>4, <1>5

(* An attempt that goes on *)

\* ... at a place where nothing is promised of it but what it holds.
LEMMA GoesOnFits ==
  ASSUME TriageInv, tgRun.at # "idle", tgRun.at # "recheck", NEW run \in TriageRuns,
         run.at \in {"discover", "agent", "preview", "report_only", "finish"},
         run.todo = {}, PlanFits(run.plan),
         run.at \in {"agent", "preview"} => tgReport[tgItem.n] = NoReport,
         ApprovalFits(run, tgItem)
  PROVE  ItemFits(run, tgItem)
<1>1. RowFits(tgRun, tgItem) /\ AttemptFits(tgRun, tgItem) /\ PushOfItemFits(tgRun, tgItem)
  BY DEF TriageInv, ItemFits
<1>2. RowFits(run, tgItem)
  BY <1>1 DEF RowFits
<1>3. AttemptFits(run, tgItem)
  BY <1>1 DEF AttemptFits, PushBuilding, PushSending
<1>4. PushOfItemFits(run, tgItem)
  BY <1>1 DEF PushOfItemFits, PushSending
<1> QED
  BY <1>2, <1>3, <1>4 DEF ItemFits

LEMMA SameRowStep ==
  ASSUME TriageInv, NEW run \in TriageRuns, ItemFits(run, tgItem), tgRun' = run,
         UNCHANGED <<tgPr, tgBranch, tgThread, tgItem, tgIntent, tgPush, tgUnreported, tgPreview, tgReport>>
  PROVE  TriageInv'
<1> PICK item : item = tgItem
  OBVIOUS
<1>1. item \in TriageRows /\ ItemFits(run, item) /\ tgItem' = item
  BY TriageFacts
<1> QED
  BY <1>1, AttemptStep

LEMMA ExecuteStep ==
  ASSUME TriageInv, execute
  PROVE  TriageInv'
<1> PICK at : at = IF \/ tgPr.fork /\ tgItem.mode # "preview"
                      \/ tgItem.mode = "bulk" /\ ~PreviewUsable
                   THEN "report_only" ELSE "discover"
  OBVIOUS
<1> PICK run : run = [tgRun EXCEPT !.at = at]
  OBVIOUS
<1>1. tgRun \in TriageRuns /\ tgRun.at = "preview_check"
  BY TriageFacts DEF execute, TriageAt
<1>2. run \in TriageRuns
  BY <1>1 DEF TriageRuns, TriagePlaces
<1>3. run.at = at /\ run.plan = tgRun.plan /\ run.todo = tgRun.todo
  BY <1>1 DEF TriageRuns
<1>4. AttemptFits(tgRun, tgItem)
  BY DEF TriageInv, ItemFits
<1>5. ApprovalFits(run, tgItem)
  BY <1>3 DEF ApprovalFits, PushBuilding, PreviewUsable
<1>6. ItemFits(run, tgItem)
  <2>1. run.todo = {} /\ PlanFits(run.plan)
    BY <1>1, <1>3, <1>4 DEF AttemptFits, PushBuilding
  <2>2. run.at \in {"discover", "report_only"}
    BY <1>3
  <2> QED
    BY <1>1, <1>2, <1>5, <2>1, <2>2, GoesOnFits
<1>7. tgRun' = run
  BY DEF execute, TriageGoes
<1> QED
  BY <1>2, <1>6, <1>7, SameRowStep DEF execute

(* Previews and plans *)

LEMMA GreatestTriageItem ==
  ASSUME NEW S \in SUBSET TriageItems, S # {}, MaxTriageItems \in Nat
  PROVE  \E i \in S : \A j \in S : j <= i
<1> PICK T : T = {MaxTriageItems - i : i \in S}
  OBVIOUS
<1>1. T \subseteq Nat /\ T # {}
  <2>1. \A i \in S : i \in 1 .. MaxTriageItems
    BY DEF TriageItems
  <2>2. \A i \in S : MaxTriageItems - i \in Nat
    BY <2>1
  <2> QED
    BY <2>2
<1>2. PICK Q : IsWellFoundedOn(Q, Nat) /\ \A x, y \in Nat : <<y, x>> \in Q <=> y < x
  <2>1. \A x, y \in Nat : <<y, x>> \in OpToRel(<, Nat) <=> y < x
    BY DEF OpToRel
  <2> QED
    BY <2>1, NatLessThanWellFounded
<1>3. PICK x \in T : \A y \in T : ~(<<y, x>> \in Q)
  BY <1>1, <1>2, WFMin
<1>4. \A y \in T : x <= y
  <2>1. \A y \in T : ~(y < x)
    BY <1>1, <1>2, <1>3
  <2> QED
    BY <1>1, <2>1
<1>5. PICK i \in S : x = MaxTriageItems - i
  BY <1>3
<1>6. \A j \in S : MaxTriageItems - i <= MaxTriageItems - j
  BY <1>4, <1>5
<1>7. \A j \in S : j <= i
  BY <1>5, <1>6 DEF TriageItems
<1> QED
  BY <1>7

LEMMA LatestPreviewFacts ==
  ASSUME TriageInv
  PROVE  /\ latestPreview \in TriagePreviews
         /\ latestPreview # NoPreview => \E i \in TriageItems : tgPreview[i] = latestPreview
<1> PICK had : had = {i \in TriageItems : tgPreview[i] # NoPreview}
  OBVIOUS
<1>1. CASE had = {}
  <2>1. latestPreview = NoPreview
    BY <1>1 DEF latestPreview
  <2> QED
    BY <2>1, NoPlanTyped
<1>2. CASE had # {}
  <2>1. \E i \in had : \A j \in had : j <= i
    BY <1>2, TriageFacts, GreatestTriageItem
  <2>2. latestPreview = tgPreview[CHOOSE i \in had : \A j \in had : j <= i]
    BY <1>2 DEF latestPreview
  <2> PICK i : i = CHOOSE h \in had : \A j \in had : j <= h
    OBVIOUS
  <2>3. i \in TriageItems /\ latestPreview = tgPreview[i]
    BY <2>1, <2>2
  <2>4. tgPreview[i] \in TriagePreviews
    BY <2>3 DEF TriageInv, TriageTyped
  <2> QED
    BY <2>3, <2>4
<1> QED
  BY <1>1, <1>2

LEMMA TriageMapTyped ==
  ASSUME NEW S \in SUBSET TriageThreads, NEW map \in [S -> TriageVerdicts]
  PROVE  map \in TriageMaps
BY DEF TriageMaps

LEMMA TriageMapDomain ==
  ASSUME NEW map \in TriageMaps
  PROVE  DOMAIN map \subseteq TriageThreads
BY DEF TriageMaps

LEMMA RecordTyped ==
  ASSUME TriageInv, NEW i \in TriageItems
  PROVE  /\ tgIntent[i] \in PushIntents /\ tgIntent[i].plan \in TriagePlans /\ PlanFits(tgIntent[i].plan)
         /\ (tgIntent[i].state = "reconciled" => OnBranch(tgIntent[i].plan))
         /\ tgPush[i] \in PushRecords /\ tgPush[i].plan \in TriagePlans /\ PlanFits(tgPush[i].plan)
         /\ tgPush[i].outcome \in PushOutcomes
         /\ (tgPush[i].outcome = "pushed" => OnBranch(tgPush[i].plan))
         /\ tgPreview[i] \in TriagePreviews /\ tgReport[i] \in TriageReports
         /\ (tgPreview[i] # NoPreview => tgReport[i] # NoReport)
<1>1. tgIntent[i] \in PushIntents /\ tgPush[i] \in PushRecords /\ tgPreview[i] \in TriagePreviews
      /\ tgReport[i] \in TriageReports
  BY DEF TriageInv, TriageTyped
<1>2. tgIntent[i].plan \in TriagePlans
  BY <1>1 DEF PushIntents
<1>3. tgPush[i].plan \in TriagePlans /\ tgPush[i].outcome \in PushOutcomes
  BY <1>1 DEF PushRecords
<1> QED
  BY <1>1, <1>2, <1>3 DEF TriageInv, StoreFits, IntentsFit, PushesFit, ReportsFit

\* Nothing of this item is on the branch when the checkout has the bound head.
LEMMA CheckoutIsFresh ==
  ASSUME TriageInv, Checkout
  PROVE  /\ tgRun.at = "agent" /\ tgItem.n \in TriageItems /\ ~Pushed(tgItem.n)
         /\ tgReport[tgItem.n] = NoReport
<1>1. tgRun.at = "agent" /\ LiveHead = tgItem.head
  BY DEF Checkout, TriageAt
<1>2. tgItem.n \in TriageItems
  BY <1>1, TriageFacts
<1>3. \A k \in DOMAIN tgBranch : tgBranch[k].item = tgItem.n => tgItem.head < k
  BY <1>2 DEF TriageInv, ItemFits, RowFits
<1>4. ~Pushed(tgItem.n)
  BY <1>1, <1>3, TriageFacts DEF Pushed, LiveHead
<1>5. tgReport[tgItem.n] = NoReport
  BY <1>1, <1>2 DEF TriageInv, ItemFits, AttemptFits
<1> QED
  BY <1>1, <1>2, <1>4, <1>5

(* The agent's work *)

\* A plan of its own that the attempt may arm.
LEMMA ArmFits ==
  ASSUME TriageInv, Checkout, NEW run \in TriageRuns, run.at = "arm",
         run.todo \subseteq DOMAIN run.plan.verdicts, PlanFits(run.plan),
         run.plan.item = tgItem.n, run.plan.base = tgItem.head, run.plan.try = tgItem.tries,
         tgItem.mode = "bulk" =>
           run.plan.fixes \cap tgItem.excl = {} /\ Approved(run.plan.base, run.plan.fixes)
  PROVE  ItemFits(run, tgItem)
<1>1. RowFits(tgRun, tgItem) /\ PushOfItemFits(tgRun, tgItem)
  BY DEF TriageInv, ItemFits
<1>2. tgRun.at = "agent" /\ ~Pushed(tgItem.n) /\ tgReport[tgItem.n] = NoReport
  BY CheckoutIsFresh
<1>3. RowFits(run, tgItem)
  BY <1>1, <1>2 DEF RowFits
<1>4. AttemptFits(run, tgItem)
  BY <1>2 DEF AttemptFits, PushBuilding, PushSending
<1>5. PushOfItemFits(run, tgItem)
  BY <1>1, <1>2 DEF PushOfItemFits, PushSending
<1>6. ApprovalFits(run, tgItem)
  BY DEF ApprovalFits
<1> QED
  BY <1>3, <1>4, <1>5, <1>6 DEF ItemFits

PlanWith(base, n, try, map, fixes) ==
  [base |-> base, item |-> n, try |-> try, verdicts |-> map, fixes |-> fixes]

LEMMA PlanTyped ==
  ASSUME NEW base \in Nat, NEW n \in Nat, NEW try \in Nat,
         NEW map \in TriageMaps, NEW fixes \in SUBSET TriageThreads
  PROVE  /\ PlanWith(base, n, try, map, fixes) \in TriagePlans
         /\ PlanWith(base, n, try, map, fixes).base = base
         /\ PlanWith(base, n, try, map, fixes).item = n
         /\ PlanWith(base, n, try, map, fixes).try = try
         /\ PlanWith(base, n, try, map, fixes).verdicts = map
         /\ PlanWith(base, n, try, map, fixes).fixes = fixes
BY DEF TriagePlans, PlanWith

ArmRun(plan, todo) == [tgRun EXCEPT !.at = "arm", !.todo = todo, !.plan = plan]

LEMMA ArmRunFacts ==
  ASSUME tgRun \in TriageRuns, NEW plan \in TriagePlans, NEW todo \in SUBSET TriageThreads
  PROVE  /\ ArmRun(plan, todo) \in TriageRuns /\ ArmRun(plan, todo).at = "arm"
         /\ ArmRun(plan, todo).plan = plan /\ ArmRun(plan, todo).todo = todo
BY DEF ArmRun, TriageRuns, TriagePlaces

LEMMA FreshAgentStep ==
  ASSUME TriageInv, NEW verdicts \in [tgRun.inv -> TriageVerdicts], runFreshTriageAgent(verdicts)
  PROVE  TriageInv'
<1> PICK fixes : fixes = {t \in tgRun.inv : verdicts[t] = "fixed"}
  OBVIOUS
<1>1. tgRun \in TriageRuns /\ tgRun.inv \in SUBSET TriageThreads /\ tgItem.head \in Nat
  BY TriageFacts DEF TriageRuns
<1>2. verdicts \in TriageMaps /\ DOMAIN verdicts = tgRun.inv /\ fixes \in SUBSET TriageThreads
  BY <1>1, TriageMapTyped
<1>3. Checkout /\ tgRun.at = "agent" /\ tgReport[tgItem.n] = NoReport
  BY CheckoutIsFresh DEF runFreshTriageAgent
<1>4. AttemptFits(tgRun, tgItem)
  BY DEF TriageInv, ItemFits
<1>5. UNCHANGED <<tgPr, tgBranch, tgThread, tgItem, tgIntent, tgPush, tgUnreported, tgPreview, tgReport>>
  BY DEF runFreshTriageAgent
<1>6. CASE tgItem.mode = "preview"
  <2> PICK plan : plan = [NoPlan EXCEPT !.base = tgItem.head, !.verdicts = verdicts, !.fixes = fixes]
    OBVIOUS
  <2> PICK run : run = [tgRun EXCEPT !.at = "preview", !.plan = plan]
    OBVIOUS
  <2>1. plan \in TriagePlans /\ plan.verdicts = verdicts /\ plan.fixes = fixes
    <3>1. plan = PlanWith(tgItem.head, 0, 0, verdicts, fixes)
      BY DEF NoPlan, PlanWith
    <3> QED
      BY <1>1, <1>2, <3>1, PlanTyped
  <2>2. PlanFits(plan)
    BY <1>2, <2>1 DEF PlanFits
  <2>3. run \in TriageRuns
    BY <1>1, <2>1 DEF TriageRuns, TriagePlaces
  <2>4. run.at = "preview" /\ run.plan = plan /\ run.todo = tgRun.todo
    BY <1>1 DEF TriageRuns
  <2>5. FALSE \/ tgRun' = run
    BY <1>6 DEF runFreshTriageAgent
  <2>6. ApprovalFits(run, tgItem)
    BY <1>6, <2>4 DEF ApprovalFits, PushBuilding
  <2>7. run.todo = {}
    BY <1>3, <1>4, <2>4 DEF AttemptFits, PushBuilding
  <2> QED
    BY <1>3, <1>5, <2>2, <2>3, <2>4, <2>5, <2>6, <2>7, GoesOnFits, SameRowStep
<1>7. CASE tgItem.mode # "preview" /\ TriageGoes("report_only")
  <2> PICK run : run = [tgRun EXCEPT !.at = "report_only"]
    OBVIOUS
  <2>1. run \in TriageRuns
    BY <1>1 DEF TriageRuns, TriagePlaces
  <2>2. run.at = "report_only" /\ run.plan = tgRun.plan /\ run.todo = tgRun.todo
    BY <1>1 DEF TriageRuns
  <2>3. run.todo = {} /\ PlanFits(run.plan)
    BY <1>3, <1>4, <2>2 DEF AttemptFits, PushBuilding
  <2>4. ApprovalFits(run, tgItem)
    BY <2>2 DEF ApprovalFits, PushBuilding
  <2>5. tgRun' = run
    BY <1>7 DEF TriageGoes
  <2> QED
    BY <1>3, <1>5, <2>1, <2>2, <2>3, <2>4, <2>5, GoesOnFits, SameRowStep
<1>8. CASE /\ tgItem.mode # "preview"
           /\ tgRun' = [tgRun EXCEPT !.at = "arm", !.todo = DOMAIN verdicts,
                          !.plan = [base |-> tgItem.head, item |-> tgItem.n, try |-> tgItem.tries,
                                    verdicts |-> verdicts, fixes |-> fixes]]
  <2> PICK plan : plan = PlanWith(tgItem.head, tgItem.n, tgItem.tries, verdicts, fixes)
    OBVIOUS
  <2> PICK run : run = ArmRun(plan, tgRun.inv)
    OBVIOUS
  <2>1. /\ plan \in TriagePlans /\ plan.base = tgItem.head /\ plan.item = tgItem.n
        /\ plan.try = tgItem.tries /\ plan.verdicts = verdicts /\ plan.fixes = fixes
    <3>1. tgItem.head \in Nat /\ tgItem.n \in Nat /\ tgItem.tries \in Nat
      BY TriageFacts
    <3> QED
      BY <1>2, <3>1, PlanTyped
  <2>2. PlanFits(plan)
    BY <1>2, <2>1 DEF PlanFits
  <2>3. run \in TriageRuns /\ run.at = "arm" /\ run.plan = plan /\ run.todo = tgRun.inv
    BY <1>1, <2>1, ArmRunFacts
  <2>4. run.todo = DOMAIN run.plan.verdicts
    BY <1>2, <2>1, <2>3
  <2>5. tgItem.mode # "bulk"
    BY <1>8 DEF runFreshTriageAgent
  <2>6. ItemFits(run, tgItem)
    BY <1>3, <2>1, <2>2, <2>3, <2>4, <2>5, ArmFits
  <2>7. tgRun' = run
    BY <1>2, <1>8 DEF ArmRun, PlanWith
  <2> QED
    BY <1>5, <2>3, <2>6, <2>7, SameRowStep
<1> QED
  BY <1>6, <1>7, <1>8 DEF runFreshTriageAgent

LEMMA RemapTyped ==
  ASSUME NEW ids \in SUBSET TriageThreads, NEW applied, NEW map \in TriageMaps,
         ids \subseteq DOMAIN latestPreview.verdicts, latestPreview.verdicts = map
  PROVE  /\ remapBulkPayload(ids, applied) \in TriageMaps
         /\ DOMAIN remapBulkPayload(ids, applied) \in SUBSET TriageThreads
         /\ \A t \in DOMAIN remapBulkPayload(ids, applied) :
              remapBulkPayload(ids, applied)[t] = "fixed" => t \in applied
<1> PICK kept : kept = {t \in ids : map[t] = "fixed" => t \in applied}
  OBVIOUS
<1>1. remapBulkPayload(ids, applied) = [t \in kept |-> map[t]]
  BY DEF remapBulkPayload
<1>2. PICK S \in SUBSET TriageThreads : map \in [S -> TriageVerdicts]
  BY DEF TriageMaps
<1>3. \A t \in kept : map[t] \in TriageVerdicts /\ (map[t] = "fixed" => t \in applied)
  BY <1>2
<1>4. kept \in SUBSET TriageThreads
  OBVIOUS
<1>5. [t \in kept |-> map[t]] \in [kept -> TriageVerdicts]
  BY <1>3
<1> QED
  BY <1>1, <1>3, <1>4, <1>5, TriageMapTyped

LEMMA BulkStep ==
  ASSUME TriageInv, NEW applied \in SUBSET tgRun.inv, runBulkFromPreview(applied)
  PROVE  TriageInv'
<1> PICK preview : preview = latestPreview
  OBVIOUS
<1> PICK ids : ids = approvedPreviewThreads(tgRun.inv)
  OBVIOUS
<1> PICK map : map = remapBulkPayload(ids, applied)
  OBVIOUS
<1> PICK todo : todo = DOMAIN map
  OBVIOUS
<1> PICK plan : plan = PlanWith(tgItem.head, tgItem.n, tgItem.tries, map, applied)
  OBVIOUS
<1> PICK run : run = ArmRun(plan, todo)
  OBVIOUS
<1>1. tgRun \in TriageRuns /\ tgRun.inv \in SUBSET TriageThreads /\ tgItem.head \in Nat
      /\ tgItem.n \in Nat /\ tgItem.tries \in Nat /\ applied \in SUBSET TriageThreads
  BY TriageFacts DEF TriageRuns
<1>2. Checkout /\ tgRun.at = "agent" /\ tgItem.mode = "bulk" /\ applied \subseteq preview.hunks \cap ids
  BY CheckoutIsFresh DEF runBulkFromPreview, approvedPreviewHunks
<1>3. /\ preview \in TriagePreviews /\ preview # NoPreview /\ preview.head = tgItem.head
      /\ preview.verdicts \in TriageMaps
  <2>1. ApprovalFits(tgRun, tgItem)
    BY DEF TriageInv, ItemFits
  <2>2. preview \in TriagePreviews
    BY LatestPreviewFacts
  <2> QED
    BY <1>2, <2>1, <2>2 DEF ApprovalFits, TriagePreviews
<1>4. /\ ids \in SUBSET TriageThreads /\ ids \subseteq DOMAIN preview.verdicts
      /\ ids \cap tgItem.excl = {}
  BY <1>1 DEF approvedPreviewThreads
<1>5. map \in TriageMaps /\ todo \in SUBSET TriageThreads /\ \A t \in todo : map[t] = "fixed" => t \in applied
  BY <1>3, <1>4, RemapTyped
<1>6. /\ plan \in TriagePlans /\ plan.base = tgItem.head /\ plan.item = tgItem.n
      /\ plan.try = tgItem.tries /\ plan.verdicts = map /\ plan.fixes = applied
  BY <1>1, <1>5, PlanTyped
<1>7. run \in TriageRuns /\ run.at = "arm" /\ run.plan = plan /\ run.todo = todo
  BY <1>1, <1>5, <1>6, ArmRunFacts
<1>8. PlanFits(plan)
  BY <1>5, <1>6 DEF PlanFits
<1>9. Approved(tgItem.head, applied) /\ applied \cap tgItem.excl = {}
  <2>1. PICK i \in TriageItems : tgPreview[i] = preview
    BY <1>3, LatestPreviewFacts
  <2>2. Approves(i, tgItem.head, applied)
    BY <1>2, <1>3, <2>1 DEF Approves
  <2> QED
    BY <1>2, <1>4, <2>2 DEF Approved
<1>10. ItemFits(run, tgItem)
  BY <1>2, <1>6, <1>7, <1>8, <1>9, ArmFits
<1>11. tgRun' = run
  BY DEF runBulkFromPreview, ArmRun, PlanWith
<1>12. UNCHANGED <<tgPr, tgBranch, tgThread, tgItem, tgIntent, tgPush, tgUnreported, tgPreview, tgReport>>
  BY DEF runBulkFromPreview
<1> QED
  BY <1>7, <1>10, <1>11, <1>12, SameRowStep

(* The intent of the newest item *)

LEMMA OnBranchKept ==
  ASSUME NEW plan, tgBranch \in Seq(TriagePushes),
         \/ UNCHANGED tgBranch
         \/ \E new \in TriagePushes : tgBranch' = Append(tgBranch, new),
         OnBranch(plan)
  PROVE  OnBranch(plan)'
<1>1. CASE UNCHANGED tgBranch
  BY <1>1 DEF OnBranch
<1>2. CASE \E new \in TriagePushes : tgBranch' = Append(tgBranch, new)
  <2>1. PICK new \in TriagePushes : tgBranch' = Append(tgBranch, new)
    BY <1>2
  <2>2. \A k \in DOMAIN tgBranch : k \in DOMAIN tgBranch' /\ tgBranch'[k] = tgBranch[k]
    BY <2>1
  <2> QED
    BY <2>2 DEF OnBranch
<1> QED
  BY <1>1, <1>2

\* Another row for it, about a push that is on the branch if it says so.
LEMMA IntentKept ==
  ASSUME TriageInv, tgItem.n \in TriageItems, NEW row \in PushIntents, PlanFits(row.plan),
         tgIntent' = [tgIntent EXCEPT ![tgItem.n] = row],
         \/ UNCHANGED tgBranch
         \/ \E new \in TriagePushes : tgBranch' = Append(tgBranch, new),
         row.state = "reconciled" => OnBranch(row.plan)'
  PROVE  /\ tgIntent' \in [TriageItems -> PushIntents] /\ IntentsFit' /\ tgIntent'[tgItem.n] = row
         /\ \A i \in TriageItems : i # tgItem.n => tgIntent'[i] = tgIntent[i]
<1>1. tgIntent \in [TriageItems -> PushIntents]
  BY DEF TriageInv, TriageTyped
<1>2. /\ tgIntent' \in [TriageItems -> PushIntents] /\ tgIntent'[tgItem.n] = row
      /\ \A i \in TriageItems : i # tgItem.n => tgIntent'[i] = tgIntent[i]
  BY <1>1
<1>3. ASSUME NEW i \in TriageItems
      PROVE  (PlanFits(tgIntent[i].plan) /\ (tgIntent[i].state = "reconciled" => OnBranch(tgIntent[i].plan)))'
  <2> PICK intent : intent = tgIntent'[i]
    OBVIOUS
  <2>1. CASE i = tgItem.n
    <3>1. intent = row
      BY <1>2, <2>1
    <3>2. PlanFits(intent.plan) /\ (intent.state = "reconciled" => OnBranch(intent.plan)')
      BY <3>1
    <3> QED
      BY <3>2 DEF PlanFits, OnBranch
  <2>2. CASE i # tgItem.n
    <3>1. intent = tgIntent[i]
      BY <1>2, <2>2
    <3>2. PlanFits(intent.plan) /\ (intent.state = "reconciled" => OnBranch(intent.plan))
      BY <3>1, RecordTyped
    <3> PICK plan : plan = intent.plan
      OBVIOUS
    <3>3. OnBranch(plan) => OnBranch(plan)'
      BY TriageFacts, OnBranchKept
    <3>4. PlanFits(plan) /\ (intent.state = "reconciled" => OnBranch(plan)')
      BY <3>2, <3>3
    <3> QED
      BY <3>4 DEF PlanFits, OnBranch
  <2> QED
    BY <2>1, <2>2
<1> QED
  BY <1>2, <1>3 DEF IntentsFit

LEMMA IntentRowTyped ==
  ASSUME TriageInv, tgItem.n \in TriageItems,
         NEW state \in {"none", "armed", "mutating", "unknown", "reconciled", "failed", "terminal"},
         IntentBecomes(state)
  PROVE  \E row \in PushIntents :
           /\ tgIntent' = [tgIntent EXCEPT ![tgItem.n] = row] /\ row.state = state
           /\ row.plan = tgIntent[tgItem.n].plan /\ PlanFits(row.plan)
<1> PICK plan : plan = tgIntent[tgItem.n].plan
  OBVIOUS
<1> PICK row : row = [state |-> state, plan |-> plan]
  OBVIOUS
<1>1. plan \in TriagePlans /\ PlanFits(plan)
  BY RecordTyped
<1>2. row \in PushIntents /\ row.state = state /\ row.plan = plan
  BY <1>1 DEF PushIntents
<1>3. tgIntent' = [tgIntent EXCEPT ![tgItem.n] = row]
  BY DEF IntentBecomes
<1> QED
  BY <1>1, <1>2, <1>3

LEMMA StoreWithIntent ==
  ASSUME StoreFits, IntentsFit', UNCHANGED <<tgBranch, tgThread, tgPush, tgPreview, tgReport>>
  PROVE  StoreFits'
<1>1. ThreadsFit'
  BY ThreadsFitNext DEF StoreFits
<1> QED
  BY <1>1 DEF StoreFits, PushesFit, ReportsFit, BranchFits, Approved, Approves, Pushed, OnBranch, PlanFits

LEMMA TypedWithIntent ==
  ASSUME TriageInv, NEW run \in TriageRuns, NEW item \in TriageRows, tgRun' = run, tgItem' = item,
         tgIntent' \in [TriageItems -> PushIntents],
         UNCHANGED <<tgPr, tgBranch, tgThread, tgPush, tgUnreported, tgPreview, tgReport>>
  PROVE  TriageTyped'
BY DEF TriageInv, TriageTyped

LEMMA FailClosedStep ==
  ASSUME TriageInv, tgRun.at \in {"discover", "arm"}, failClosed,
         UNCHANGED <<tgPr, tgBranch, tgThread, tgPush, tgUnreported, tgPreview, tgReport>>
  PROVE  TriageInv'
<1> PICK state : state = IF PushSettled(tgIntent[tgItem.n]) THEN "reconciled" ELSE "terminal"
  OBVIOUS
<1> PICK status : status = ThrownStatus
  OBVIOUS
<1> PICK item : item = EndedRow(status, tgItem.died)
  OBVIOUS
<1> PICK idle : idle = TriageIdle
  OBVIOUS
<1>1. tgItem.n \in TriageItems /\ state \in {"reconciled", "terminal"} /\ tgItem.died \in BOOLEAN
  BY TriageFacts
<1>2. IntentBecomes(state)
  BY DEF failClosed
<1>3. PICK row \in PushIntents :
        /\ tgIntent' = [tgIntent EXCEPT ![tgItem.n] = row] /\ row.state = state
        /\ row.plan = tgIntent[tgItem.n].plan /\ PlanFits(row.plan)
  BY <1>1, <1>2, IntentRowTyped
<1>4. row.state = "reconciled" => OnBranch(row.plan)'
  <2> PICK plan : plan = row.plan
    OBVIOUS
  <2>1. row.state = "reconciled" => OnBranch(plan)
    BY <1>1, <1>3, RecordTyped DEF PushSettled
  <2>2. OnBranch(plan) => OnBranch(plan)'
    BY DEF OnBranch
  <2>3. row.state = "reconciled" => OnBranch(plan)'
    BY <2>1, <2>2
  <2> QED
    BY <2>3 DEF OnBranch
<1>5. /\ tgIntent' \in [TriageItems -> PushIntents] /\ IntentsFit' /\ tgIntent'[tgItem.n] = row
      /\ \A i \in TriageItems : i # tgItem.n => tgIntent'[i] = tgIntent[i]
  BY <1>1, <1>3, <1>4, IntentKept
<1>6. StoreFits'
  BY <1>5, StoreWithIntent DEF TriageInv
<1>7. /\ item \in TriageRows /\ item.n = tgItem.n /\ item.head = tgItem.head
      /\ item.tries = tgItem.tries /\ item.status = status /\ item.died = tgItem.died
      /\ status \in {"queued", "failed", "cancelled"}
      /\ (status = "queued" => tgItem.tries < MaxTriageTries)
  BY <1>1, ThrownStatusFacts, EndedRowFacts
<1>8. tgRun' = idle /\ tgItem' = item /\ idle \in TriageRuns /\ idle.at = "idle" /\ idle.todo = {}
      /\ PlanFits(idle.plan)
  BY SameDied, IdleFacts, NoPlanTyped DEF failClosed, TriageThrown
<1>9. TriageTyped'
  BY <1>5, <1>7, <1>8, TypedWithIntent
<1>10. RowFits(tgRun, tgItem) /\ AttemptFits(tgRun, tgItem) /\ PushOfItemFits(tgRun, tgItem)
  BY DEF TriageInv, ItemFits
<1>11. RowFits(tgRun, tgItem)'
  BY <1>1, <1>5, <1>7, <1>8, <1>10, TriageFacts DEF RowFits
<1>12. AttemptFits(tgRun, tgItem)'
  BY <1>8 DEF AttemptFits, PushBuilding, PushSending, PlanFits
<1>13. PushOfItemFits(tgRun, tgItem)'
  <2>1. PushStarted(row)
    BY <1>1, <1>3 DEF PushStarted
  <2>2. Pushed(tgItem.n)' => Pushed(tgItem.n)
    BY <1>7, <1>8 DEF Pushed
  <2>3. tgItem'.n = tgItem.n /\ tgItem'.died = tgItem.died /\ tgRun'.at = "idle" /\ tgIntent'[tgItem'.n] = row
    BY <1>5, <1>7, <1>8
  <2>4. (tgItem.died \/ Pushed(tgItem.n) => PushStarted(tgIntent[tgItem.n]) /\ tgRun.at \notin PushSending)'
    BY <2>1, <2>3 DEF PushSending, PushStarted
  <2>5. (~tgItem.died /\ Pushed(tgItem.n) =>
           \/ tgRun.at = "recheck" \/ tgItem.status = "cancelled"
           \/ tgPush[tgItem.n].outcome \in {"pushed", "closed"})'
    <3>1. ~tgItem.died /\ Pushed(tgItem.n) => tgPush[tgItem.n].outcome \in {"pushed", "closed"}
      BY <1>1, <1>10, TriageFacts DEF PushOfItemFits
    <3> QED
      BY <2>2, <2>3, <3>1
  <2>6. (~tgItem.died /\ tgReport[tgItem.n].outcome = "not-needed" => ~Pushed(tgItem.n))'
    <3>1. ~tgItem.died /\ tgReport[tgItem.n].outcome = "not-needed" => ~Pushed(tgItem.n)
      BY <1>1, <1>10 DEF PushOfItemFits
    <3> QED
      BY <2>2, <2>3, <3>1
  <2> QED
    BY <2>4, <2>5, <2>6 DEF PushOfItemFits
<1>14. ApprovalFits(tgRun, tgItem)'
  BY <1>8 DEF ApprovalFits, PushBuilding
<1> QED
  BY <1>6, <1>9, <1>11, <1>12, <1>13, <1>14 DEF TriageInv, ItemFits

(* Discovery *)

LEMMA RetainedPushFacts ==
  ASSUME TriageInv, tgItem.n \in TriageItems
  PROVE  /\ retainedPush \in PushRecords /\ retainedPush.plan \in TriagePlans
         /\ PlanFits(retainedPush.plan) /\ retainedPush.outcome \in PushOutcomes
         /\ retainedPush.outcome = "pushed" => OnBranch(retainedPush.plan)
         /\ retainedPush = tgPush[tgItem.n] \/ tgPush[tgItem.n] = NoRecord
<1>1. CASE retainedPush = tgPush[tgItem.n]
  BY <1>1, RecordTyped
<1>2. CASE tgUnreported # 0 /\ retainedPush = tgPush[tgUnreported] /\ tgPush[tgItem.n] = NoRecord
  <2>1. tgUnreported \in TriageItems
    <3>1. tgUnreported \in 0 .. MaxTriageItems
      BY DEF TriageInv, TriageTyped
    <3> QED
      BY <1>2, <3>1, TriageFacts DEF TriageItems
  <2> QED
    BY <1>2, <2>1, RecordTyped
<1>3. CASE retainedPush = NoRecord /\ tgPush[tgItem.n] = NoRecord
  <2>1. NoRecord = [outcome |-> "none", plan |-> NoPlan]
    BY DEF NoRecord
  <2> QED
    BY <1>3, <2>1, NoPlanTyped DEF PushOutcomes
<1> QED
  BY <1>1, <1>2, <1>3 DEF retainedPush

ResumedRun(at, plan, outcome, inv) ==
  [at |-> at, inv |-> DOMAIN plan.verdicts, plan |-> plan, outcome |-> outcome,
   todo |-> DOMAIN plan.verdicts \cap inv]

LEMMA ResumedRunFacts ==
  ASSUME NEW at \in TriagePlaces, NEW plan \in TriagePlans, NEW outcome \in PushOutcomes, NEW inv
  PROVE  /\ ResumedRun(at, plan, outcome, inv) \in TriageRuns
         /\ ResumedRun(at, plan, outcome, inv).at = at /\ ResumedRun(at, plan, outcome, inv).plan = plan
         /\ ResumedRun(at, plan, outcome, inv).outcome = outcome
         /\ ResumedRun(at, plan, outcome, inv).todo \subseteq DOMAIN plan.verdicts
<1> PICK dom : dom = DOMAIN plan.verdicts
  OBVIOUS
<1>1. dom \in SUBSET TriageThreads
  <2>1. plan.verdicts \in TriageMaps
    BY DEF TriagePlans
  <2> QED
    BY <2>1, TriageMapDomain
<1>2. [at |-> at, inv |-> dom, plan |-> plan, outcome |-> outcome, todo |-> dom \cap inv] \in TriageRuns
  BY <1>1 DEF TriageRuns
<1> QED
  BY <1>2 DEF ResumedRun

LEMMA ResumeStep ==
  ASSUME TriageInv, tgRun.at = "discover", ~AlreadyPublished,
         NEW at \in {"threads", "recheck"}, NEW plan \in TriagePlans, NEW outcome \in PushOutcomes, NEW inv,
         PlanFits(plan), outcome # "stale", outcome = "pushed" => OnBranch(plan),
         at = "recheck" => PushStarted(tgIntent[tgItem.n]) /\ OnBranch(plan),
         at = "threads" /\ ~tgItem.died /\ outcome = "not-needed" => ~Pushed(tgItem.n),
         tgRun' = ResumedRun(at, plan, outcome, inv),
         UNCHANGED <<tgPr, tgBranch, tgThread, tgItem, tgIntent, tgPush, tgUnreported, tgPreview, tgReport>>
  PROVE  TriageInv'
<1> PICK run : run = ResumedRun(at, plan, outcome, inv)
  OBVIOUS
<1>1. /\ run \in TriageRuns /\ run.at = at /\ run.plan = plan /\ run.outcome = outcome
      /\ run.todo \subseteq DOMAIN run.plan.verdicts
  <2>1. at \in TriagePlaces
    BY DEF TriagePlaces
  <2> QED
    BY <2>1, ResumedRunFacts
<1>2. tgItem.n \in TriageItems /\ tgReport[tgItem.n] = NoReport
  BY TriageFacts DEF AlreadyPublished
<1>3. RowFits(tgRun, tgItem) /\ PushOfItemFits(tgRun, tgItem)
  BY DEF TriageInv, ItemFits
<1>4. RowFits(run, tgItem)
  BY <1>1, <1>3 DEF RowFits
<1>5. AttemptFits(run, tgItem)
  BY <1>1, <1>2 DEF AttemptFits, PushBuilding, PushSending
<1>6. PushOfItemFits(run, tgItem)
  BY <1>1, <1>2, <1>3 DEF PushOfItemFits, PushSending
<1>7. ApprovalFits(run, tgItem)
  BY <1>1 DEF ApprovalFits, PushBuilding
<1>8. tgRun' = run
  OBVIOUS
<1> QED
  BY <1>1, <1>4, <1>5, <1>6, <1>7, <1>8, SameRowStep DEF ItemFits

DiscoveredRun(at, inv) == [tgRun EXCEPT !.at = at, !.inv = inv]

LEMMA FreshRunFacts ==
  ASSUME tgRun \in TriageRuns, NEW at \in {"report_only", "agent"}, NEW inv \in SUBSET TriageThreads
  PROVE  /\ DiscoveredRun(at, inv) \in TriageRuns /\ DiscoveredRun(at, inv).at = at
         /\ DiscoveredRun(at, inv).plan = tgRun.plan /\ DiscoveredRun(at, inv).todo = tgRun.todo
BY DEF DiscoveredRun, TriageRuns, TriagePlaces

Found(scope) == IF tgItem.mode = "preview" THEN "fresh" ELSE recoverTriagePublication(scope)
FoundPush(found) ==
  IF found = "resume" THEN retainedPush ELSE [outcome |-> "pushed", plan |-> tgIntent[tgItem.n].plan]
FoundPlace(found) == IF found = "resume" THEN "threads" ELSE "recheck"

LEMMA DiscoverCases ==
  ASSUME resolveInventoryAndScope
  PROVE  \E scope, found :
    /\ found = Found(scope)
    /\ \/ AlreadyPublished /\ TriageGoes("finish") /\ UNCHANGED <<tgItem, tgIntent>>
       \/ ~AlreadyPublished /\ found = "fail_closed" /\ failClosed
       \/ /\ ~AlreadyPublished /\ found \in {"resume", "resume_intent"}
          /\ tgRun' = ResumedRun(FoundPlace(found), FoundPush(found).plan, FoundPush(found).outcome,
                                 UnresolvedInventory)
          /\ UNCHANGED <<tgItem, tgIntent>>
       \/ /\ ~AlreadyPublished
          /\ tgRun' = DiscoveredRun(IF scope = {} THEN "report_only" ELSE "agent", UnresolvedInventory)
          /\ UNCHANGED <<tgItem, tgIntent>>
<1> PICK scope : scope = IF tgItem.mode = "bulk" THEN approvedPreviewThreads(UnresolvedInventory)
                         ELSE UnresolvedInventory
  OBVIOUS
<1> PICK found : found = Found(scope)
  OBVIOUS
<1>1. CASE AlreadyPublished
  BY <1>1 DEF resolveInventoryAndScope
<1>2. CASE ~AlreadyPublished /\ found = "fail_closed"
  BY <1>2 DEF resolveInventoryAndScope, Found
<1>3. CASE ~AlreadyPublished /\ found \in {"resume", "resume_intent"}
  BY <1>3 DEF resolveInventoryAndScope, Found, ResumedRun, FoundPush, FoundPlace
<1>4. CASE ~AlreadyPublished /\ found \notin {"resume", "resume_intent", "fail_closed"}
  BY <1>4 DEF resolveInventoryAndScope, Found, DiscoveredRun
<1> QED
  BY <1>1, <1>2, <1>3, <1>4

LEMMA DiscoverStep ==
  ASSUME TriageInv, resolveInventoryAndScope
  PROVE  TriageInv'
<1>1. /\ tgRun.at = "discover" /\ tgItem.n \in TriageItems /\ tgItem.status = "running"
      /\ tgRun \in TriageRuns
  BY TriageFacts DEF resolveInventoryAndScope, TriageAt
<1>2. UNCHANGED <<tgPr, tgBranch, tgThread, tgPush, tgUnreported, tgPreview, tgReport>>
  BY DEF resolveInventoryAndScope
<1>3. AttemptFits(tgRun, tgItem) /\ PushOfItemFits(tgRun, tgItem) /\ ApprovalFits(tgRun, tgItem)
      /\ tgRun.todo = {} /\ PlanFits(tgRun.plan)
  BY <1>1 DEF TriageInv, ItemFits, AttemptFits, PushBuilding
<1>4. PICK scope, found :
    /\ found = Found(scope)
    /\ \/ AlreadyPublished /\ TriageGoes("finish") /\ UNCHANGED <<tgItem, tgIntent>>
       \/ ~AlreadyPublished /\ found = "fail_closed" /\ failClosed
       \/ /\ ~AlreadyPublished /\ found \in {"resume", "resume_intent"}
          /\ tgRun' = ResumedRun(FoundPlace(found), FoundPush(found).plan, FoundPush(found).outcome,
                                 UnresolvedInventory)
          /\ UNCHANGED <<tgItem, tgIntent>>
       \/ /\ ~AlreadyPublished
          /\ tgRun' = DiscoveredRun(IF scope = {} THEN "report_only" ELSE "agent", UnresolvedInventory)
          /\ UNCHANGED <<tgItem, tgIntent>>
  BY DiscoverCases
<1>5. CASE AlreadyPublished /\ TriageGoes("finish") /\ UNCHANGED <<tgItem, tgIntent>>
  <2> PICK run : run = [tgRun EXCEPT !.at = "finish"]
    OBVIOUS
  <2>1. run \in TriageRuns
    BY <1>1 DEF TriageRuns, TriagePlaces
  <2>2. run.at = "finish" /\ run.plan = tgRun.plan /\ run.todo = tgRun.todo
    BY <1>1 DEF TriageRuns
  <2>3. ApprovalFits(run, tgItem)
    BY <2>2 DEF ApprovalFits, PushBuilding
  <2>4. tgRun' = run
    BY <1>5 DEF TriageGoes
  <2>5. ItemFits(run, tgItem)
    BY <1>1, <1>3, <2>1, <2>2, <2>3, GoesOnFits
  <2> QED
    BY <1>2, <1>5, <2>1, <2>4, <2>5, SameRowStep
<1>6. CASE failClosed
  BY <1>1, <1>2, <1>6, FailClosedStep
<1>7. CASE /\ ~AlreadyPublished /\ found = "resume"
           /\ tgRun' = ResumedRun(FoundPlace(found), FoundPush(found).plan, FoundPush(found).outcome,
                                  UnresolvedInventory)
           /\ UNCHANGED <<tgItem, tgIntent>>
  <2> PICK stored : stored = retainedPush
    OBVIOUS
  <2>1. FoundPush(found) = stored /\ FoundPlace(found) = "threads"
    BY <1>7 DEF FoundPush, FoundPlace
  <2>2. stored # NoRecord /\ stored.outcome # "stale"
    BY <1>4, <1>7 DEF Found, recoverTriagePublication, storedPushMatchesPublication
  <2>3. /\ stored.plan \in TriagePlans /\ PlanFits(stored.plan) /\ stored.outcome \in PushOutcomes
        /\ stored.outcome = "pushed" => OnBranch(stored.plan)
        /\ stored = tgPush[tgItem.n] \/ tgPush[tgItem.n] = NoRecord
    BY <1>1, RetainedPushFacts
  <2>4. ~tgItem.died /\ stored.outcome = "not-needed" => ~Pushed(tgItem.n)
    <3>1. ~tgItem.died /\ Pushed(tgItem.n) => tgPush[tgItem.n].outcome \in {"pushed", "closed"}
      BY <1>1, <1>3 DEF PushOfItemFits
    <3>2. NoRecord.outcome = "none"
      BY DEF NoRecord
    <3> QED
      BY <2>3, <3>1, <3>2
  <2> PICK plan \in TriagePlans : plan = stored.plan
    BY <2>3
  <2> PICK outcome \in PushOutcomes : outcome = stored.outcome
    BY <2>3
  <2> PICK inv : inv = UnresolvedInventory
    OBVIOUS
  <2> PICK at \in {"threads", "recheck"} : at = "threads"
    OBVIOUS
  <2>5. tgRun' = ResumedRun(at, plan, outcome, inv)
    BY <1>7, <2>1
  <2>6. PlanFits(plan) /\ outcome # "stale" /\ (outcome = "pushed" => OnBranch(plan))
        /\ at # "recheck" /\ (~tgItem.died /\ outcome = "not-needed" => ~Pushed(tgItem.n))
    BY <2>2, <2>3, <2>4
  <2> QED
    BY <1>1, <1>2, <1>7, <2>5, <2>6, ResumeStep
<1>8. CASE /\ ~AlreadyPublished /\ found = "resume_intent"
           /\ tgRun' = ResumedRun(FoundPlace(found), FoundPush(found).plan, FoundPush(found).outcome,
                                  UnresolvedInventory)
           /\ UNCHANGED <<tgItem, tgIntent>>
  <2> PICK intent : intent = tgIntent[tgItem.n]
    OBVIOUS
  <2>1. FoundPush(found) = [outcome |-> "pushed", plan |-> intent.plan] /\ FoundPlace(found) = "recheck"
    BY <1>8 DEF FoundPush, FoundPlace
  <2>2. intent.state = "reconciled"
    BY <1>4, <1>8 DEF Found, recoverTriagePublication, PushSettled
  <2>3. intent.plan \in TriagePlans /\ PlanFits(intent.plan) /\ OnBranch(intent.plan)
    BY <1>1, <2>2, RecordTyped
  <2> PICK plan \in TriagePlans : plan = intent.plan
    BY <2>3
  <2> PICK outcome \in PushOutcomes : outcome = "pushed"
    BY DEF PushOutcomes
  <2> PICK inv : inv = UnresolvedInventory
    OBVIOUS
  <2> PICK at \in {"threads", "recheck"} : at = "recheck"
    OBVIOUS
  <2>4. tgRun' = ResumedRun(at, plan, outcome, inv)
    BY <1>8, <2>1
  <2>5. PushStarted(tgIntent[tgItem.n])
    BY <2>2 DEF PushStarted
  <2> QED
    BY <1>1, <1>2, <1>8, <2>3, <2>4, <2>5, ResumeStep
<1>9. CASE /\ ~AlreadyPublished
           /\ tgRun' = DiscoveredRun(IF scope = {} THEN "report_only" ELSE "agent", UnresolvedInventory)
           /\ UNCHANGED <<tgItem, tgIntent>>
  <2> PICK at : at = IF scope = {} THEN "report_only" ELSE "agent"
    OBVIOUS
  <2> PICK inv : inv = UnresolvedInventory
    OBVIOUS
  <2> PICK run : run = DiscoveredRun(at, inv)
    OBVIOUS
  <2>1. at \in {"report_only", "agent"} /\ inv \in SUBSET TriageThreads
    BY DEF UnresolvedInventory
  <2>2. run \in TriageRuns /\ run.at = at /\ run.plan = tgRun.plan /\ run.todo = tgRun.todo
    BY <1>1, <2>1, FreshRunFacts
  <2>3. ApprovalFits(run, tgItem)
    BY <1>1, <1>3, <2>1, <2>2 DEF ApprovalFits, PushBuilding
  <2>4. tgReport[tgItem.n] = NoReport
    BY <1>9 DEF AlreadyPublished
  <2>5. ItemFits(run, tgItem)
    BY <1>1, <1>3, <2>1, <2>2, <2>3, <2>4, GoesOnFits
  <2>6. tgRun' = run
    BY <1>9
  <2> QED
    BY <1>2, <1>9, <2>2, <2>5, <2>6, SameRowStep
<1> QED
  BY <1>4, <1>5, <1>6, <1>7, <1>8, <1>9

(* Reports *)

\* What changes when the newest item records its report, and perhaps its preview.
LEMMA ReportKept ==
  ASSUME TriageInv, tgItem.n \in TriageItems, NEW report \in TriageReports,
         tgPreview'[tgItem.n] # NoPreview => report # NoReport,
         tgReport' = [tgReport EXCEPT ![tgItem.n] = report],
         \A plan \in report.listed : OnBranch(plan),
         report.outcome = "stale" => ~Pushed(tgItem.n),
         NEW unreported \in 0 .. MaxTriageItems, tgUnreported' = unreported,
         tgReport[tgItem.n] = NoReport \/ UNCHANGED tgPreview,
         \/ UNCHANGED tgPreview
         \/ \E preview \in TriagePreviews : tgPreview' = [tgPreview EXCEPT ![tgItem.n] = preview],
         tgRun' \in TriageRuns, UNCHANGED <<tgPr, tgBranch, tgThread, tgItem, tgIntent, tgPush>>
  PROVE  /\ TriageTyped' /\ StoreFits' /\ tgReport'[tgItem.n] = report
         /\ \A i \in TriageItems : i # tgItem.n => tgReport'[i] = tgReport[i]
<1>1. tgReport \in [TriageItems -> TriageReports] /\ tgPreview \in [TriageItems -> TriagePreviews]
  BY DEF TriageInv, TriageTyped
<1>2. /\ tgReport' \in [TriageItems -> TriageReports] /\ tgReport'[tgItem.n] = report
      /\ \A i \in TriageItems : i # tgItem.n => tgReport'[i] = tgReport[i]
  BY <1>1
<1>3. /\ tgPreview' \in [TriageItems -> TriagePreviews]
      /\ \A i \in TriageItems : i # tgItem.n => tgPreview'[i] = tgPreview[i]
  <2>1. CASE UNCHANGED tgPreview
    BY <1>1, <2>1
  <2>2. CASE \E preview \in TriagePreviews : tgPreview' = [tgPreview EXCEPT ![tgItem.n] = preview]
    <3>1. PICK preview \in TriagePreviews : tgPreview' = [tgPreview EXCEPT ![tgItem.n] = preview]
      BY <2>2
    <3> QED
      BY <1>1, <3>1
  <2> QED
    BY <2>1, <2>2
<1>4. TriageTyped'
  BY <1>2, <1>3 DEF TriageInv, TriageTyped
<1>5. ReportsFit'
  <2>1. ASSUME NEW i \in TriageItems
        PROVE  (/\ \A plan \in tgReport[i].listed : OnBranch(plan)
                /\ tgReport[i].outcome = "stale" => ~Pushed(i)
                /\ tgPreview[i] # NoPreview => tgReport[i] # NoReport)'
    <3> PICK now : now = tgReport'[i]
      OBVIOUS
    <3>1. CASE i = tgItem.n
      <4>1. now = report
        BY <1>2, <3>1
      <4>2. (\A plan \in now.listed : OnBranch(plan)) /\ (now.outcome = "stale" => ~Pushed(i))
            /\ (tgPreview'[i] # NoPreview => now # NoReport)
        BY <3>1, <4>1
      <4> QED
        BY <4>2 DEF OnBranch, Pushed
    <3>2. CASE i # tgItem.n
      <4>1. now = tgReport[i] /\ tgPreview'[i] = tgPreview[i]
        BY <1>2, <1>3, <3>2
      <4>2. /\ \A plan \in now.listed : OnBranch(plan)
            /\ now.outcome = "stale" => ~Pushed(i)
            /\ tgPreview[i] # NoPreview => now # NoReport
        BY <4>1 DEF TriageInv, StoreFits, ReportsFit
      <4> QED
        BY <4>1, <4>2 DEF OnBranch, Pushed
    <3> QED
      BY <3>1, <3>2
  <2> QED
    BY <2>1 DEF ReportsFit
<1>6. ASSUME NEW base, NEW fixes, Approved(base, fixes)
      PROVE  Approved(base, fixes)'
  <2>1. PICK i \in TriageItems : Approves(i, base, fixes)
    BY <1>6 DEF Approved
  <2>2. tgPreview'[i] = tgPreview[i]
    <3>1. tgPreview[i] # NoPreview => tgReport[i] # NoReport
      BY RecordTyped
    <3>2. tgReport[i] # NoReport
      BY <2>1, <3>1 DEF Approves
    <3> QED
      BY <1>3, <3>2
  <2>3. Approves(i, base, fixes)'
    BY <2>1, <2>2 DEF Approves
  <2> QED
    BY <2>3 DEF Approved
<1>7. BranchFits'
  <2>1. ASSUME NEW k \in DOMAIN tgBranch, tgBranch[k].mode = "bulk"
        PROVE  tgBranch[k].fixes \cap tgBranch[k].excl = {} /\ (Approved(tgBranch[k].base, tgBranch[k].fixes))'
    <3> PICK base : base = tgBranch[k].base
      OBVIOUS
    <3> PICK fixes : fixes = tgBranch[k].fixes
      OBVIOUS
    <3>1. fixes \cap tgBranch[k].excl = {} /\ Approved(base, fixes)
      BY <2>1 DEF TriageInv, StoreFits, BranchFits
    <3>2. Approved(base, fixes)'
      BY <1>6, <3>1
    <3> QED
      BY <3>1, <3>2 DEF Approved, Approves
  <2> QED
    BY <2>1 DEF BranchFits
<1>8. ThreadsFit'
  BY ThreadsFitNext DEF TriageInv, StoreFits
<1>9. IntentsFit' /\ PushesFit'
  BY DEF TriageInv, StoreFits, IntentsFit, PushesFit, PlanFits, OnBranch
<1> QED
  BY <1>2, <1>4, <1>5, <1>7, <1>8, <1>9 DEF StoreFits

\* The attempt that has recorded it only has to finish.
LEMMA ReportStep ==
  ASSUME TriageInv, tgRun.at \in {"preview", "threads", "report_only"}, tgRun.todo = {},
         NEW report \in TriageReports,
         tgPreview'[tgItem.n] # NoPreview => report # NoReport,
         tgReport' = [tgReport EXCEPT ![tgItem.n] = report],
         \A plan \in report.listed : OnBranch(plan),
         report.outcome = "stale" \/ (report.outcome = "not-needed" /\ ~tgItem.died) => ~Pushed(tgItem.n),
         NEW unreported \in 0 .. MaxTriageItems, tgUnreported' = unreported,
         tgReport[tgItem.n] = NoReport \/ UNCHANGED tgPreview,
         \/ UNCHANGED tgPreview
         \/ \E preview \in TriagePreviews : tgPreview' = [tgPreview EXCEPT ![tgItem.n] = preview],
         TriageGoes("finish"), UNCHANGED <<tgPr, tgBranch, tgThread, tgItem, tgIntent, tgPush>>
  PROVE  TriageInv'
<1> PICK run : run = [tgRun EXCEPT !.at = "finish"]
  OBVIOUS
<1>1. tgRun \in TriageRuns /\ tgItem.n \in TriageItems /\ tgItem.status = "running"
  BY TriageFacts
<1>2. run \in TriageRuns
  BY <1>1 DEF TriageRuns, TriagePlaces
<1>3. run.at = "finish" /\ run.plan = tgRun.plan /\ run.todo = {} /\ tgRun' = run
  BY <1>1 DEF TriageRuns, TriageGoes
<1>4. /\ TriageTyped' /\ StoreFits' /\ tgReport'[tgItem.n] = report
      /\ \A i \in TriageItems : i # tgItem.n => tgReport'[i] = tgReport[i]
  BY <1>1, <1>2, <1>3, ReportKept
<1>5. RowFits(tgRun, tgItem) /\ AttemptFits(tgRun, tgItem) /\ PushOfItemFits(tgRun, tgItem)
  BY DEF TriageInv, ItemFits
<1>6. RowFits(tgRun, tgItem)'
  BY <1>1, <1>3, <1>4, <1>5, TriageFacts DEF RowFits
<1>7. AttemptFits(tgRun, tgItem)'
  BY <1>3, <1>5 DEF AttemptFits, PushBuilding, PushSending, PlanFits
<1>8. PushOfItemFits(tgRun, tgItem)'
  <2>1. Pushed(tgItem.n)' <=> Pushed(tgItem.n)
    BY DEF Pushed
  <2>2. tgItem' = tgItem /\ tgIntent' = tgIntent /\ tgPush' = tgPush /\ tgRun'.at = "finish"
    BY <1>3
  <2>3. tgItem.died \/ Pushed(tgItem.n) => PushStarted(tgIntent[tgItem.n])
    BY <1>1, <1>5 DEF PushOfItemFits
  <2>4. ~tgItem.died /\ Pushed(tgItem.n) =>
          tgItem.status = "cancelled" \/ tgPush[tgItem.n].outcome \in {"pushed", "closed"}
    BY <1>1, <1>5 DEF PushOfItemFits
  <2>5. (~tgItem.died /\ tgReport[tgItem.n].outcome = "not-needed" => ~Pushed(tgItem.n))'
    BY <1>4, <2>1, <2>2
  <2>6. (tgItem.died \/ Pushed(tgItem.n) => PushStarted(tgIntent[tgItem.n]) /\ tgRun.at \notin PushSending)'
    BY <2>1, <2>2, <2>3 DEF PushSending, PushStarted
  <2>7. (~tgItem.died /\ Pushed(tgItem.n) =>
           \/ tgRun.at = "recheck" \/ tgItem.status = "cancelled"
           \/ tgPush[tgItem.n].outcome \in {"pushed", "closed"})'
    BY <2>1, <2>2, <2>4
  <2> QED
    BY <2>5, <2>6, <2>7 DEF PushOfItemFits
<1>9. ApprovalFits(tgRun, tgItem)'
  BY <1>3 DEF ApprovalFits, PushBuilding
<1> QED
  BY <1>4, <1>6, <1>7, <1>8, <1>9 DEF TriageInv, ItemFits

LEMMA PreviewStep ==
  ASSUME TriageInv, publishTriagePreview
  PROVE  TriageInv'
<1> PICK report : report = [outcome |-> "preview", listed |-> {}]
  OBVIOUS
<1> PICK plan : plan = tgRun.plan
  OBVIOUS
<1> PICK preview : preview = [head |-> plan.base, verdicts |-> plan.verdicts, hunks |-> plan.fixes]
  OBVIOUS
<1>1. /\ tgRun.at = "preview" /\ tgItem.n \in TriageItems /\ plan \in TriagePlans
  BY TriageFacts DEF publishTriagePreview, TriageAt
<1>2. tgRun.todo = {} /\ tgReport[tgItem.n] = NoReport
  BY <1>1 DEF TriageInv, ItemFits, AttemptFits, PushBuilding
<1>3. plan.base \in Nat /\ plan.verdicts \in TriageMaps /\ plan.fixes \in SUBSET TriageThreads
  BY <1>1 DEF TriagePlans
<1>4. preview \in TriagePreviews
  BY <1>3 DEF TriagePreviews
<1>5. report \in TriageReports /\ report.outcome = "preview" /\ report.listed = {} /\ report # NoReport
  <2>1. report.outcome = "preview" /\ NoReport.outcome = "none"
    BY DEF NoReport
  <2>2. report \in TriageReports
    BY DEF TriageReports
  <2> QED
    BY <2>1, <2>2
<1>6. tgReport' = [tgReport EXCEPT ![tgItem.n] = report]
  <2>1. [NoReport EXCEPT !.outcome = "preview"] = report
    BY DEF NoReport
  <2> QED
    BY <2>1 DEF publishTriagePreview
<1>7. tgPreview' = [tgPreview EXCEPT ![tgItem.n] = preview]
  BY DEF publishTriagePreview
<1> PICK unreported \in 0 .. MaxTriageItems : tgUnreported' = unreported
  BY DEF TriageInv, TriageTyped, publishTriagePreview
<1>8. TriageGoes("finish") /\ UNCHANGED <<tgPr, tgBranch, tgThread, tgItem, tgIntent, tgPush>>
  BY DEF publishTriagePreview
<1> QED
  BY <1>1, <1>2, <1>4, <1>5, <1>6, <1>7, <1>8, ReportStep

LEMMA UpsertReportStep ==
  ASSUME TriageInv, upsertTriageReport
  PROVE  TriageInv'
<1>1. /\ tgRun.at \in {"report_only", "threads"} /\ (tgRun.at = "threads" => tgRun.todo = {})
      /\ tgItem.n \in TriageItems /\ tgRun \in TriageRuns /\ tgRun.plan \in TriagePlans
  BY TriageFacts DEF upsertTriageReport, TriageAt
<1>2. AttemptFits(tgRun, tgItem)
  BY DEF TriageInv, ItemFits
<1>3. tgRun.todo = {}
  BY <1>1, <1>2 DEF AttemptFits, PushBuilding
<1>4. /\ TriageGoes("finish") /\ tgUnreported' = 0
      /\ UNCHANGED <<tgPr, tgBranch, tgThread, tgItem, tgIntent, tgPush, tgPreview>>
  BY DEF upsertTriageReport
<1> PICK unreported \in 0 .. MaxTriageItems : unreported = 0
  BY TriageFacts
<1>5. CASE tgRun.at = "report_only"
  <2> PICK report : report = [outcome |-> "notice", listed |-> {}]
    OBVIOUS
  <2>1. report \in TriageReports /\ report.outcome = "notice" /\ report.listed = {} /\ report # NoReport
    <3>1. report.outcome = "notice" /\ NoReport.outcome = "none"
      BY DEF NoReport
    <3>2. report \in TriageReports
      BY DEF TriageReports
    <3> QED
      BY <3>1, <3>2
  <2>2. tgReport' = [tgReport EXCEPT ![tgItem.n] = report]
    <3>1. reportOnlyBody = report
      BY DEF reportOnlyBody, NoReport
    <3> QED
      BY <1>5, <3>1 DEF upsertTriageReport, TriageAt
  <2>3. /\ \A plan \in report.listed : OnBranch(plan)
        /\ report.outcome # "stale" /\ report.outcome # "not-needed"
    BY <2>1
  <2>4. UNCHANGED tgPreview /\ tgUnreported' = unreported
    BY <1>4
  <2> QED
    BY <1>3, <1>4, <1>5, <2>1, <2>2, <2>3, <2>4, ReportStep
<1>6. CASE tgRun.at = "threads"
  <2> PICK plan : plan = tgRun.plan
    OBVIOUS
  <2> PICK outcome : outcome = tgRun.outcome
    OBVIOUS
  <2> PICK report : report = [outcome |-> outcome, listed |-> IF outcome = "pushed" THEN {plan} ELSE {}]
    OBVIOUS
  <2>1. outcome \in PushOutcomes /\ plan \in TriagePlans
    BY <1>1 DEF TriageRuns
  <2>2. report \in TriageReports
    BY <2>1 DEF TriageReports
  <2>3. report.outcome = outcome /\ \A p \in report.listed : outcome = "pushed" /\ p = plan
    OBVIOUS
  <2>4. /\ outcome = "pushed" => OnBranch(plan)
        /\ outcome = "stale" \/ (outcome = "not-needed" /\ ~tgItem.died) => ~Pushed(tgItem.n)
        /\ tgReport[tgItem.n] = NoReport
    BY <1>1, <1>2, <1>6 DEF AttemptFits
  <2>5. \A p \in report.listed : OnBranch(p)
    BY <2>3, <2>4
  <2>6. tgPreview[tgItem.n] = NoPreview
    BY <1>1, <2>4, RecordTyped
  <2>7. tgReport' = [tgReport EXCEPT ![tgItem.n] = report]
    BY <1>6 DEF upsertTriageReport, TriageAt, renderTriageReport
  <2> QED
    BY <1>3, <1>4, <1>6, <2>2, <2>3, <2>4, <2>5, <2>6, <2>7, ReportStep
<1> QED
  BY <1>1, <1>5, <1>6

(* The push *)

LEMMA RecordedKept ==
  ASSUME TriageInv, tgItem.n \in TriageItems, NEW outcome \in PushOutcomes, Recorded(outcome),
         outcome = "pushed" => OnBranch(tgRun.plan), UNCHANGED tgBranch
  PROVE  /\ tgPush' \in [TriageItems -> PushRecords] /\ PushesFit' /\ tgPush'[tgItem.n].outcome = outcome
         /\ tgUnreported' \in 0 .. MaxTriageItems
         /\ tgRun' \in TriageRuns /\ tgRun'.at = "threads" /\ tgRun'.outcome = outcome
         /\ tgRun'.plan = tgRun.plan /\ tgRun'.todo = tgRun.todo
<1> PICK plan : plan = tgRun.plan
  OBVIOUS
<1> PICK record : record = [outcome |-> outcome, plan |-> plan]
  OBVIOUS
<1>1. plan \in TriagePlans /\ PlanFits(plan) /\ (outcome = "pushed" => OnBranch(plan))
  BY TriageFacts DEF TriageInv, ItemFits, AttemptFits
<1>2. record \in PushRecords /\ record.outcome = outcome /\ record.plan = plan
  BY <1>1 DEF PushRecords
<1>3. tgPush \in [TriageItems -> PushRecords] /\ tgPush' = [tgPush EXCEPT ![tgItem.n] = record]
      /\ tgUnreported' = tgItem.n
  BY DEF TriageInv, TriageTyped, Recorded, storedTriagePushRecord
<1>4. /\ tgPush' \in [TriageItems -> PushRecords] /\ tgPush'[tgItem.n] = record
      /\ \A i \in TriageItems : i # tgItem.n => tgPush'[i] = tgPush[i]
  BY <1>2, <1>3
<1>5. PushesFit'
  <2>1. ASSUME NEW i \in TriageItems
        PROVE  (PlanFits(tgPush[i].plan) /\ (tgPush[i].outcome = "pushed" => OnBranch(tgPush[i].plan)))'
    <3> PICK now : now = tgPush'[i]
      OBVIOUS
    <3>1. PlanFits(now.plan) /\ (now.outcome = "pushed" => OnBranch(now.plan))
      <4>1. CASE i = tgItem.n
        BY <1>1, <1>2, <1>4, <4>1
      <4>2. CASE i # tgItem.n
        BY <1>4, <4>2, RecordTyped
      <4> QED
        BY <4>1, <4>2
    <3> QED
      BY <3>1 DEF PlanFits, OnBranch
  <2> QED
    BY <2>1 DEF PushesFit
<1>6. tgUnreported' \in 0 .. MaxTriageItems
  BY <1>3, TriageFacts
<1>7. tgRun \in TriageRuns /\ tgRun' = [tgRun EXCEPT !.at = "threads", !.outcome = outcome]
  BY TriageFacts DEF Recorded
<1>8. tgRun' \in TriageRuns /\ tgRun'.at = "threads" /\ tgRun'.outcome = outcome
      /\ tgRun'.plan = tgRun.plan /\ tgRun'.todo = tgRun.todo
  BY <1>7 DEF TriageRuns, TriagePlaces
<1> QED
  BY <1>2, <1>4, <1>5, <1>6, <1>8

LEMMA RecordStep ==
  ASSUME TriageInv, tgRun.at \in {"arm", "pushing", "push_closed", "recheck"},
         NEW outcome \in {"not-needed", "stale", "closed", "pushed"}, Recorded(outcome),
         outcome = "pushed" => tgRun.at = "recheck",
         tgRun.at = "recheck" => outcome \in {"pushed", "closed"},
         tgIntent' \in [TriageItems -> PushIntents], IntentsFit',
         \A i \in TriageItems : i # tgItem.n => tgIntent'[i] = tgIntent[i],
         tgItem.died \/ Pushed(tgItem.n) => PushStarted(tgIntent'[tgItem.n]),
         UNCHANGED <<tgPr, tgBranch, tgThread, tgItem, tgPreview, tgReport>>
  PROVE  TriageInv'
<1>1. tgItem.n \in TriageItems /\ tgItem.status = "running" /\ outcome \in PushOutcomes
  BY TriageFacts DEF PushOutcomes
<1>2. RowFits(tgRun, tgItem) /\ AttemptFits(tgRun, tgItem) /\ PushOfItemFits(tgRun, tgItem)
  BY DEF TriageInv, ItemFits
<1>3. /\ outcome = "pushed" => OnBranch(tgRun.plan)
      /\ tgRun.at # "recheck" => ~Pushed(tgItem.n)
      /\ tgReport[tgItem.n] = NoReport
  BY <1>1, <1>2 DEF AttemptFits, PushBuilding
<1>4. /\ tgPush' \in [TriageItems -> PushRecords] /\ PushesFit' /\ tgPush'[tgItem.n].outcome = outcome
      /\ tgUnreported' \in 0 .. MaxTriageItems
      /\ tgRun' \in TriageRuns /\ tgRun'.at = "threads" /\ tgRun'.outcome = outcome
      /\ tgRun'.plan = tgRun.plan /\ tgRun'.todo = tgRun.todo
  BY <1>1, <1>3, RecordedKept
<1>5. TriageTyped'
  BY <1>4 DEF TriageInv, TriageTyped
<1>6. StoreFits'
  <2>1. ThreadsFit'
    BY ThreadsFitNext DEF TriageInv, StoreFits
  <2>2. ReportsFit' /\ BranchFits'
    BY DEF TriageInv, StoreFits, ReportsFit, BranchFits, OnBranch, Pushed, Approved, Approves
  <2> QED
    BY <1>4, <2>1, <2>2 DEF StoreFits
<1>7. RowFits(tgRun, tgItem)'
  BY <1>1, <1>2, <1>4, TriageFacts DEF RowFits
<1>8. Pushed(tgItem.n)' <=> Pushed(tgItem.n)
  BY DEF Pushed
<1>9. AttemptFits(tgRun, tgItem)'
  <2>1. (tgRun.todo \subseteq DOMAIN tgRun.plan.verdicts /\ PlanFits(tgRun.plan))'
    BY <1>2, <1>4 DEF AttemptFits, PlanFits
  <2>2. (tgRun.outcome = "pushed" => OnBranch(tgRun.plan))'
    BY <1>3, <1>4 DEF OnBranch
  <2>3. (tgRun.outcome = "stale" \/ (tgRun.outcome = "not-needed" /\ ~tgItem.died) => ~Pushed(tgItem.n))'
    BY <1>3, <1>4, <1>8
  <2>4. (tgReport[tgItem.n] = NoReport)' /\ tgRun'.at = "threads"
    BY <1>3, <1>4
  <2> QED
    BY <2>1, <2>2, <2>3, <2>4 DEF AttemptFits, PushBuilding, PushSending
<1>10. PushOfItemFits(tgRun, tgItem)'
  <2>1. (tgItem.died \/ Pushed(tgItem.n) => PushStarted(tgIntent[tgItem.n]) /\ tgRun.at \notin PushSending)'
    BY <1>4, <1>8 DEF PushSending, PushStarted
  <2>2. (~tgItem.died /\ Pushed(tgItem.n) =>
           \/ tgRun.at = "recheck" \/ tgItem.status = "cancelled"
           \/ tgPush[tgItem.n].outcome \in {"pushed", "closed"})'
    BY <1>3, <1>4, <1>8
  <2>3. (~tgItem.died /\ tgReport[tgItem.n].outcome = "not-needed" => ~Pushed(tgItem.n))'
    BY <1>1, <1>2, <1>8 DEF PushOfItemFits
  <2> QED
    BY <2>1, <2>2, <2>3 DEF PushOfItemFits
<1>11. ApprovalFits(tgRun, tgItem)'
  BY <1>4 DEF ApprovalFits, PushBuilding
<1> QED
  BY <1>5, <1>6, <1>7, <1>9, <1>10, <1>11 DEF TriageInv, ItemFits

LEMMA PushClosedStep ==
  ASSUME TriageInv, pushClosed
  PROVE  TriageInv'
<1>1. tgRun.at = "push_closed" /\ tgItem.n \in TriageItems
  BY TriageFacts DEF pushClosed, TriageAt
<1> PICK state : state = "unknown"
  OBVIOUS
<1>2. IntentBecomes(state) /\ Recorded("closed")
      /\ UNCHANGED <<tgPr, tgBranch, tgThread, tgItem, tgPreview, tgReport>>
  BY DEF pushClosed
<1>3. PICK row \in PushIntents :
        /\ tgIntent' = [tgIntent EXCEPT ![tgItem.n] = row] /\ row.state = state
        /\ row.plan = tgIntent[tgItem.n].plan /\ PlanFits(row.plan)
  BY <1>1, <1>2, IntentRowTyped
<1>4. /\ tgIntent' \in [TriageItems -> PushIntents] /\ IntentsFit' /\ tgIntent'[tgItem.n] = row
      /\ \A i \in TriageItems : i # tgItem.n => tgIntent'[i] = tgIntent[i]
  BY <1>1, <1>2, <1>3, IntentKept
<1>5. PushStarted(tgIntent'[tgItem.n])
  BY <1>3, <1>4 DEF PushStarted
<1> PICK outcome \in {"not-needed", "stale", "closed", "pushed"} : outcome = "closed"
  OBVIOUS
<1> QED
  BY <1>1, <1>2, <1>4, <1>5, RecordStep

LEMMA SameIntent ==
  ASSUME TriageInv, UNCHANGED <<tgIntent, tgBranch>>
  PROVE  /\ tgIntent' \in [TriageItems -> PushIntents] /\ IntentsFit'
         /\ \A i \in TriageItems : i # tgItem.n => tgIntent'[i] = tgIntent[i]
BY DEF TriageInv, TriageTyped, StoreFits, IntentsFit, PlanFits, OnBranch

LEMMA RecheckStep ==
  ASSUME TriageInv, recheckWritable
  PROVE  TriageInv'
<1>1. tgRun.at = "recheck" /\ tgItem.n \in TriageItems /\ tgItem.died \in BOOLEAN
  BY TriageFacts DEF recheckWritable, TriageAt
<1>2. UNCHANGED <<tgPr, tgBranch, tgThread, tgIntent, tgPreview, tgReport>>
  BY DEF recheckWritable
<1>3. CASE TriageActive
  <2> PICK outcome : outcome = IF tgPr.open THEN "pushed" ELSE "closed"
    OBVIOUS
  <2>1. outcome \in {"pushed", "closed"} /\ Recorded(outcome) /\ UNCHANGED tgItem
    BY <1>3 DEF recheckWritable
  <2>2. PushStarted(tgIntent'[tgItem.n])
    BY <1>1, <1>2 DEF TriageInv, ItemFits, AttemptFits
  <2>3. /\ tgIntent' \in [TriageItems -> PushIntents] /\ IntentsFit'
        /\ \A i \in TriageItems : i # tgItem.n => tgIntent'[i] = tgIntent[i]
    BY <1>2, SameIntent
  <2> QED
    BY <1>1, <1>2, <2>1, <2>2, <2>3, RecordStep
<1>4. CASE ~TriageActive
  <2> PICK status : status = ThrownStatus
    OBVIOUS
  <2> PICK died : died = tgItem.died
    OBVIOUS
  <2>1. status = "cancelled" /\ died \in BOOLEAN
    BY <1>1, <1>4, ThrownStatusFacts DEF TriageActive
  <2>2. tgRun' = TriageIdle /\ tgItem' = EndedRow(status, died) /\ UNCHANGED <<tgPush, tgUnreported>>
    BY <1>4, SameDied DEF recheckWritable, TriageThrown
  <2> QED
    BY <1>1, <1>2, <2>1, <2>2, EndStep
<1> QED
  BY <1>3, <1>4

LEMMA SendingStep ==
  ASSUME TriageInv, tgRun.at \in {"arm", "start_push"}, ~PushStarted(tgIntent[tgItem.n]),
         NEW at \in PushSending, TriageGoes(at),
         NEW row \in PushIntents, tgIntent' = [tgIntent EXCEPT ![tgItem.n] = row],
         row.plan = tgRun.plan, row.state = IF at = "start_push" THEN "armed" ELSE "mutating",
         UNCHANGED <<tgPr, tgBranch, tgThread, tgItem, tgPush, tgUnreported, tgPreview, tgReport>>
  PROVE  TriageInv'
<1> PICK run : run = [tgRun EXCEPT !.at = at]
  OBVIOUS
<1> PICK item : item = tgItem
  OBVIOUS
<1>1. tgItem.n \in TriageItems /\ tgRun \in TriageRuns /\ item \in TriageRows /\ tgItem.status = "running"
  BY TriageFacts
<1>2. RowFits(tgRun, tgItem) /\ AttemptFits(tgRun, tgItem) /\ PushOfItemFits(tgRun, tgItem)
      /\ ApprovalFits(tgRun, tgItem)
  BY DEF TriageInv, ItemFits
<1>3. run \in TriageRuns
  <2>1. at \in TriagePlaces
    BY DEF PushSending, TriagePlaces
  <2> QED
    BY <1>1, <2>1 DEF TriageRuns
<1>4. run.at = at /\ run.plan = tgRun.plan /\ run.todo = tgRun.todo /\ tgRun' = run
  BY <1>1 DEF TriageRuns, TriageGoes
<1>5. /\ tgIntent' \in [TriageItems -> PushIntents] /\ IntentsFit' /\ tgIntent'[tgItem.n] = row
      /\ \A i \in TriageItems : i # tgItem.n => tgIntent'[i] = tgIntent[i]
  <2>1. PlanFits(row.plan)
    BY <1>2 DEF AttemptFits
  <2>2. row.state # "reconciled"
    OBVIOUS
  <2> QED
    BY <1>1, <2>1, <2>2, IntentKept
<1>6. TriageTyped'
  BY <1>1, <1>3, <1>4, <1>5, TypedWithIntent
<1>7. StoreFits'
  BY <1>5, StoreWithIntent DEF TriageInv
<1>8. ~tgItem.died /\ ~Pushed(tgItem.n) /\ tgReport[tgItem.n] = NoReport
  BY <1>1, <1>2 DEF PushOfItemFits, AttemptFits, PushBuilding
<1>9. ~Pushed(tgItem.n)'
  BY <1>8 DEF Pushed
<1>10. RowFits(tgRun, tgItem)'
  <2>1. at # "idle"
    BY DEF PushSending
  <2> QED
    BY <1>1, <1>2, <1>4, <1>5, <2>1, TriageFacts DEF RowFits
<1>11. AttemptFits(tgRun, tgItem)'
  <2>1. (tgRun.todo \subseteq DOMAIN tgRun.plan.verdicts /\ PlanFits(tgRun.plan))'
    BY <1>2, <1>4 DEF AttemptFits, PlanFits
  <2>2. (tgRun.plan.item = tgItem.n /\ tgRun.plan.base = tgItem.head /\ tgRun.plan.try = tgItem.tries)'
    BY <1>2, <1>4 DEF AttemptFits, PushBuilding
  <2>3. tgRun'.at \in {"start_push", "pushing", "push_closed"} /\ (tgReport[tgItem.n] = NoReport)'
        /\ (tgIntent[tgItem.n] = row)'
    BY <1>4, <1>5, <1>8 DEF PushSending
  <2>4. (tgRun.at = "start_push" => tgIntent[tgItem.n].state = "armed")'
    BY <1>4, <2>3
  <2>5. (tgRun.at \in {"pushing", "push_closed"} => tgIntent[tgItem.n].state = "mutating")'
    BY <1>4, <2>3
  <2>6. (tgIntent[tgItem.n].plan = tgRun.plan)'
    BY <1>4, <2>3
  <2> QED
    BY <1>9, <2>1, <2>2, <2>3, <2>4, <2>5, <2>6 DEF AttemptFits, PushBuilding, PushSending
<1>12. PushOfItemFits(tgRun, tgItem)'
  <2>1. tgItem' = tgItem
    OBVIOUS
  <2> QED
    BY <1>8, <1>9, <2>1 DEF PushOfItemFits
<1>13. ApprovalFits(tgRun, tgItem)'
  <2>1. tgRun.at \in PushBuilding /\ tgRun'.at \in PushSending /\ tgRun'.plan = tgRun.plan /\ tgItem' = tgItem
    BY <1>4 DEF PushBuilding
  <2> QED
    BY <1>2, <2>1 DEF ApprovalFits, PushBuilding, PushSending, Approved, Approves
<1> QED
  BY <1>6, <1>7, <1>10, <1>11, <1>12, <1>13 DEF TriageInv, ItemFits

LEMMA ArmStep ==
  ASSUME TriageInv, armPush
  PROVE  TriageInv'
<1>1. tgRun.at = "arm" /\ tgItem.n \in TriageItems /\ tgRun.plan \in TriagePlans
  BY TriageFacts DEF armPush, TriageAt
<1>2. UNCHANGED <<tgPr, tgBranch, tgThread, tgPreview, tgReport>>
  BY DEF armPush
<1>3. AttemptFits(tgRun, tgItem) /\ PushOfItemFits(tgRun, tgItem)
  BY DEF TriageInv, ItemFits
<1>4. CASE Recorded("not-needed") /\ UNCHANGED <<tgItem, tgIntent>>
  <2>1. tgItem.died \/ Pushed(tgItem.n) => PushStarted(tgIntent'[tgItem.n])
    BY <1>1, <1>3, <1>4 DEF PushOfItemFits
  <2>2. /\ tgIntent' \in [TriageItems -> PushIntents] /\ IntentsFit'
        /\ \A i \in TriageItems : i # tgItem.n => tgIntent'[i] = tgIntent[i]
    BY <1>2, <1>4, SameIntent
  <2> PICK outcome \in {"not-needed", "stale", "closed", "pushed"} : outcome = "not-needed"
    OBVIOUS
  <2> QED
    BY <1>1, <1>2, <1>4, <2>1, <2>2, RecordStep
<1>5. CASE failClosed /\ UNCHANGED <<tgPush, tgUnreported>>
  BY <1>1, <1>2, <1>5, FailClosedStep
<1>6. CASE /\ ~PushStarted(tgIntent[tgItem.n])
           /\ tgIntent' = [tgIntent EXCEPT ![tgItem.n] = [state |-> "armed", plan |-> tgRun.plan]]
           /\ TriageGoes("start_push") /\ UNCHANGED <<tgItem, tgPush, tgUnreported>>
  <2> PICK plan : plan = tgRun.plan
    OBVIOUS
  <2> PICK row : row = [state |-> "armed", plan |-> plan]
    OBVIOUS
  <2> PICK at : at = "start_push"
    OBVIOUS
  <2>1. row \in PushIntents /\ row.plan = tgRun.plan /\ row.state = "armed" /\ at \in PushSending
    BY <1>1 DEF PushIntents, PushSending
  <2>2. tgIntent' = [tgIntent EXCEPT ![tgItem.n] = row] /\ TriageGoes(at)
    BY <1>6
  <2> QED
    BY <1>1, <1>2, <1>6, <2>1, <2>2, SendingStep
<1> QED
  BY <1>4, <1>5, <1>6 DEF armPush

LEMMA StartPushStep ==
  ASSUME TriageInv, startPush
  PROVE  TriageInv'
<1> PICK state : state = "mutating"
  OBVIOUS
<1>1. tgRun.at = "start_push" /\ tgItem.n \in TriageItems /\ tgRun.plan \in TriagePlans
  BY TriageFacts DEF startPush, TriageAt
<1>2. AttemptFits(tgRun, tgItem) /\ PushOfItemFits(tgRun, tgItem) /\ RowFits(tgRun, tgItem)
  BY DEF TriageInv, ItemFits
<1>3. tgIntent[tgItem.n].state = "armed" /\ tgIntent[tgItem.n].plan = tgRun.plan
      /\ ~PushStarted(tgIntent[tgItem.n])
  BY <1>1, <1>2 DEF AttemptFits, PushSending, PushStarted
<1>4. IntentBecomes(state)
      /\ UNCHANGED <<tgPr, tgBranch, tgThread, tgPush, tgUnreported, tgPreview, tgReport>>
  BY DEF startPush, MarkMutating
<1>5. PICK row \in PushIntents :
        /\ tgIntent' = [tgIntent EXCEPT ![tgItem.n] = row] /\ row.state = state
        /\ row.plan = tgIntent[tgItem.n].plan /\ PlanFits(row.plan)
  BY <1>1, <1>4, IntentRowTyped
<1>6. CASE TriageActive
  <2> PICK at : at = IF tgPr.open THEN "pushing" ELSE "push_closed"
    OBVIOUS
  <2>1. at \in PushSending /\ at # "start_push" /\ TriageGoes(at) /\ UNCHANGED tgItem
    BY <1>6 DEF startPush, PushSending
  <2>2. row.state = IF at = "start_push" THEN "armed" ELSE "mutating"
    BY <1>5, <2>1
  <2> QED
    BY <1>1, <1>3, <1>4, <1>5, <2>1, <2>2, SendingStep
<1>7. CASE ~TriageActive
  <2> PICK item : item = EndedRow("cancelled", tgItem.died)
    OBVIOUS
  <2> PICK idle : idle = TriageIdle
    OBVIOUS
  <2>1. ThrownStatus = "cancelled" /\ tgItem.died \in BOOLEAN
    BY <1>7, ThrownStatusFacts, TriageFacts DEF TriageActive
  <2>2. /\ item \in TriageRows /\ item.n = tgItem.n /\ item.head = tgItem.head
        /\ item.tries = tgItem.tries /\ item.status = "cancelled" /\ item.died = tgItem.died
    BY <2>1, EndedRowFacts
  <2>3. tgRun' = idle /\ tgItem' = item /\ idle \in TriageRuns /\ idle.at = "idle" /\ idle.todo = {}
        /\ PlanFits(idle.plan)
    BY <1>7, <2>1, SameDied, IdleFacts, NoPlanTyped DEF startPush, TriageThrown
  <2>4. /\ tgIntent' \in [TriageItems -> PushIntents] /\ IntentsFit' /\ tgIntent'[tgItem.n] = row
        /\ \A i \in TriageItems : i # tgItem.n => tgIntent'[i] = tgIntent[i]
    BY <1>1, <1>4, <1>5, IntentKept
  <2>5. TriageTyped'
    BY <1>4, <2>2, <2>3, <2>4, TypedWithIntent
  <2>6. StoreFits'
    BY <1>4, <2>4, StoreWithIntent DEF TriageInv
  <2>7. ~tgItem.died /\ ~Pushed(tgItem.n)
    BY <1>1, <1>2 DEF PushOfItemFits, PushSending
  <2>8. ~Pushed(tgItem.n)' /\ ~tgItem'.died
    BY <1>4, <2>2, <2>3, <2>7 DEF Pushed
  <2>9. RowFits(tgRun, tgItem)'
    BY <1>1, <1>2, <1>4, <2>2, <2>3, <2>4, TriageFacts DEF RowFits
  <2>10. AttemptFits(tgRun, tgItem)'
    BY <2>3 DEF AttemptFits, PushBuilding, PushSending, PlanFits
  <2>11. PushOfItemFits(tgRun, tgItem)'
    BY <2>8 DEF PushOfItemFits
  <2>12. ApprovalFits(tgRun, tgItem)'
    BY <2>3 DEF ApprovalFits, PushBuilding
  <2> QED
    BY <2>5, <2>6, <2>9, <2>10, <2>11, <2>12 DEF TriageInv, ItemFits
<1> QED
  BY <1>6, <1>7

(* The branch grows *)

LEMMA BranchKept ==
  ASSUME TriageInv, NEW new \in TriagePushes, tgBranch' = Append(tgBranch, new)
  PROVE  /\ tgBranch' \in Seq(TriagePushes) /\ tgBranch' # <<>>
         /\ Len(tgBranch) \in Nat \ {0}
         /\ Len(tgBranch) + 1 \in DOMAIN tgBranch' /\ tgBranch'[Len(tgBranch) + 1] = new
         /\ \A k \in DOMAIN tgBranch : k \in DOMAIN tgBranch' /\ tgBranch'[k] = tgBranch[k]
         /\ \A k \in DOMAIN tgBranch' : k \in DOMAIN tgBranch \/ k = Len(tgBranch) + 1
<1>1. tgBranch \in Seq(TriagePushes) /\ tgBranch # <<>>
  BY DEF TriageInv, TriageTyped
<1>2. Len(tgBranch) \in Nat \ {0} /\ DOMAIN tgBranch = 1 .. Len(tgBranch)
  BY <1>1
<1>3. /\ tgBranch' \in Seq(TriagePushes) /\ Len(tgBranch') = Len(tgBranch) + 1
      /\ tgBranch'[Len(tgBranch) + 1] = new
      /\ \A k \in 1 .. Len(tgBranch) : tgBranch'[k] = tgBranch[k]
  BY <1>1
<1>4. DOMAIN tgBranch' = 1 .. Len(tgBranch')
  BY <1>3
<1>5. tgBranch' # <<>>
  BY <1>2, <1>3
<1> QED
  BY <1>2, <1>3, <1>4, <1>5

LEMMA PushedNext ==
  ASSUME TriageInv, NEW new \in TriagePushes, tgBranch' = Append(tgBranch, new), NEW i
  PROVE  Pushed(i)' <=> Pushed(i) \/ i = new.item
BY BranchKept DEF Pushed

\* A new push is within its approval; those who pushed nothing are the others.
LEMMA StoreWithPush ==
  ASSUME TriageInv, NEW new \in TriagePushes, tgBranch' = Append(tgBranch, new),
         new.mode = "bulk" => new.fixes \cap new.excl = {} /\ Approved(new.base, new.fixes),
         new.item \in TriageItems => tgReport[new.item] = NoReport,
         IntentsFit', UNCHANGED <<tgThread, tgPush, tgPreview, tgReport>>
  PROVE  StoreFits'
<1>1. ASSUME NEW plan, OnBranch(plan)
      PROVE  OnBranch(plan)'
  BY <1>1, TriageFacts, OnBranchKept
<1>2. ThreadsFit'
  <2>1. ASSUME NEW t \in TriageThreads
        PROVE  (tgThread[t].fixedBy # NoPlan => OnBranch(tgThread[t].fixedBy) /\ t \in tgThread[t].fixedBy.fixes)'
    <3> PICK plan : plan = tgThread[t].fixedBy
      OBVIOUS
    <3>1. plan # NoPlan => OnBranch(plan) /\ t \in plan.fixes
      BY DEF TriageInv, StoreFits, ThreadsFit
    <3>2. plan # NoPlan => OnBranch(plan)'
      BY <1>1, <3>1
    <3> QED
      BY <3>1, <3>2 DEF OnBranch
  <2> QED
    BY <2>1 DEF ThreadsFit
<1>3. PushesFit'
  <2>1. ASSUME NEW i \in TriageItems
        PROVE  (PlanFits(tgPush[i].plan) /\ (tgPush[i].outcome = "pushed" => OnBranch(tgPush[i].plan)))'
    <3> PICK plan : plan = tgPush[i].plan
      OBVIOUS
    <3>1. PlanFits(plan) /\ (tgPush[i].outcome = "pushed" => OnBranch(plan))
      BY RecordTyped
    <3>2. tgPush[i].outcome = "pushed" => OnBranch(plan)'
      BY <1>1, <3>1
    <3> QED
      BY <3>1, <3>2 DEF OnBranch, PlanFits
  <2> QED
    BY <2>1 DEF PushesFit
<1>4. ReportsFit'
  <2>1. ASSUME NEW i \in TriageItems
        PROVE  (/\ \A plan \in tgReport[i].listed : OnBranch(plan)
                /\ tgReport[i].outcome = "stale" => ~Pushed(i)
                /\ tgPreview[i] # NoPreview => tgReport[i] # NoReport)'
    <3> PICK report : report = tgReport[i]
      OBVIOUS
    <3>1. /\ \A plan \in report.listed : OnBranch(plan)
          /\ report.outcome = "stale" => ~Pushed(i)
          /\ tgPreview[i] # NoPreview => report # NoReport
      BY DEF TriageInv, StoreFits, ReportsFit
    <3>2. \A plan \in report.listed : OnBranch(plan)'
      BY <1>1, <3>1
    <3>3. report.outcome = "stale" => i # new.item
      <4>1. NoReport.outcome = "none"
        BY DEF NoReport
      <4> QED
        BY <4>1
    <3>4. report.outcome = "stale" => ~Pushed(i)'
      BY <3>1, <3>3, PushedNext
    <3> QED
      BY <3>1, <3>2, <3>4 DEF OnBranch, Pushed
  <2> QED
    BY <2>1 DEF ReportsFit
<1>5. BranchFits'
  <2>1. ASSUME NEW k \in DOMAIN tgBranch', tgBranch'[k].mode = "bulk"
        PROVE  /\ tgBranch'[k].fixes \cap tgBranch'[k].excl = {}
               /\ Approved(tgBranch'[k].base, tgBranch'[k].fixes)
    <3>1. CASE k \in DOMAIN tgBranch
      <4>1. tgBranch'[k] = tgBranch[k]
        BY <3>1, BranchKept
      <4> QED
        BY <2>1, <3>1, <4>1 DEF TriageInv, StoreFits, BranchFits
    <3>2. CASE k \notin DOMAIN tgBranch
      <4>1. tgBranch'[k] = new
        BY <2>1, <3>2, BranchKept
      <4> QED
        BY <2>1, <4>1
    <3> QED
      BY <3>1, <3>2
  <2> QED
    BY <2>1 DEF BranchFits, Approved, Approves
<1> QED
  BY <1>2, <1>3, <1>4, <1>5 DEF StoreFits

LEMMA PersonPushesStep ==
  ASSUME TriageInv, PersonPushes
  PROVE  TriageInv'
<1> PICK new : new = PersonPush
  OBVIOUS
<1>1. new \in TriagePushes /\ new.item = 0 /\ new.mode = "person"
  BY DEF PersonPush, TriagePushes
<1>2. /\ tgBranch' = Append(tgBranch, new)
      /\ UNCHANGED <<tgThread, tgItem, tgRun, tgIntent, tgPush, tgUnreported, tgPreview, tgReport>>
  BY DEF PersonPushes
<1>3. 0 \notin TriageItems /\ TriageItems \subseteq Nat
  BY TriageFacts DEF TriageItems
<1>4. ASSUME NEW plan, OnBranch(plan)
      PROVE  OnBranch(plan)'
  BY <1>1, <1>2, <1>4, TriageFacts, OnBranchKept
<1>5. IntentsFit'
  <2>1. ASSUME NEW i \in TriageItems
        PROVE  (PlanFits(tgIntent[i].plan) /\ (tgIntent[i].state = "reconciled" => OnBranch(tgIntent[i].plan)))'
    <3> PICK plan : plan = tgIntent[i].plan
      OBVIOUS
    <3>1. PlanFits(plan) /\ (tgIntent[i].state = "reconciled" => OnBranch(plan))
      BY RecordTyped
    <3>2. tgIntent[i].state = "reconciled" => OnBranch(plan)'
      BY <1>4, <3>1
    <3> QED
      BY <1>2, <3>1, <3>2 DEF OnBranch, PlanFits
  <2> QED
    BY <2>1 DEF IntentsFit
<1>6. StoreFits'
  BY <1>1, <1>2, <1>3, <1>5, StoreWithPush
<1>7. TriageTyped'
  <2>1. tgBranch' \in Seq(TriagePushes) /\ tgBranch' # <<>>
    BY <1>1, <1>2, BranchKept
  <2>2. tgPr' \in TriagePrs
    <3>1. tgPr \in TriagePrs /\ tgPr.moves < MaxTriageMoves /\ MaxTriageMoves \in Nat
      BY TriageAssumption DEF TriageInv, TriageTyped, PersonPushes, PersonMoves
    <3> PICK moves : moves = tgPr.moves + 1
      OBVIOUS
    <3>2. moves \in 0 .. MaxTriageMoves
      BY <3>1 DEF TriagePrs
    <3>3. tgPr' = [tgPr EXCEPT !.moves = moves]
      BY DEF PersonPushes
    <3> QED
      BY <3>1, <3>2, <3>3 DEF TriagePrs
  <2> QED
    BY <1>2, <2>1, <2>2 DEF TriageInv, TriageTyped
<1>8. \A i \in TriageItems : Pushed(i)' <=> Pushed(i)
  BY <1>1, <1>2, <1>3, PushedNext
<1>9. RowFits(tgRun, tgItem) /\ AttemptFits(tgRun, tgItem) /\ PushOfItemFits(tgRun, tgItem)
      /\ ApprovalFits(tgRun, tgItem)
  BY DEF TriageInv, ItemFits
<1>10. tgRun.at # "idle" => tgItem.n \in TriageItems
  BY TriageFacts
<1>11. RowFits(tgRun, tgItem)'
  <2>1. ASSUME NEW k \in DOMAIN tgBranch'
        PROVE  /\ tgBranch'[k].item <= tgItem.n
               /\ tgItem.n \in TriageItems /\ tgBranch'[k].item = tgItem.n => tgItem.head < k /\ tgItem.head # 0
    <3>1. CASE k \in DOMAIN tgBranch
      <4>1. tgBranch'[k] = tgBranch[k]
        BY <1>1, <1>2, <3>1, BranchKept
      <4> QED
        BY <1>9, <3>1, <4>1 DEF RowFits
    <3>2. CASE k \notin DOMAIN tgBranch
      <4>1. tgBranch'[k] = new
        BY <1>1, <1>2, <2>1, <3>2, BranchKept
      <4>2. tgItem.n \in Nat
        BY TriageFacts
      <4> QED
        BY <1>1, <1>3, <4>1, <4>2
    <3> QED
      BY <3>1, <3>2
  <2> QED
    BY <1>2, <1>9, <2>1 DEF RowFits
<1>12. AttemptFits(tgRun, tgItem)'
  <2> PICK plan : plan = tgRun.plan
    OBVIOUS
  <2>1. OnBranch(plan) => OnBranch(plan)'
    BY <1>4
  <2>2. OnBranch(plan)' <=> OnBranch(tgRun.plan)'
    BY <1>2 DEF OnBranch
  <2>3. tgRun.at \in PushBuilding \cup {"recheck", "threads"} => tgItem.n \in TriageItems
    BY <1>10 DEF PushBuilding
  <2>4. tgItem.n \in TriageItems => (Pushed(tgItem.n)' <=> Pushed(tgItem.n))
    <3>1. tgItem' = tgItem
      BY <1>2
    <3>2. PICK n : n = tgItem.n
      OBVIOUS
    <3>3. n \in TriageItems => (Pushed(n)' <=> Pushed(n))
      BY <1>8
    <3> QED
      BY <3>1, <3>2, <3>3 DEF Pushed
  <2> QED
    BY <1>2, <1>9, <2>1, <2>2, <2>3, <2>4 DEF AttemptFits, PushStarted, PlanFits, PushBuilding, PushSending
<1>13. PushOfItemFits(tgRun, tgItem)'
  <2>1. tgItem' = tgItem
    BY <1>2
  <2>2. PICK n : n = tgItem.n
    OBVIOUS
  <2>3. n \in TriageItems => (Pushed(n)' <=> Pushed(n))
    BY <1>8
  <2>4. tgItem.n \in TriageItems => (Pushed(tgItem.n)' <=> Pushed(tgItem.n))
    BY <2>1, <2>2, <2>3 DEF Pushed
  <2> QED
    BY <1>2, <1>9, <2>4 DEF PushOfItemFits, PushStarted
<1>14. ApprovalFits(tgRun, tgItem)'
  BY <1>2, <1>9 DEF ApprovalFits, Approved, Approves, latestPreview
<1> QED
  BY <1>6, <1>7, <1>11, <1>12, <1>13, <1>14 DEF TriageInv, ItemFits

(* git push *)

LEMMA LandedFacts ==
  ASSUME TriageInv, tgRun.at = "pushing", LiveHead = tgRun.plan.base, GitPushes
  PROVE  \E new \in TriagePushes :
           /\ tgBranch' = Append(tgBranch, new) /\ new.item = tgItem.n
           /\ new.mode = "bulk" => new.fixes \cap new.excl = {} /\ Approved(new.base, new.fixes)
           /\ \A plan : plan = tgRun.plan => OnBranch(plan)'
           /\ tgItem.head = Len(tgBranch) /\ tgReport[tgItem.n] = NoReport
<1> PICK plan : plan = tgRun.plan
  OBVIOUS
<1> PICK mode : mode = tgItem.mode
  OBVIOUS
<1> PICK excl : excl = tgItem.excl
  OBVIOUS
<1> PICK new : new = [item |-> plan.item, try |-> plan.try, base |-> plan.base, fixes |-> plan.fixes,
                      mode |-> mode, excl |-> excl]
  OBVIOUS
<1>1. plan \in TriagePlans /\ tgItem.n \in TriageItems
  BY TriageFacts
<1>2. mode \in {"preview", "apply", "bulk"} /\ excl \in SUBSET TriageThreads
  <2>1. tgItem \in TriageRows
    BY TriageFacts
  <2> QED
    BY <2>1 DEF TriageRows
<1>3. new \in TriagePushes
  BY <1>1, <1>2 DEF TriagePushes, TriagePlans
<1>4. tgBranch' = Append(tgBranch, new)
  BY DEF GitPushes, PushOf
<1>5. plan.item = tgItem.n /\ plan.base = tgItem.head /\ tgReport[tgItem.n] = NoReport
  BY <1>1 DEF TriageInv, ItemFits, AttemptFits, PushBuilding
<1>6. mode = "bulk" => plan.fixes \cap excl = {} /\ Approved(plan.base, plan.fixes)
  BY DEF TriageInv, ItemFits, ApprovalFits, PushBuilding
<1>7. plan.base = Len(tgBranch)
  BY DEF LiveHead
<1>8. \A p : p = tgRun.plan => OnBranch(p)'
  <2>1. plan.base + 1 \in DOMAIN tgBranch' /\ tgBranch'[plan.base + 1] = new
    BY <1>3, <1>4, <1>7, BranchKept
  <2> QED
    BY <2>1 DEF OnBranch
<1>9. new.item = tgItem.n /\ new.mode = mode /\ new.fixes = plan.fixes /\ new.excl = excl /\ new.base = plan.base
  BY <1>5
<1> QED
  BY <1>3, <1>4, <1>5, <1>6, <1>7, <1>8, <1>9

\* What the landing leaves of the promises about the item's row.
LEMMA LandedRow ==
  ASSUME TriageInv, tgItem.n \in TriageItems, NEW new \in TriagePushes, new.item = tgItem.n,
         tgBranch' = Append(tgBranch, new), tgItem.head = Len(tgBranch)
  PROVE  \A k \in DOMAIN tgBranch' :
           /\ tgBranch'[k].item <= tgItem.n
           /\ tgBranch'[k].item = tgItem.n => tgItem.head < k /\ tgItem.head # 0
<1>1. RowFits(tgRun, tgItem)
  BY DEF TriageInv, ItemFits
<1> SUFFICES ASSUME NEW k \in DOMAIN tgBranch'
             PROVE  /\ tgBranch'[k].item <= tgItem.n
                    /\ tgBranch'[k].item = tgItem.n => tgItem.head < k /\ tgItem.head # 0
  OBVIOUS
<1>2. CASE k \in DOMAIN tgBranch
  <2>1. tgBranch'[k] = tgBranch[k]
    BY <1>2, BranchKept
  <2> QED
    BY <1>1, <1>2, <2>1 DEF RowFits
<1>3. CASE k \notin DOMAIN tgBranch
  <2>1. tgBranch'[k] = new /\ k = Len(tgBranch) + 1 /\ Len(tgBranch) \in Nat \ {0}
    BY <1>3, BranchKept
  <2>2. tgItem.n \in Nat
    BY TriageFacts
  <2> QED
    BY <2>1, <2>2
<1> QED
  BY <1>2, <1>3

LEMMA PushLandsStep ==
  ASSUME TriageInv, tgRun.at = "pushing", LiveHead = tgRun.plan.base, GitPushes, TriageGoes("recheck"),
         IntentBecomes("reconciled"),
         UNCHANGED <<tgPr, tgThread, tgItem, tgPush, tgUnreported, tgPreview, tgReport>>
  PROVE  TriageInv'
<1> PICK plan : plan = tgRun.plan
  OBVIOUS
<1> PICK state : state = "reconciled"
  OBVIOUS
<1> PICK run : run = [tgRun EXCEPT !.at = "recheck"]
  OBVIOUS
<1>1. /\ tgItem.n \in TriageItems /\ tgRun \in TriageRuns /\ tgItem \in TriageRows /\ tgItem.status = "running"
      /\ plan \in TriagePlans
  BY TriageFacts
<1>2. PICK new \in TriagePushes :
        /\ tgBranch' = Append(tgBranch, new) /\ new.item = tgItem.n
        /\ new.mode = "bulk" => new.fixes \cap new.excl = {} /\ Approved(new.base, new.fixes)
        /\ OnBranch(plan)'
        /\ tgItem.head = Len(tgBranch) /\ tgReport[tgItem.n] = NoReport
  BY LandedFacts
<1>3. RowFits(tgRun, tgItem) /\ AttemptFits(tgRun, tgItem) /\ PushOfItemFits(tgRun, tgItem)
  BY DEF TriageInv, ItemFits
<1>4. PICK row \in PushIntents :
        /\ tgIntent' = [tgIntent EXCEPT ![tgItem.n] = row] /\ row.state = state
        /\ row.plan = tgIntent[tgItem.n].plan /\ PlanFits(row.plan)
  BY <1>1, IntentRowTyped
<1>5. row.plan = plan
  BY <1>3, <1>4 DEF AttemptFits, PushSending
<1>6. /\ tgIntent' \in [TriageItems -> PushIntents] /\ IntentsFit' /\ tgIntent'[tgItem.n] = row
      /\ \A i \in TriageItems : i # tgItem.n => tgIntent'[i] = tgIntent[i]
  <2>1. OnBranch(row.plan)'
    BY <1>2, <1>5 DEF OnBranch
  <2> QED
    BY <1>1, <1>2, <1>4, <2>1, IntentKept
<1>7. run \in TriageRuns
  BY <1>1 DEF TriageRuns, TriagePlaces
<1>8. run.at = "recheck" /\ run.plan = plan /\ run.todo = tgRun.todo /\ tgRun' = run
  BY <1>1 DEF TriageRuns, TriageGoes
<1>9. TriageTyped'
  <2>1. tgBranch' \in Seq(TriagePushes) /\ tgBranch' # <<>>
    BY <1>2, BranchKept
  <2> QED
    BY <1>6, <1>7, <1>8, <2>1 DEF TriageInv, TriageTyped
<1>10. StoreFits'
  BY <1>2, <1>6, StoreWithPush
<1>11. RowFits(tgRun, tgItem)'
  <2>1. \A k \in DOMAIN tgBranch' :
           /\ tgBranch'[k].item <= tgItem.n
           /\ tgBranch'[k].item = tgItem.n => tgItem.head < k /\ tgItem.head # 0
    BY <1>1, <1>2, LandedRow
  <2> QED
    BY <1>1, <1>3, <1>6, <1>8, <2>1, TriageFacts DEF RowFits
<1>12. AttemptFits(tgRun, tgItem)'
  <2>1. (tgRun.todo \subseteq DOMAIN tgRun.plan.verdicts /\ PlanFits(tgRun.plan))'
    BY <1>3, <1>8 DEF AttemptFits, PlanFits
  <2>2. (OnBranch(tgRun.plan) /\ PushStarted(tgIntent[tgItem.n]))'
    BY <1>2, <1>4, <1>6, <1>8 DEF OnBranch, PushStarted
  <2>3. (tgReport[tgItem.n] = NoReport)' /\ tgRun'.at = "recheck"
    BY <1>2, <1>8
  <2> QED
    BY <2>1, <2>2, <2>3 DEF AttemptFits, PushBuilding, PushSending
<1>13. PushOfItemFits(tgRun, tgItem)'
  <2>1. PushStarted(tgIntent[tgItem.n])' /\ (tgReport[tgItem.n] = NoReport)' /\ tgRun'.at = "recheck"
    BY <1>2, <1>4, <1>6, <1>8 DEF PushStarted
  <2>2. NoReport.outcome = "none"
    BY DEF NoReport
  <2> QED
    BY <2>1, <2>2 DEF PushOfItemFits, PushSending
<1>14. ApprovalFits(tgRun, tgItem)'
  BY <1>8 DEF ApprovalFits, PushBuilding
<1> QED
  BY <1>9, <1>10, <1>11, <1>12, <1>13, <1>14 DEF TriageInv, ItemFits

LEMMA PushStep ==
  ASSUME TriageInv, push
  PROVE  TriageInv'
<1>1. tgRun.at = "pushing" /\ tgItem.n \in TriageItems
  BY TriageFacts DEF push, TriageAt
<1>2. CASE LiveHead = tgRun.plan.base
  BY <1>1, <1>2, PushLandsStep DEF push
<1>3. CASE LiveHead # tgRun.plan.base
  <2> PICK state : state = "failed"
    OBVIOUS
  <2>1. IntentBecomes(state) /\ Recorded("stale")
        /\ UNCHANGED <<tgPr, tgBranch, tgThread, tgItem, tgPreview, tgReport>>
    BY <1>3 DEF push
  <2>2. PICK row \in PushIntents :
          /\ tgIntent' = [tgIntent EXCEPT ![tgItem.n] = row] /\ row.state = state
          /\ row.plan = tgIntent[tgItem.n].plan /\ PlanFits(row.plan)
    BY <1>1, <2>1, IntentRowTyped
  <2>3. /\ tgIntent' \in [TriageItems -> PushIntents] /\ IntentsFit' /\ tgIntent'[tgItem.n] = row
        /\ \A i \in TriageItems : i # tgItem.n => tgIntent'[i] = tgIntent[i]
    BY <1>1, <2>1, <2>2, IntentKept
  <2>4. ~tgItem.died /\ ~Pushed(tgItem.n)
    BY <1>1 DEF TriageInv, ItemFits, PushOfItemFits, PushSending
  <2> PICK outcome \in {"not-needed", "stale", "closed", "pushed"} : outcome = "stale"
    OBVIOUS
  <2> QED
    BY <1>1, <2>1, <2>3, <2>4, RecordStep
<1> QED
  BY <1>2, <1>3

LEMMA DiesStep ==
  ASSUME TriageInv, NEW landed \in BOOLEAN, TriageDies(landed)
  PROVE  TriageInv'
<1> PICK status : status = ThrownStatus
  OBVIOUS
<1> PICK died : died = (tgItem.died \/ tgRun.at \in {"pushing", "recheck"})
  OBVIOUS
<1>1. tgItem.status = "running" /\ tgRun.at # "idle" /\ tgItem.n \in TriageItems
  <2>1. tgItem.status = "running" => tgRun.at # "idle"
    BY DEF TriageInv, ItemFits, RowFits
  <2> QED
    BY <2>1, TriageFacts DEF TriageDies
<1>2. status \in {"queued", "failed", "cancelled"} /\ (status = "queued" => tgItem.tries < MaxTriageTries)
      /\ died \in BOOLEAN
  BY ThrownStatusFacts, TriageFacts
<1>3. tgRun' = TriageIdle /\ tgItem' = EndedRow(status, died)
      /\ UNCHANGED <<tgPr, tgThread, tgIntent, tgPush, tgUnreported, tgPreview, tgReport>>
  BY DEF TriageDies, EndedRow
<1>4. CASE ~landed
  BY <1>1, <1>2, <1>3, <1>4, EndStep DEF TriageDies
<1>5. CASE landed
  <2> PICK item : item = EndedRow(status, died)
    OBVIOUS
  <2> PICK idle : idle = TriageIdle
    OBVIOUS
  <2>1. tgRun.at = "pushing" /\ LiveHead = tgRun.plan.base /\ GitPushes /\ died
    BY <1>5 DEF TriageDies, TriageAt
  <2>2. PICK new \in TriagePushes :
          /\ tgBranch' = Append(tgBranch, new) /\ new.item = tgItem.n
          /\ new.mode = "bulk" => new.fixes \cap new.excl = {} /\ Approved(new.base, new.fixes)
          /\ tgItem.head = Len(tgBranch) /\ tgReport[tgItem.n] = NoReport
    BY <2>1, LandedFacts
  <2>3. /\ item \in TriageRows /\ item.n = tgItem.n /\ item.head = tgItem.head
        /\ item.tries = tgItem.tries /\ item.status = status /\ item.died = died
    <3>1. status \in {"queued", "completed", "failed", "cancelled"} /\ died \in BOOLEAN
      BY <1>2
    <3>2. /\ EndedRow(status, died) \in TriageRows
          /\ EndedRow(status, died).n = tgItem.n /\ EndedRow(status, died).head = tgItem.head
          /\ EndedRow(status, died).tries = tgItem.tries /\ EndedRow(status, died).status = status
          /\ EndedRow(status, died).died = died
      BY <3>1, EndedRowFacts
    <3> QED
      BY <3>2
  <2>4. tgRun' = idle /\ tgItem' = item /\ idle \in TriageRuns /\ idle.at = "idle" /\ idle.todo = {}
        /\ PlanFits(idle.plan)
    BY <1>3, IdleFacts, NoPlanTyped
  <2>5. IntentsFit'
    <3>1. ASSUME NEW i \in TriageItems
          PROVE  (PlanFits(tgIntent[i].plan) /\ (tgIntent[i].state = "reconciled" => OnBranch(tgIntent[i].plan)))'
      <4> PICK plan : plan = tgIntent[i].plan
        OBVIOUS
      <4>1. PlanFits(plan) /\ (tgIntent[i].state = "reconciled" => OnBranch(plan))
        BY RecordTyped
      <4>2. tgIntent[i].state = "reconciled" => OnBranch(plan)'
        BY <2>2, <4>1, TriageFacts, OnBranchKept
      <4> QED
        BY <1>3, <4>1, <4>2 DEF OnBranch, PlanFits
    <3> QED
      BY <3>1 DEF IntentsFit
  <2>6. StoreFits'
    BY <1>3, <2>2, <2>5, StoreWithPush
  <2>7. TriageTyped'
    <3>1. tgBranch' \in Seq(TriagePushes) /\ tgBranch' # <<>>
      BY <2>2, BranchKept
    <3> QED
      BY <1>3, <2>3, <2>4, <3>1 DEF TriageInv, TriageTyped
  <2>8. RowFits(tgRun, tgItem) /\ AttemptFits(tgRun, tgItem)
    BY DEF TriageInv, ItemFits
  <2>9. RowFits(tgRun, tgItem)'
    <3>1. \A k \in DOMAIN tgBranch' :
             /\ tgBranch'[k].item <= tgItem.n
             /\ tgBranch'[k].item = tgItem.n => tgItem.head < k /\ tgItem.head # 0
      BY <1>1, <2>2, LandedRow
    <3> QED
      BY <1>1, <1>2, <1>3, <2>3, <2>4, <2>8, <3>1, TriageFacts DEF RowFits
  <2>10. AttemptFits(tgRun, tgItem)'
    BY <2>4 DEF AttemptFits, PushBuilding, PushSending, PlanFits
  <2>11. PushOfItemFits(tgRun, tgItem)'
    <3>1. PushStarted(tgIntent[tgItem.n])
      BY <2>1, <2>8 DEF AttemptFits, PushStarted
    <3>2. PushStarted(tgIntent[tgItem.n])' /\ tgRun'.at = "idle" /\ tgItem'.died
      BY <1>3, <2>1, <2>3, <2>4, <3>1 DEF PushStarted
    <3> QED
      BY <3>2 DEF PushOfItemFits, PushSending
  <2>12. ApprovalFits(tgRun, tgItem)'
    BY <2>4 DEF ApprovalFits, PushBuilding
  <2> QED
    BY <2>6, <2>7, <2>9, <2>10, <2>11, <2>12 DEF TriageInv, ItemFits
<1> QED
  BY <1>4, <1>5

(* The threads *)

LEMMA ThreadRowKept ==
  ASSUME TriageInv, NEW t \in TriageThreads, NEW row \in TriageThreadRows,
         tgThread' = [tgThread EXCEPT ![t] = row],
         row.fixedBy # NoPlan => OnBranch(row.fixedBy) /\ t \in row.fixedBy.fixes,
         UNCHANGED tgBranch
  PROVE  tgThread' \in [TriageThreads -> TriageThreadRows] /\ ThreadsFit'
<1>1. tgThread \in [TriageThreads -> TriageThreadRows]
  BY DEF TriageInv, TriageTyped
<1>2. /\ tgThread' \in [TriageThreads -> TriageThreadRows] /\ tgThread'[t] = row
      /\ \A u \in TriageThreads : u # t => tgThread'[u] = tgThread[u]
  BY <1>1
<1>3. ASSUME NEW u \in TriageThreads
      PROVE  (tgThread[u].fixedBy # NoPlan => OnBranch(tgThread[u].fixedBy) /\ u \in tgThread[u].fixedBy.fixes)'
  <2> PICK now : now = tgThread'[u]
    OBVIOUS
  <2>1. now.fixedBy # NoPlan => OnBranch(now.fixedBy) /\ u \in now.fixedBy.fixes
    <3>1. CASE u = t
      BY <1>2, <3>1
    <3>2. CASE u # t
      BY <1>2, <3>2 DEF TriageInv, StoreFits, ThreadsFit
    <3> QED
      BY <3>1, <3>2
  <2> QED
    BY <2>1 DEF OnBranch
<1> QED
  BY <1>2, <1>3 DEF ThreadsFit

LEMMA ThreadStep ==
  ASSUME TriageInv, tgPr' \in TriagePrs, tgThread' \in [TriageThreads -> TriageThreadRows], ThreadsFit',
         NEW run \in TriageRuns, NEW item \in TriageRows, ItemFits(run, item),
         tgRun' = run, tgItem' = item,
         UNCHANGED <<tgBranch, tgIntent, tgPush, tgUnreported, tgPreview, tgReport>>
  PROVE  TriageInv'
<1>1. TriageTyped'
  BY DEF TriageInv, TriageTyped
<1>2. StoreFits'
  BY StoreFitsNext DEF TriageInv
<1>3. ItemFits(tgRun, tgItem)'
  BY ItemFitsNext
<1> QED
  BY <1>1, <1>2, <1>3 DEF TriageInv

LEMMA SameThreads ==
  ASSUME TriageInv, UNCHANGED <<tgThread, tgBranch>>
  PROVE  tgThread' \in [TriageThreads -> TriageThreadRows] /\ ThreadsFit'
BY ThreadsFitNext DEF TriageInv, TriageTyped, StoreFits

LEMMA ThreadFacts ==
  ASSUME TriageInv, NEW t \in TriageThreads
  PROVE  /\ tgThread[t].resolved \in BOOLEAN /\ tgThread[t].replied \in BOOLEAN
         /\ tgThread[t].fixedBy \in TriagePlans
         /\ tgThread[t].fixedBy # NoPlan => OnBranch(tgThread[t].fixedBy) /\ t \in tgThread[t].fixedBy.fixes
<1>1. tgThread[t] \in TriageThreadRows
  BY DEF TriageInv, TriageTyped
<1> QED
  BY <1>1 DEF TriageThreadRows, TriageInv, StoreFits, ThreadsFit

ThreadRow(resolved, replied, plan) == [resolved |-> resolved, replied |-> replied, fixedBy |-> plan]

LEMMA ThreadRowFacts ==
  ASSUME NEW resolved \in BOOLEAN, NEW replied \in BOOLEAN, NEW plan \in TriagePlans
  PROVE  ThreadRow(resolved, replied, plan) \in TriageThreadRows /\ ThreadRow(resolved, replied, plan).fixedBy = plan
BY DEF ThreadRow, TriageThreadRows

LEMMA RepliedKept ==
  ASSUME TriageInv, NEW t \in TriageThreads, NEW replied \in BOOLEAN, ThreadReplied(t, replied),
         UNCHANGED tgBranch
  PROVE  tgThread' \in [TriageThreads -> TriageThreadRows] /\ ThreadsFit'
<1> PICK resolved : resolved = tgThread[t].resolved
  OBVIOUS
<1> PICK plan : plan = tgThread[t].fixedBy
  OBVIOUS
<1> PICK row : row = ThreadRow(resolved, replied, plan)
  OBVIOUS
<1>1. row \in TriageThreadRows /\ row.fixedBy = plan
  BY ThreadFacts, ThreadRowFacts
<1>2. plan # NoPlan => OnBranch(plan) /\ t \in plan.fixes
  BY ThreadFacts
<1>3. tgThread' = [tgThread EXCEPT ![t] = row]
  BY DEF ThreadReplied, ThreadRow
<1> QED
  BY <1>1, <1>2, <1>3, ThreadRowKept

LEMMA PersonTogglesThreadStep ==
  ASSUME TriageInv, NEW t \in TriageThreads, PersonTogglesThread(t)
  PROVE  TriageInv'
<1> PICK resolved : resolved = ~tgThread[t].resolved
  OBVIOUS
<1> PICK replied : replied = tgThread[t].replied
  OBVIOUS
<1> PICK row : row = ThreadRow(resolved, replied, NoPlan)
  OBVIOUS
<1> PICK run : run = tgRun
  OBVIOUS
<1> PICK item : item = tgItem
  OBVIOUS
<1>1. resolved \in BOOLEAN /\ replied \in BOOLEAN
  BY ThreadFacts
<1>2. row \in TriageThreadRows /\ row.fixedBy = NoPlan
  BY <1>1, NoPlanTyped, ThreadRowFacts
<1>3. tgThread' = [tgThread EXCEPT ![t] = row]
  BY DEF PersonTogglesThread, ThreadRow
<1>4. UNCHANGED <<tgBranch, tgItem, tgRun, tgIntent, tgPush, tgUnreported, tgPreview, tgReport>>
  BY DEF PersonTogglesThread
<1>5. tgThread' \in [TriageThreads -> TriageThreadRows] /\ ThreadsFit'
  BY <1>2, <1>3, <1>4, ThreadRowKept
<1>6. tgPr' \in TriagePrs
  <2>1. tgPr \in TriagePrs /\ tgPr.moves < MaxTriageMoves /\ MaxTriageMoves \in Nat
    BY TriageAssumption DEF TriageInv, TriageTyped, PersonTogglesThread, PersonMoves
  <2> PICK moves : moves = tgPr.moves + 1
    OBVIOUS
  <2>2. moves \in 0 .. MaxTriageMoves
    BY <2>1 DEF TriagePrs
  <2>3. tgPr' = [tgPr EXCEPT !.moves = moves]
    BY DEF PersonTogglesThread
  <2> QED
    BY <2>1, <2>2, <2>3 DEF TriagePrs
<1>7. run \in TriageRuns /\ item \in TriageRows /\ ItemFits(run, item) /\ tgRun' = run /\ tgItem' = item
  BY <1>4, TriageFacts
<1> QED
  BY <1>4, <1>5, <1>6, <1>7, ThreadStep

LEMMA PersonTogglesPrStep ==
  ASSUME TriageInv, PersonTogglesPr
  PROVE  TriageInv'
<1> PICK run : run = tgRun
  OBVIOUS
<1> PICK item : item = tgItem
  OBVIOUS
<1>1. UNCHANGED <<tgBranch, tgThread, tgItem, tgRun, tgIntent, tgPush, tgUnreported, tgPreview, tgReport>>
  BY DEF PersonTogglesPr
<1>2. tgPr' \in TriagePrs
  <2>1. tgPr \in TriagePrs /\ tgPr.moves < MaxTriageMoves /\ MaxTriageMoves \in Nat
    BY TriageAssumption DEF TriageInv, TriageTyped, PersonTogglesPr, PersonMoves
  <2> PICK moves : moves = tgPr.moves + 1
    OBVIOUS
  <2> PICK open : open = ~tgPr.open
    OBVIOUS
  <2>2. moves \in 0 .. MaxTriageMoves /\ open \in BOOLEAN
    BY <2>1 DEF TriagePrs
  <2>3. tgPr' = [tgPr EXCEPT !.moves = moves, !.open = open]
    BY DEF PersonTogglesPr
  <2> QED
    BY <2>1, <2>2, <2>3 DEF TriagePrs
<1>3. tgThread' \in [TriageThreads -> TriageThreadRows] /\ ThreadsFit'
  BY <1>1, SameThreads
<1>4. run \in TriageRuns /\ item \in TriageRows /\ ItemFits(run, item) /\ tgRun' = run /\ tgItem' = item
  BY <1>1, TriageFacts
<1> QED
  BY <1>1, <1>2, <1>3, <1>4, ThreadStep

LEMMA ThreadDoneFits ==
  ASSUME TriageInv, tgRun.at = "threads", NEW t
  PROVE  /\ [tgRun EXCEPT !.todo = tgRun.todo \ {t}] \in TriageRuns
         /\ ItemFits([tgRun EXCEPT !.todo = tgRun.todo \ {t}], tgItem)
<1> PICK todo : todo = tgRun.todo \ {t}
  OBVIOUS
<1> PICK run : run = [tgRun EXCEPT !.todo = todo]
  OBVIOUS
<1>1. tgRun \in TriageRuns
  BY TriageFacts
<1>2. tgRun.todo \in SUBSET TriageThreads /\ todo \subseteq tgRun.todo
  BY <1>1 DEF TriageRuns
<1>3. run \in TriageRuns
  BY <1>1, <1>2 DEF TriageRuns
<1>4. run.at = "threads" /\ run.plan = tgRun.plan /\ run.outcome = tgRun.outcome /\ run.todo = todo
  BY <1>1 DEF TriageRuns
<1>5. RowFits(tgRun, tgItem) /\ AttemptFits(tgRun, tgItem) /\ PushOfItemFits(tgRun, tgItem)
  BY DEF TriageInv, ItemFits
<1>6. RowFits(run, tgItem)
  BY <1>4, <1>5 DEF RowFits
<1>7. AttemptFits(run, tgItem)
  BY <1>2, <1>4, <1>5 DEF AttemptFits, PushBuilding, PushSending
<1>8. PushOfItemFits(run, tgItem)
  BY <1>4, <1>5 DEF PushOfItemFits, PushSending
<1>9. ApprovalFits(run, tgItem)
  BY <1>4 DEF ApprovalFits, PushBuilding
<1> QED
  BY <1>3, <1>6, <1>7, <1>8, <1>9 DEF ItemFits

LEMMA ThreadActionsStep ==
  ASSUME TriageInv, NEW t \in TriageThreads, threadActions(t)
  PROVE  TriageInv'
<1> PICK verdict : verdict = tgRun.plan.verdicts[t]
  OBVIOUS
<1> PICK done : done = [tgRun EXCEPT !.todo = tgRun.todo \ {t}]
  OBVIOUS
<1> PICK item : item = tgItem
  OBVIOUS
<1> PICK same : same = tgRun
  OBVIOUS
<1>1. tgRun.at = "threads" /\ t \in tgRun.todo
      /\ UNCHANGED <<tgPr, tgBranch, tgIntent, tgPush, tgUnreported, tgPreview, tgReport>>
  BY DEF threadActions, TriageAt
<1>2. done \in TriageRuns /\ item \in TriageRows /\ ItemFits(done, item) /\ tgPr' \in TriagePrs
      /\ same \in TriageRuns /\ ItemFits(same, item)
  BY <1>1, ThreadDoneFits, TriageFacts DEF TriageInv, TriageTyped
<1>3. CASE tgRun' = [tgRun EXCEPT !.todo = @ \ {t}] /\ UNCHANGED <<tgThread, tgItem>>
  <2>1. tgRun' = done /\ tgItem' = item
    BY <1>3
  <2>2. tgThread' \in [TriageThreads -> TriageThreadRows] /\ ThreadsFit'
    BY <1>1, <1>3, SameThreads
  <2> QED
    BY <1>1, <1>2, <2>1, <2>2, ThreadStep
<1>4. CASE TriageThrown /\ UNCHANGED tgThread
  BY <1>1, <1>4, ThrownStep
<1>5. CASE ThreadReplied(t, TRUE) /\ UNCHANGED <<tgRun, tgItem>>
  <2>1. tgRun' = same /\ tgItem' = item
    BY <1>5
  <2>2. tgThread' \in [TriageThreads -> TriageThreadRows] /\ ThreadsFit'
    BY <1>1, <1>5, RepliedKept
  <2> QED
    BY <1>1, <1>2, <2>1, <2>2, ThreadStep
<1>6. CASE /\ shouldResolveTriageThread(verdict, tgRun.outcome)
           /\ tgThread' = [tgThread EXCEPT ![t] =
                [resolved |-> TRUE, replied |-> tgThread[t].replied,
                 fixedBy |-> IF verdict = "fixed" THEN tgRun.plan ELSE NoPlan]]
           /\ tgRun' = [tgRun EXCEPT !.todo = @ \ {t}] /\ UNCHANGED tgItem
  <2> PICK replied : replied = tgThread[t].replied
    OBVIOUS
  <2> PICK plan : plan = IF verdict = "fixed" THEN tgRun.plan ELSE NoPlan
    OBVIOUS
  <2> PICK row : row = ThreadRow(TRUE, replied, plan)
    OBVIOUS
  <2>1. replied \in BOOLEAN /\ plan \in TriagePlans
    BY ThreadFacts, TriageFacts, NoPlanTyped
  <2>2. row \in TriageThreadRows /\ row.fixedBy = plan
    BY <2>1, ThreadRowFacts
  <2>3. plan # NoPlan => OnBranch(plan) /\ t \in plan.fixes
    <3>1. AttemptFits(tgRun, tgItem)
      BY DEF TriageInv, ItemFits
    <3>2. verdict = "fixed" => tgRun.outcome = "pushed"
      BY <1>6 DEF shouldResolveTriageThread
    <3>3. verdict = "fixed" => OnBranch(tgRun.plan)
      BY <1>1, <3>1, <3>2 DEF AttemptFits
    <3>4. verdict = "fixed" => t \in tgRun.plan.fixes
      BY <1>1, <3>1 DEF AttemptFits, PlanFits
    <3> QED
      BY <3>3, <3>4
  <2>4. tgThread' = [tgThread EXCEPT ![t] = row]
    BY <1>6 DEF ThreadRow
  <2>5. tgThread' \in [TriageThreads -> TriageThreadRows] /\ ThreadsFit'
    BY <1>1, <2>2, <2>3, <2>4, ThreadRowKept
  <2>6. tgRun' = done /\ tgItem' = item
    BY <1>6
  <2> QED
    BY <1>1, <1>2, <2>5, <2>6, ThreadStep
<1> QED
  BY <1>3, <1>4, <1>5, <1>6 DEF threadActions

LEMMA ReplyDiesStep ==
  ASSUME TriageInv, NEW t \in TriageThreads, NEW landed \in BOOLEAN, ReplyDies(t, landed)
  PROVE  TriageInv'
<1> PICK status : status = ThrownStatus
  OBVIOUS
<1> PICK item : item = EndedRow(status, tgItem.died)
  OBVIOUS
<1> PICK idle : idle = TriageIdle
  OBVIOUS
<1>1. tgRun.at = "threads" /\ tgItem.died \in BOOLEAN
      /\ UNCHANGED <<tgPr, tgBranch, tgIntent, tgPush, tgUnreported, tgPreview, tgReport>>
  BY TriageFacts DEF ReplyDies, TriageAt
<1>2. /\ item \in TriageRows /\ item.n = tgItem.n /\ item.head = tgItem.head
      /\ item.tries = tgItem.tries /\ item.status = status /\ item.died = tgItem.died
      /\ status \in {"queued", "failed", "cancelled"}
      /\ (status = "queued" => tgItem.tries < MaxTriageTries)
  BY <1>1, ThrownStatusFacts, EndedRowFacts
<1>3. ItemFits(TriageIdle, item)
  BY <1>1, <1>2, EndFits
<1>4. idle \in TriageRuns /\ ItemFits(idle, item) /\ tgRun' = idle /\ tgItem' = item /\ tgPr' \in TriagePrs
  BY <1>1, <1>3, NoPlanTyped, SameDied DEF ReplyDies, TriageThrown, TriageInv, TriageTyped
<1>5. tgThread' \in [TriageThreads -> TriageThreadRows] /\ ThreadsFit'
  BY <1>1, RepliedKept DEF ReplyDies
<1> QED
  BY <1>1, <1>2, <1>4, <1>5, ThreadStep

(* The invariant *)

LEMMA TriageInvInit ==
  ASSUME TriageInit
  PROVE  TriageInv
<1> PICK item : item = tgItem
  OBVIOUS
<1>1. item = [n |-> 0, mode |-> "preview", excl |-> {}, head |-> 0, tries |-> 0, cancelled |-> FALSE,
              died |-> FALSE, status |-> "none"]
  BY DEF TriageInit
<1>2. item \in TriageRows /\ item.n = 0 /\ item.status = "none" /\ item.tries = 0 /\ ~item.died /\ item.head = 0
  BY <1>1, TriageAssumption DEF TriageRows
<1>3. tgBranch = <<PersonPush>> /\ PersonPush \in TriagePushes /\ PersonPush.item = 0
      /\ PersonPush.mode = "person"
  BY DEF TriageInit, PersonPush, TriagePushes
<1>4. tgBranch \in Seq(TriagePushes) /\ tgBranch # <<>> /\ DOMAIN tgBranch = {1} /\ tgBranch[1] = PersonPush
  BY <1>3
<1>5. tgPr \in TriagePrs
  <2>1. PICK f \in TriageForks : tgPr = [open |-> TRUE, fork |-> f, moves |-> 0]
    BY DEF TriageInit
  <2>2. f \in BOOLEAN /\ MaxTriageMoves \in Nat
    BY TriageAssumption
  <2> QED
    BY <2>1, <2>2 DEF TriagePrs
<1>6. tgThread \in [TriageThreads -> TriageThreadRows] /\ \A t \in TriageThreads : tgThread[t].fixedBy = NoPlan
  <2> PICK row : row = ThreadRow(FALSE, FALSE, NoPlan)
    OBVIOUS
  <2>1. row \in TriageThreadRows /\ row.fixedBy = NoPlan
    BY NoPlanTyped, ThreadRowFacts
  <2>2. tgThread = [t \in TriageThreads |-> row]
    BY DEF TriageInit, ThreadRow
  <2> QED
    BY <2>1, <2>2
<1>7. /\ tgIntent \in [TriageItems -> PushIntents]
      /\ \A i \in TriageItems : tgIntent[i].state = "none" /\ tgIntent[i].plan = NoPlan
  <2> PICK row : row = [state |-> "none", plan |-> NoPlan]
    OBVIOUS
  <2>1. row \in PushIntents /\ row.state = "none" /\ row.plan = NoPlan
    BY NoPlanTyped DEF PushIntents
  <2>2. tgIntent = [i \in TriageItems |-> row]
    BY DEF TriageInit
  <2> QED
    BY <2>1, <2>2
<1>8. tgPush \in [TriageItems -> PushRecords] /\ \A i \in TriageItems : tgPush[i] = NoRecord
  BY NoPlanTyped DEF TriageInit
<1>9. /\ tgPreview \in [TriageItems -> TriagePreviews] /\ tgReport \in [TriageItems -> TriageReports]
      /\ \A i \in TriageItems : tgPreview[i] = NoPreview /\ tgReport[i] = NoReport
  BY NoPlanTyped DEF TriageInit
<1>10. TriageTyped
  <2>1. tgRun \in TriageRuns /\ tgItem \in TriageRows
    BY <1>2, NoPlanTyped DEF TriageInit
  <2>2. tgUnreported \in 0 .. MaxTriageItems
    BY TriageAssumption DEF TriageInit
  <2> QED
    BY <1>4, <1>5, <1>6, <1>7, <1>8, <1>9, <2>1, <2>2 DEF TriageTyped
<1>11. NoReport.outcome = "none" /\ NoReport.listed = {}
  BY DEF NoReport
<1>12. StoreFits
  <2>1. ThreadsFit
    BY <1>6 DEF ThreadsFit
  <2>2. IntentsFit
    BY <1>7, NoPlanTyped DEF IntentsFit
  <2>3. PushesFit
    <3>1. NoRecord.outcome = "none" /\ NoRecord.plan = NoPlan
      BY DEF NoRecord
    <3> QED
      BY <1>8, <3>1, NoPlanTyped DEF PushesFit
  <2>4. ReportsFit
    BY <1>9, <1>11 DEF ReportsFit
  <2>5. BranchFits
    BY <1>3, <1>4 DEF BranchFits
  <2> QED
    BY <2>1, <2>2, <2>3, <2>4, <2>5 DEF StoreFits
<1>13. 0 \notin TriageItems /\ tgRun = TriageIdle /\ item = tgItem
  BY TriageAssumption DEF TriageItems, TriageInit
<1>14. RowFits(TriageIdle, item)
  BY <1>2, <1>3, <1>4, <1>7, <1>9, <1>13, IdleFacts, TriageAssumption DEF RowFits
<1>15. AttemptFits(TriageIdle, item)
  BY IdleFacts, NoPlanTyped DEF AttemptFits, PushBuilding, PushSending
<1>16. PushOfItemFits(TriageIdle, item)
  BY <1>2, <1>13 DEF PushOfItemFits
<1>17. ApprovalFits(TriageIdle, item)
  BY IdleFacts DEF ApprovalFits, PushBuilding
<1> QED
  BY <1>10, <1>12, <1>13, <1>14, <1>15, <1>16, <1>17 DEF TriageInv, ItemFits

LEMMA TriageInvNext ==
  ASSUME TriageInv, [TriageNext]_triageVars
  PROVE  TriageInv'
<1>1. CASE UNCHANGED triageVars
  <2> PICK run : run = tgRun
    OBVIOUS
  <2> PICK item : item = tgItem
    OBVIOUS
  <2>1. run \in TriageRuns /\ item \in TriageRows /\ ItemFits(run, item)
    BY TriageFacts
  <2> QED
    BY <1>1, <2>1, AttemptStep DEF triageVars
<1>2. CASE \E mode \in TriageModes, excl \in SUBSET TriageThreads : RequestTriage(mode, excl)
  BY <1>2, RequestStep
<1>3. CASE PersonPushes \/ PersonTogglesPr \/ CancelTriage
  BY <1>3, PersonPushesStep, PersonTogglesPrStep, CancelStep
<1>4. CASE \E t \in TriageThreads : PersonTogglesThread(t)
  BY <1>4, PersonTogglesThreadStep
<1>5. CASE StartTriage \/ StopCancelled \/ execute \/ resolveInventoryAndScope \/ CheckoutFails
  BY <1>5, StartStep, StopCancelledStep, ExecuteStep, DiscoverStep, CheckoutFailsStep
<1>6. CASE \E verdicts \in [tgRun.inv -> TriageVerdicts] : runFreshTriageAgent(verdicts)
  BY <1>6, FreshAgentStep
<1>7. CASE \E applied \in SUBSET tgRun.inv : runBulkFromPreview(applied)
  BY <1>7, BulkStep
<1>8. CASE publishTriagePreview \/ armPush \/ startPush \/ push \/ pushClosed \/ recheckWritable
  BY <1>8, PreviewStep, ArmStep, StartPushStep, PushStep, PushClosedStep, RecheckStep
<1>9. CASE \E t \in TriageThreads : threadActions(t)
  BY <1>9, ThreadActionsStep
<1>10. CASE upsertTriageReport \/ FinishTriage
  BY <1>10, UpsertReportStep, FinishStep
<1>11. CASE \E landed \in BOOLEAN : TriageDies(landed)
  BY <1>11, DiesStep
<1>12. CASE \E t \in TriageThreads, landed \in BOOLEAN : ReplyDies(t, landed)
  BY <1>12, ReplyDiesStep
<1> QED
  BY <1>1, <1>2, <1>3, <1>4, <1>5, <1>6, <1>7, <1>8, <1>9, <1>10, <1>11, <1>12 DEF TriageNext

LEMMA TriageInvSound ==
  ASSUME TriageInv
  PROVE  TriageSound
<1>1. RowFits(tgRun, tgItem) /\ AttemptFits(tgRun, tgItem) /\ PushOfItemFits(tgRun, tgItem)
  BY DEF TriageInv, ItemFits
<1>2. TriageTypeOK
  <2>1. tgPr.open \in BOOLEAN /\ tgPr.fork \in BOOLEAN /\ tgPr.moves \in 0 .. MaxTriageMoves
    BY DEF TriageInv, TriageTyped, TriagePrs
  <2>2. tgItem.n \in 0 .. MaxTriageItems /\ tgItem.tries \in Nat
        /\ tgItem.status \in {"none", "queued", "running", "completed", "failed", "cancelled"}
    BY DEF TriageInv, TriageTyped, TriageRows
  <2>3. tgItem.tries \in 0 .. MaxTriageTries
    BY <1>1, <2>2, TriageFacts DEF RowFits
  <2>4. tgRun.at \in TriagePlaces /\ tgRun.outcome \in PushOutcomes
        /\ tgRun.todo \subseteq DOMAIN tgRun.plan.verdicts
    BY <1>1 DEF TriageInv, TriageTyped, TriageRuns, AttemptFits
  <2>5. tgUnreported \in 0 .. MaxTriageItems
    BY DEF TriageInv, TriageTyped
  <2>6. ASSUME NEW i \in TriageItems
        PROVE  /\ tgIntent[i].state \in {"none", "armed", "mutating", "unknown", "reconciled", "failed", "terminal"}
               /\ tgPush[i].outcome \in PushOutcomes
               /\ tgReport[i].outcome \in PushOutcomes \cup {"notice", "preview"}
    <3>1. tgIntent[i] \in PushIntents /\ tgReport[i] \in TriageReports /\ tgPush[i].outcome \in PushOutcomes
      BY RecordTyped
    <3> QED
      BY <3>1 DEF PushIntents, TriageReports
  <2> QED
    BY <2>1, <2>2, <2>3, <2>4, <2>5, <2>6 DEF TriageTypeOK
<1>3. FixedIsPushed
  BY DEF TriageInv, StoreFits, ThreadsFit, FixedIsPushed
<1>4. BulkWithinApproval
  BY DEF TriageInv, StoreFits, BranchFits, Approved, Approves, BulkWithinApproval
<1>5. LostPushNotRepeated
  BY <1>1, TriageFacts DEF LostPushNotRepeated, TriageAt, PushOfItemFits, PushSending
<1>6. ReportHonest
  BY <1>1 DEF TriageInv, StoreFits, ReportsFit, ReportHonest, PushOfItemFits
<1>7. ReportedIsFinal
  <2>1. tgItem.n # 0 => tgItem.n \in TriageItems
    BY TriageFacts DEF TriageItems
  <2> QED
    BY <1>1, <2>1 DEF ReportedIsFinal, AttemptFits, PushBuilding
<1> QED
  BY <1>2, <1>3, <1>4, <1>5, <1>6, <1>7 DEF TriageSound

\* Whatever people do to the pull request meanwhile and wherever the worker dies, a thread
\* is called fixed for a commit that is on the branch, a bulk push stays within the approved
\* preview, a push whose worker died is not repeated and a report is true and final.
THEOREM TriageIsSound == TriageSpec => []TriageSound
<1>1. TriageInit => TriageInv
  BY TriageInvInit
<1>2. TriageInv /\ [TriageNext]_triageVars => TriageInv'
  BY TriageInvNext
<1>3. TriageInv => TriageSound
  BY TriageInvSound
<1> QED
  BY <1>1, <1>2, <1>3, PTL DEF TriageSpec

=============================================================================
