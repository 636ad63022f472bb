--------------------------- MODULE PublishRecords ---------------------------
(***************************************************************************)
(* What successive attempts at the reviews of one pull request leave in    *)
(* publish_records and make of it: recordPublishStep and its fences, the   *)
(* reconciliation of pending intents from records, the publish context an  *)
(* attempt loads, and the summary receipt that ends a review which had     *)
(* already published.  One shared row per step serves every work item of   *)
(* the (resource, lens); a successor takes it over.                        *)
(*                                                                         *)
(* A mutation is what PublishOnce promises: armed, accepted at most once,  *)
(* and found again by its marker.  The pull request has one progress       *)
(* comment, and its head does not move here.                               *)
(***************************************************************************)
EXTENDS ActorLease, FiniteSets, Sequences

CONSTANTS
  RecordRuns,      \* executions that may be alive at once
  RecordBatches,   \* inline batches, by their deterministic ids
  BatchItem,       \* the work item of a batch
  SpecialistBatches, \* batches whose intent names a specialist's lens
  LightItems,      \* reviews that complete as docs only, with a summary alone
  MaxRecordClaims, \* how often items are claimed (a bound)
  MaxRecordFaults  \* crashes and lapses of the lease (a bound)

ASSUME RecordAssumption ==
  /\ BatchItem \in [RecordBatches -> Items]
  /\ SpecialistBatches \subseteq RecordBatches /\ LightItems \subseteq Items
  /\ MaxRecordClaims \in Nat /\ MaxRecordFaults \in Nat

VARIABLES
  prLease,      \* the pr_actor_leases row
  prRows,       \* publish_records of the resource and lens, by step
  prIntents,    \* the operation_intents that exist, by operation
  prAccepted,   \* operations GitHub has carried out
  prRuns,       \* what each execution holds in memory
  prEnded,      \* items that completed
  prClaims, prFaults,
  prTold,       \* batches whose recording returned (a ghost)
  prSynced,     \* items that recorded labels they found in place (a ghost)
  prRevived     \* a renewal brought a lapsed lease back (a ghost)

recordVars == <<prLease, prRows, prIntents, prAccepted, prRuns, prEnded, prClaims,
                prFaults, prTold, prSynced, prRevived>>

PublishSteps == {"progress_comment", "inline_review", "summary_comment", "labels"}

\* An operation of an item: a batch, or the step that the item does once.
RecordOps == [step: {"inline_review"}, item: Items, key: RecordBatches]
               \cup [step: PublishSteps \ {"inline_review"}, item: Items, key: {"once"}]

OpsOf(i) ==
  {o \in RecordOps : o.item = i /\ (o.step = "inline_review" => BatchItem[o.key] = i /\ i \notin LightItems)}

NoRow == [item |-> NoItem, epoch |-> 0, light |-> FALSE, batches |-> <<>>]

\* batches: detail.batches.
RecordRow == [item: Items \cup {NoItem}, epoch: Nat, light: BOOLEAN, batches: Seq(RecordBatches)]

NoRecordIntent == [status |-> "absent", mutating |-> FALSE, result |-> FALSE]

IntentOf(o) == IF o \in DOMAIN prIntents THEN prIntents[o] ELSE NoRecordIntent
IntentsBecome(new) ==
  prIntents' = [o \in DOMAIN prIntents \cup DOMAIN new |-> IF o \in DOMAIN new THEN new[o] ELSE prIntents[o]]
IntentBecomes(o, intent) == IntentsBecome([q \in {o} |-> intent])

RestingRun == [pc |-> "idle", item |-> NoItem, epoch |-> 0, op |-> "none", resumed |-> {},
               published |-> FALSE, did |-> {}, again |-> FALSE]

RecordInit ==
  /\ prLease = NoLease
  /\ prRows = [s \in PublishSteps |-> NoRow]
  /\ prIntents = <<>>
  /\ prAccepted = {} /\ prEnded = {} /\ prTold = {} /\ prSynced = {}
  /\ prRuns = [x \in RecordRuns |-> RestingRun]
  /\ prClaims = 0 /\ prFaults = 0 /\ prRevived = FALSE

AttemptAt(x, pc) == prRuns[x].pc = pc
AttemptGoes(x, pc) == prRuns' = [prRuns EXCEPT ![x].pc = pc]

AttemptHolds(x) == isPrActorLeaseHeld(prLease, prRuns[x].item, prRuns[x].epoch)

\* The attempt throws: its own release names the epoch, and the item is retried.
AttemptThrows(x) ==
  /\ prLease' = releasePrActorLease(prLease, prRuns[x].epoch)
  /\ prRuns' = [prRuns EXCEPT ![x] = RestingRun]

\* The completion is fenced like any other write.
AttemptCompletes(x) ==
  /\ prEnded' = IF AttemptHolds(x) THEN prEnded \cup {prRuns[x].item} ELSE prEnded
  /\ AttemptThrows(x)

\* A failure to set labels is logged, and the review goes on; any other is thrown.
AttemptFails(x, o) ==
  IF o.step = "labels"
  THEN /\ prRuns' = [prRuns EXCEPT ![x].pc = "publish", ![x].op = "none", ![x].did = @ \cup {o}]
       /\ UNCHANGED prLease
  ELSE AttemptThrows(x)

-----------------------------------------------------------------------------
(* The rows *)

\* Mutants: every record of an inline review writes its own list; a batch that is
\* recorded again is appended again.
MergedBatches_Replace(s, o, old) == IF s = "inline_review" THEN <<o.key>> ELSE <<>>
MergedBatches_Append(s, o, old) ==
  IF s = "inline_review" THEN Append(old.batches, o.key) ELSE old.batches

\* A batch is appended unless its id is there.
MergedBatches(s, o, old) ==
  IF s = "inline_review" /\ o.key \notin {old.batches[n] : n \in DOMAIN old.batches}
  THEN Append(old.batches, o.key) ELSE old.batches

\* Mutant: the conflict update asks for the progress row's owner only.
RowWritable_Unfenced(x, s) ==
  s = "progress_comment" => prRows[s].item \in {NoItem, prRuns[x].item}

\* The insert and the conflict update ask for an unexpired lease of this epoch, and
\* the progress row only takes its owner's record.
RowWritable(x, s) ==
  /\ AttemptHolds(x)
  /\ s = "progress_comment" => prRows[s].item \in {NoItem, prRuns[x].item}

\* Without an epoch the row keeps the one it has.
recordPublishStep(i, epoch, o) ==
  prRows' = [prRows EXCEPT ![o.step] =
       [item |-> i, epoch |-> IF epoch = 0 THEN prRows[o.step].epoch ELSE epoch,
        light |-> o.step = "summary_comment" /\ i \in LightItems,
        batches |-> MergedBatches(o.step, o, prRows[o.step])]]

-----------------------------------------------------------------------------
(* An attempt begins *)

ClaimsReview(x, i) ==
  /\ AttemptAt(x, "idle") /\ i \notin prEnded /\ Acquirable(prLease)
  /\ prClaims < MaxRecordClaims /\ prClaims' = prClaims + 1
  /\ prLease' = acquirePrActorLease(prLease, i)
  /\ prRuns' = [prRuns EXCEPT ![x] = [RestingRun EXCEPT !.pc = "reconcile", !.item = i,
                                                        !.epoch = prLease.epoch + 1]]
  /\ UNCHANGED <<prRows, prIntents, prAccepted, prEnded, prFaults, prTold, prSynced,
                 prRevived>>

\* Mutant: the record's owner does not matter.
RecordFor_AnyItem(o) ==
  /\ prRows[o.step].item # NoItem
  /\ o.step = "inline_review" =>
       \E n \in DOMAIN prRows[o.step].batches : prRows[o.step].batches[n] = o.key

\* findCompletedPublishRecordId: the owner, the step and the lens must agree, and for a
\* batch its id.  The record of a specialist's batch stands under the review's lens, so
\* that its intent never finds it.
RecordFor(o) ==
  /\ prRows[o.step].item = o.item
  /\ o.step = "inline_review" =>
       /\ o.key \notin SpecialistBatches
       /\ \E n \in DOMAIN prRows[o.step].batches : prRows[o.step].batches[n] = o.key

reconcilePendingIntents(x) ==
  LET found == {o \in OpsOf(prRuns[x].item) : IntentOf(o).status = "pending" /\ RecordFor(o)}
  IN  /\ AttemptAt(x, "reconcile")
      /\ IF found = {} \/ AttemptHolds(x)
         THEN /\ IntentsBecome([o \in found |-> [IntentOf(o) EXCEPT !.status = "reconciled"]])
              /\ AttemptGoes(x, "load") /\ UNCHANGED prLease
         ELSE AttemptThrows(x) /\ UNCHANGED prIntents
      /\ UNCHANGED <<prRows, prAccepted, prEnded, prClaims, prFaults, prTold, prSynced,
                     prRevived>>

\* Mutant: the batches of the row count for whoever loads it.
OwnBatches_All(i) ==
  LET row == prRows["inline_review"] IN {row.batches[n] : n \in DOMAIN row.batches}

\* current_publish selects the rows the item owns, and of their batches its own.
OwnBatches(i) ==
  LET row == prRows["inline_review"]
  IN  IF row.item # i THEN {}
      ELSE {b \in {row.batches[n] : n \in DOMAIN row.batches} : BatchItem[b] = i}

\* One statement: the batches to resume (placements, inlineReviewIds, threadCallCount) and summaryPublished.
loadReviewExecutorPublishContext(x) ==
  LET i == prRuns[x].item
  IN  /\ AttemptAt(x, "load")
      /\ prRuns' = [prRuns EXCEPT ![x].pc = "receipt", ![x].resumed = OwnBatches(i),
                                  ![x].published = prRows["summary_comment"].item = i]
      /\ UNCHANGED <<prLease, prRows, prIntents, prAccepted, prEnded, prClaims, prFaults,
                     prTold, prSynced, prRevived>>

SummaryOf(i) == [step |-> "summary_comment", item |-> i, key |-> "once"]

\* usableSummaryReceipt: the item's own summary row, read again, of a light completion
\* or with the reconciled intent and the result that agree with it.
UsableReceipt(x) ==
  LET i == prRuns[x].item
      row == prRows["summary_comment"]
      intent == IntentOf(SummaryOf(i))
  IN  /\ row.item = i
      /\ row.light \/ (intent.status = "reconciled" /\ intent.result)

runClaimedReview(x) ==
  /\ AttemptAt(x, "receipt")
  /\ IF prRuns[x].published /\ UsableReceipt(x)
     THEN AttemptCompletes(x)
     ELSE AttemptGoes(x, "publish") /\ UNCHANGED <<prLease, prEnded>>
  /\ UNCHANGED <<prRows, prIntents, prAccepted, prClaims, prFaults, prTold, prSynced,
                 prRevived>>

-----------------------------------------------------------------------------
(* It publishes *)

Due(x, o) ==
  /\ o \in OpsOf(prRuns[x].item) \ prRuns[x].did
  /\ o.step = "progress_comment" <=> prRuns[x].did = {}
  /\ o.step = "inline_review" => SummaryOf(prRuns[x].item) \notin prRuns[x].did
  /\ o.step = "labels" => SummaryOf(prRuns[x].item) \in prRuns[x].did

Recording(x, o) == prRuns' = [prRuns EXCEPT ![x].pc = "check", ![x].op = o]

\* publishOnce, by the intent it finds: return the stored result, look for
\* evidence, or arm and send.  A labels mutation returns no value, so that a record of
\* the step, or a reconciled intent, stands for its success.
takePublishOnce(x, o) ==
  LET intent == IntentOf(o)
      void == o.step = "labels" /\ (intent.status = "reconciled" \/ RecordFor(o))
  IN  /\ AttemptAt(x, "publish") /\ Due(x, o) /\ o.step # "progress_comment"
      /\ CASE ~AttemptHolds(x) -> AttemptFails(x, o) /\ UNCHANGED prIntents
           [] AttemptHolds(x) /\ intent.result ->
                Recording(x, o) /\ UNCHANGED <<prLease, prIntents>>
           [] AttemptHolds(x) /\ ~intent.result /\ intent.status = "unknown" ->
                AttemptFails(x, o) /\ UNCHANGED prIntents
           [] AttemptHolds(x) /\ ~intent.result /\ intent.status # "unknown"
                /\ (intent.status = "reconciled" \/ intent.mutating) ->
                IF o \in prAccepted \/ void
                THEN /\ IntentBecomes(o, [intent EXCEPT !.status = "reconciled", !.result = TRUE])
                     /\ Recording(x, o) /\ UNCHANGED prLease
                ELSE /\ IntentBecomes(o, [intent EXCEPT !.status = IF @ = "reconciled" THEN @ ELSE "unknown"])
                     /\ AttemptFails(x, o)
           [] OTHER ->
                /\ IntentBecomes(o, [intent EXCEPT !.status = "pending"])
                /\ prRuns' = [prRuns EXCEPT ![x].pc = "arm", ![x].op = o]
                /\ UNCHANGED prLease
      /\ UNCHANGED <<prRows, prAccepted, prEnded, prClaims, prFaults, prTold, prSynced,
                     prRevived>>

\* The arming merge, then the last look at the lease before the send.
ArmOnce(x) ==
  /\ AttemptAt(x, "arm")
  /\ IF AttemptHolds(x)
     THEN /\ IntentBecomes(prRuns[x].op, [IntentOf(prRuns[x].op) EXCEPT !.mutating = TRUE])
          /\ AttemptGoes(x, "sent") /\ UNCHANGED prLease
     ELSE AttemptFails(x, prRuns[x].op) /\ UNCHANGED prIntents
  /\ UNCHANGED <<prRows, prAccepted, prEnded, prClaims, prFaults, prTold, prSynced,
                 prRevived>>

SendAccepted(x) ==
  /\ AttemptAt(x, "sent") /\ prRuns[x].op \notin prAccepted
  /\ prAccepted' = prAccepted \cup {prRuns[x].op}
  /\ UNCHANGED <<prLease, prRows, prIntents, prRuns, prEnded, prClaims, prFaults, prTold,
                 prSynced, prRevived>>

\* The answer: the result is stored and the intent reconciled, if the lease is held.
OnceReturns(x) ==
  /\ AttemptAt(x, "sent") /\ prRuns[x].op \in prAccepted
  /\ IF AttemptHolds(x)
     THEN /\ IntentBecomes(prRuns[x].op,
               [IntentOf(prRuns[x].op) EXCEPT !.status = "reconciled", !.result = TRUE])
          /\ AttemptGoes(x, "check") /\ UNCHANGED prLease
     ELSE AttemptFails(x, prRuns[x].op) /\ UNCHANGED prIntents
  /\ UNCHANGED <<prRows, prAccepted, prEnded, prClaims, prFaults, prTold, prSynced,
                 prRevived>>

\* labelsAlreadySynced: nothing to send, and the step is recorded all the same.
LabelsInPlace(x, o) ==
  /\ AttemptAt(x, "publish") /\ Due(x, o) /\ o.step = "labels"
  /\ Recording(x, o)
  /\ prSynced' = prSynced \cup {o.item}
  /\ UNCHANGED <<prLease, prRows, prIntents, prAccepted, prEnded, prClaims, prFaults,
                 prTold, prRevived>>

\* A progress write of another item's comment is skipped; otherwise a record precedes
\* the comment and another one, with its id, follows it.
PrepareProgress(x, o) ==
  /\ AttemptAt(x, "publish") /\ Due(x, o) /\ o.step = "progress_comment"
  /\ IF prRows["progress_comment"].item \in {NoItem, prRuns[x].item}
     THEN Recording(x, o)
     ELSE prRuns' = [prRuns EXCEPT ![x].did = @ \cup {o}]
  /\ UNCHANGED <<prLease, prRows, prIntents, prAccepted, prEnded, prClaims, prFaults,
                 prTold, prSynced, prRevived>>

-----------------------------------------------------------------------------
(* It records *)

\* fencedWrite reads the lease, writes under it, and when nothing was written reads
\* it again.
CheckLease(x) ==
  /\ AttemptAt(x, "check")
  /\ IF AttemptHolds(x) THEN AttemptGoes(x, "write") /\ UNCHANGED prLease ELSE AttemptFails(x, prRuns[x].op)
  /\ UNCHANGED <<prRows, prIntents, prAccepted, prEnded, prClaims, prFaults, prTold,
                 prSynced, prRevived>>

\* What follows a record that returned: the comment and its record, the next operation,
\* and at the end of a light review its completion.
RecordReturned(x) ==
  LET o == prRuns[x].op
      first == o.step = "progress_comment" /\ ~prRuns[x].again
  IN  /\ prRuns' = [prRuns EXCEPT ![x].pc = IF first THEN "check" ELSE "publish",
                                  ![x].again = first,
                                  ![x].did = IF first THEN @ ELSE @ \cup {o},
                                  ![x].op = IF first THEN o ELSE "none"]
      /\ prTold' = IF o.step = "inline_review" THEN prTold \cup {o.key} ELSE prTold

WriteRecord(x) ==
  LET o == prRuns[x].op
  IN  /\ AttemptAt(x, "write")
      /\ IF RowWritable(x, o.step)
         THEN /\ recordPublishStep(prRuns[x].item, prRuns[x].epoch, o)
              /\ RecordReturned(x)
         ELSE AttemptGoes(x, "rejected") /\ UNCHANGED <<prRows, prTold>>
      /\ UNCHANGED <<prLease, prIntents, prAccepted, prEnded, prClaims, prFaults, prSynced, prRevived>>

\* Nothing was written: a lost lease throws, and so does a progress row that is
\* another item's; otherwise the record counts as made.
RecordRejected(x) ==
  /\ AttemptAt(x, "rejected")
  /\ IF AttemptHolds(x) /\ prRuns[x].op.step # "progress_comment"
     THEN RecordReturned(x) /\ UNCHANGED prLease
     ELSE AttemptFails(x, prRuns[x].op) /\ UNCHANGED prTold
  /\ UNCHANGED <<prRows, prIntents, prAccepted, prEnded, prClaims, prFaults, prSynced,
                 prRevived>>

\* The review is published and the attempt returns.
ReviewDone(x) ==
  /\ AttemptAt(x, "publish") /\ SummaryOf(prRuns[x].item) \in prRuns[x].did
  /\ AttemptCompletes(x)
  /\ UNCHANGED <<prRows, prIntents, prAccepted, prClaims, prFaults, prTold, prSynced,
                 prRevived>>

-----------------------------------------------------------------------------
(* Around it *)

\* The acknowledgement has no lease: its record is not fenced and keeps the epoch.
AckRecords(i) ==
  LET o == [step |-> "progress_comment", item |-> i, key |-> "once"]
  IN  /\ i \notin prEnded /\ prRows["progress_comment"].item \in {NoItem, i}
      /\ recordPublishStep(i, 0, o)
      /\ UNCHANGED <<prLease, prIntents, prAccepted, prRuns, prEnded, prClaims, prFaults, prTold,
                     prSynced, prRevived>>

\* Intake inserts the progress row, or hands it to a newer review (see ProgressComment).
IntakeProgressRow(i) ==
  /\ i \notin prEnded /\ prRows["progress_comment"].item # i
  /\ \A x \in RecordRuns : prRuns[x].item # i
  /\ prRows' = [prRows EXCEPT !["progress_comment"].item = i]
  /\ UNCHANGED <<prLease, prIntents, prAccepted, prRuns, prEnded, prClaims, prFaults,
                 prTold, prSynced, prRevived>>

RecordsFault == prFaults < MaxRecordFaults /\ prFaults' = prFaults + 1

AttemptDies(x) ==
  /\ prRuns[x].pc # "idle" /\ RecordsFault
  /\ prRuns' = [prRuns EXCEPT ![x] = RestingRun]
  /\ UNCHANGED <<prLease, prRows, prIntents, prAccepted, prEnded, prClaims, prTold,
                 prSynced, prRevived>>

\* A lease lapses under its execution, or after it is gone.
LeaseLapses ==
  /\ prLease.holder # NoItem /\ prLease.live
  /\ IF \E x \in RecordRuns : prRuns[x].epoch = prLease.epoch THEN RecordsFault ELSE UNCHANGED prFaults
  /\ prLease' = [prLease EXCEPT !.live = FALSE]
  /\ UNCHANGED <<prRows, prIntents, prAccepted, prRuns, prEnded, prClaims, prTold, prSynced,
                 prRevived>>

\* The renewal does not read expires_at.
LeaseRevives(x) ==
  /\ prRuns[x].pc # "idle" /\ ~prLease.live
  /\ Renewable(prLease, prRuns[x].item, prRuns[x].epoch)
  /\ prLease' = renewPrActorLease(prLease)
  /\ prRevived' = TRUE
  /\ UNCHANGED <<prRows, prIntents, prAccepted, prRuns, prEnded, prClaims, prFaults, prTold,
                 prSynced>>

AttemptStep(x) ==
  \/ \E i \in Items : ClaimsReview(x, i)
  \/ reconcilePendingIntents(x) \/ loadReviewExecutorPublishContext(x) \/ runClaimedReview(x)
  \/ \E o \in RecordOps : takePublishOnce(x, o) \/ LabelsInPlace(x, o) \/ PrepareProgress(x, o)
  \/ ArmOnce(x) \/ SendAccepted(x) \/ OnceReturns(x)
  \/ CheckLease(x) \/ WriteRecord(x) \/ RecordRejected(x) \/ ReviewDone(x)
  \/ AttemptDies(x) \/ LeaseRevives(x)

RecordNext ==
  \/ \E x \in RecordRuns : AttemptStep(x)
  \/ \E i \in Items : AckRecords(i) \/ IntakeProgressRow(i)
  \/ LeaseLapses

RecordsSpec == RecordInit /\ [][RecordNext]_recordVars

-----------------------------------------------------------------------------
(* Properties *)

RowBatches == LET row == prRows["inline_review"] IN {row.batches[n] : n \in DOMAIN row.batches}

RecordsTypeOK ==
  /\ prLease \in LeaseRow /\ prRows \in [PublishSteps -> RecordRow]
  /\ DOMAIN prIntents \subseteq RecordOps
  /\ \A o \in DOMAIN prIntents : prIntents[o] \in
       [status: {"pending", "reconciled", "unknown"}, mutating: BOOLEAN, result: BOOLEAN]
  /\ prAccepted \subseteq RecordOps /\ prEnded \subseteq Items /\ prTold \subseteq RecordBatches

\* A batch whose recording returned is in the row, once, whichever items have owned the
\* row since; only a lease that lapsed and was renewed around the write can lose one.
BatchesKept ==
  /\ prRevived \/ prTold \subseteq RowBatches
  /\ LET row == prRows["inline_review"]
     IN  \A m, n \in DOMAIN row.batches : row.batches[m] = row.batches[n] => m = n

\* What the row and an attempt hold was carried out by GitHub, and an attempt resumes
\* no other item's batch.
ResumedIsReal ==
  /\ \A b \in RowBatches :
       [step |-> "inline_review", item |-> BatchItem[b], key |-> b] \in prAccepted
  /\ \A x \in RecordRuns : \A b \in prRuns[x].resumed :
       BatchItem[b] = prRuns[x].item /\ b \in RowBatches

\* A reconciled intent is about a mutation that was carried out, except labels that the
\* same item had found in place before.
ReconciledWasDone ==
  \A o \in DOMAIN prIntents :
    prIntents[o].status = "reconciled" =>
      o \in prAccepted \/ (o.step = "labels" /\ o.item \in prSynced)

\* A review that ends, by its receipt or by the end of its attempt, has its summary.
EndedHasSummary == \A i \in prEnded : SummaryOf(i) \in prAccepted

\* A record of an older epoch never replaces one of a newer, and a batch list only grows.
RowsMoveOn ==
  [][\A s \in PublishSteps :
       /\ prRows'[s].epoch >= prRows[s].epoch
       /\ SubSeq(prRows'[s].batches, 1, Len(prRows[s].batches)) = prRows[s].batches]_recordVars

\* While the inline row is still the item's own, an attempt resumes every batch that
\* the item recorded.
NothingForgotten ==
  [][\A x \in RecordRuns :
       AttemptAt(x, "load") /\ prRuns'[x].pc = "receipt"
         /\ prRows["inline_review"].item = prRuns[x].item /\ ~prRevived =>
         {b \in prTold : BatchItem[b] = prRuns[x].item} \subseteq prRuns'[x].resumed]_recordVars

\* What attempts record and read of each other is true: batches are kept and real,
\* reconciled intents and ended reviews were carried out, and rows only move on.
RecordsSound ==
  /\ [](RecordsTypeOK /\ BatchesKept /\ ResumedIsReal /\ ReconciledWasDone /\ EndedHasSummary)
  /\ RowsMoveOn /\ NothingForgotten
=============================================================================
