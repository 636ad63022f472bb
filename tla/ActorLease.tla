----------------------------- MODULE ActorLease -----------------------------
(***************************************************************************)
(* The pr_actor_leases row of one (resource, work type) and the SQL        *)
(* statements of prActorLease.ts over it.  A row carries a monotonic       *)
(* lease_epoch, the work item that holds it, and expires_at, which the     *)
(* model keeps only as the answer to "expires_at > now()".                 *)
(*                                                                         *)
(* Every operator maps a row to a row (or to a Boolean): one statement of  *)
(* the source is one atomic update, and the modules that extend this one   *)
(* decide when it runs.                                                    *)
(***************************************************************************)
EXTENDS Naturals

CONSTANTS Items,      \* work items of the one (resource, work type)
          NoItem      \* SQL NULL in work_item_id

ASSUME NoItemAssumption == NoItem \notin Items

\* A row as the source can store it; epoch 0 stands for "no row yet".
LeaseRow == [epoch: Nat, holder: Items \cup {NoItem}, live: BOOLEAN]

NoLease == [epoch |-> 0, holder |-> NoItem, live |-> FALSE]

\* Mutant: the conflict update forgets that a lapsed row is free.
Acquirable_NoExpiry(row) == row.holder = NoItem

\* ON CONFLICT ... WHERE work_item_id IS NULL OR expires_at <= now()
Acquirable(row) == row.holder = NoItem \/ ~row.live

\* Mutant: re-entrant acquisition, an item that takes its own row back keeps the epoch.
acquirePrActorLease_Reentrant(row, i) ==
  [epoch |-> IF row.holder = i THEN row.epoch ELSE row.epoch + 1, holder |-> i, live |-> TRUE]

\* The insert writes epoch 1, the conflict update writes lease_epoch + 1.
acquirePrActorLease(row, i) ==
  [epoch |-> row.epoch + 1, holder |-> i, live |-> TRUE]

\* The renewal matches the key, the epoch and the item, and never reads expires_at.
Renewable(row, i, e) == row.holder = i /\ row.epoch = e

renewPrActorLease(row) == [row EXCEPT !.live = TRUE]

\* Clears the holder and expires the row; the epoch stays as it is.
Cleared(row) == [row EXCEPT !.holder = NoItem, !.live = FALSE]

\* The worker's own release names the key and the epoch, not the item.
releasePrActorLease(row, e) == IF row.epoch = e THEN Cleared(row) ELSE row

\* Intake's release names exact (work item, epoch) pairs.
releasePrActorLeaseHeldByWorkItems(row, pairs) ==
  IF <<row.holder, row.epoch>> \in pairs THEN Cleared(row) ELSE row

\* Mutant: the fence asks for the item only.
isPrActorLeaseHeld_AnyEpoch(row, i, e) == row.holder = i /\ row.live

\* The fence of every durable write: holder, epoch and an unexpired row.
isPrActorLeaseHeld(row, i, e) == row.holder = i /\ row.epoch = e /\ row.live

=============================================================================
