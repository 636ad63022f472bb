-------------------------- MODULE ProgressComment --------------------------
(***************************************************************************)
(* The one progress comment of a pull request and everybody who writes it: *)
(* the acknowledgement's stub, the review's ticks and its conclusion, and  *)
(* the cancellation notice.  Writers serialise on a session advisory lock  *)
(* (db/sessionLock.ts) that lives in a connection of a bounded pool, and   *)
(* ownership of the comment moves to a replacement review without it.      *)
(***************************************************************************)
EXTENDS Integers, Sequences, FiniteSets

CONSTANTS
  MaxProgressItems,  \* reviews of the pull request, the later replaces (bound)
  MaxTick,           \* ticks of one review; MaxTick + 1 is its conclusion
  PoolMax,           \* pool.options.max
  MaxOtherLocks,     \* locks of other pull requests held at once (bound)
  MaxProgressFaults  \* failed queries, lost answers, lost sessions (bound)

ASSUME ProgressAssumption ==
  /\ MaxProgressItems \in Nat \ {0} /\ MaxTick \in Nat
  /\ PoolMax \in Nat \ {0, 1} /\ MaxProgressFaults \in Nat /\ MaxOtherLocks \in Nat

VARIABLES
  pcItems,     \* reviews created so far
  pcCancelled, \* those cancelled
  pcRow,       \* the progress_comment publish record
  pcComments,  \* comments with the sentinel on GitHub
  pcWriter,    \* writer -> its progress
  pcReserved,  \* reservation.count of the pool
  pcOthers,    \* holders of locks of other pull requests
  pcLock,      \* the writer whose session holds the lock
  pcFaults, pcLostSession

progressVars == <<pcItems, pcCancelled, pcRow, pcComments, pcWriter,
                  pcReserved, pcOthers, pcLock, pcFaults, pcLostSession>>

ProgressWriters == {"ack", "work", "cancel"} \X (1..MaxProgressItems)
Conclusion == MaxTick + 1
NoComment == [item |-> 0, rev |-> -1]
Nobody == <<"none", 0>>
RestingWriter == [at |-> "idle", rev |-> 0, seen |-> NoComment, target |-> 0, live |-> FALSE]

ProgressInit ==
  /\ pcItems = 0 /\ pcCancelled = {} /\ pcComments = <<>>
  /\ pcRow = [owner |-> 0, rev |-> -1]
  /\ pcWriter = [w \in ProgressWriters |-> RestingWriter]
  /\ pcReserved = 0 /\ pcOthers = 0 /\ pcLock = Nobody
  /\ pcFaults = 0 /\ pcLostSession = FALSE

ProgressFault == pcFaults < MaxProgressFaults /\ pcFaults' = pcFaults + 1

Shown == IF pcComments = <<>> THEN NoComment ELSE Head(pcComments)
InUse == pcOthers + Cardinality({w \in ProgressWriters : pcWriter[w].live})

Becomes(w, writer) == pcWriter' = [pcWriter EXCEPT ![w] = writer]

-----------------------------------------------------------------------------
(* withSessionLock *)

Capacity_Whole == PoolMax

(* Half of the pool may sit on locks: the rest serves nested queries.      *)
Capacity == PoolMax \div 2

(* A free place is reserved before the pool is asked for a connection.     *)
ReservePlaces(w) ==
  /\ pcWriter[w].at = "waiting" /\ pcReserved < Capacity
  /\ pcReserved' = pcReserved + 1
  /\ Becomes(w, [pcWriter[w] EXCEPT !.at = "reserved"])
  /\ UNCHANGED <<pcItems, pcCancelled, pcRow, pcComments, pcOthers, pcLock, pcFaults, pcLostSession>>

(* The deadline passes between two tries: timeoutError, nothing is held.   *)
GivesUp(w) ==
  /\ pcWriter[w].at = "waiting"
  /\ Becomes(w, [RestingWriter EXCEPT !.at = "failed", !.rev = pcWriter[w].rev])
  /\ UNCHANGED <<pcItems, pcCancelled, pcRow, pcComments, pcReserved, pcOthers, pcLock, pcFaults, pcLostSession>>

Connect(w) ==
  /\ pcWriter[w].at = "reserved" /\ InUse < PoolMax
  /\ Becomes(w, [pcWriter[w] EXCEPT !.at = "connected", !.live = TRUE])
  /\ UNCHANGED <<pcItems, pcCancelled, pcRow, pcComments, pcReserved, pcOthers, pcLock, pcFaults, pcLostSession>>

PlacesAfterRelease_Kept == pcReserved

(* Every release returns its reservation, whatever failed before.          *)
PlacesAfterRelease == pcReserved - 1

LockTaken_Never == FALSE

LockTaken == pcLock # Nobody

LateLock_Pooled(w) == pcLock' = w

(* A lock query that failed or came back after the deadline may have       *)
(* granted the lock: the connection is destroyed, and the lock with it.    *)
LateLock(w) == pcLock' = pcLock

(* pg_try_advisory_lock: taken, contended (the connection goes back and    *)
(* the wait goes on), or failed.                                           *)
TryLock(w) ==
  /\ pcWriter[w].at = "connected"
  /\ \/ /\ ~LockTaken
        /\ pcLock' = w
        /\ Becomes(w, [pcWriter[w] EXCEPT !.at = "locked"])
        /\ UNCHANGED <<pcReserved, pcFaults>>
     \/ /\ LockTaken
        /\ pcReserved' = PlacesAfterRelease
        /\ Becomes(w, [pcWriter[w] EXCEPT !.at = "waiting", !.live = FALSE])
        /\ UNCHANGED <<pcLock, pcFaults>>
     \/ /\ ProgressFault /\ ~LockTaken /\ LateLock(w)
        /\ pcReserved' = PlacesAfterRelease
        /\ Becomes(w, [RestingWriter EXCEPT !.at = "failed", !.rev = pcWriter[w].rev])
  /\ UNCHANGED <<pcItems, pcCancelled, pcRow, pcComments, pcOthers, pcLostSession>>

(* After apply: unlock, and destroy the connection if that fails; either   *)
(* way the session gives the lock up and the reservation is returned.      *)
Unlock(w) ==
  /\ pcWriter[w].at \in {"unlock", "error"}
  /\ pcLock' = IF pcLock = w THEN Nobody ELSE pcLock
  /\ pcReserved' = PlacesAfterRelease
  /\ Becomes(w, [RestingWriter EXCEPT !.rev = pcWriter[w].rev,
                   !.at = IF pcWriter[w].at = "unlock" THEN "done" ELSE "failed"])
  /\ UNCHANGED <<pcItems, pcCancelled, pcRow, pcComments, pcOthers, pcFaults, pcLostSession>>

(* Writers of other pull requests hold locks too; to finish they need a    *)
(* nested query's connection.                                              *)
OtherTakes ==
  /\ pcOthers < MaxOtherLocks /\ pcReserved < Capacity /\ InUse < PoolMax
  /\ pcReserved' = pcReserved + 1 /\ pcOthers' = pcOthers + 1
  /\ UNCHANGED <<pcItems, pcCancelled, pcRow, pcComments, pcWriter, pcLock, pcFaults, pcLostSession>>
OtherEnds ==
  /\ pcOthers > 0 /\ InUse < PoolMax
  /\ pcReserved' = PlacesAfterRelease /\ pcOthers' = pcOthers - 1
  /\ UNCHANGED <<pcItems, pcCancelled, pcRow, pcComments, pcWriter, pcLock, pcFaults, pcLostSession>>

(* The session dies with its connection: the lock is gone, its holder is   *)
(* not told before its next query.                                         *)
SessionLost(w) ==
  /\ pcLock = w /\ ProgressFault
  /\ pcLock' = Nobody /\ pcLostSession' = TRUE
  /\ UNCHANGED <<pcItems, pcCancelled, pcRow, pcComments, pcWriter, pcReserved, pcOthers>>

-----------------------------------------------------------------------------
(* Upsert at a revision, under the lock. *)

findProgressComment(w) ==
  /\ pcWriter[w].at = "locked"
  /\ Becomes(w, [pcWriter[w] EXCEPT !.at = "found", !.seen = Shown])
  /\ UNCHANGED <<pcItems, pcCancelled, pcRow, pcComments, pcReserved, pcOthers, pcLock, pcFaults, pcLostSession>>

ForeignOwner_Ignored(w) == FALSE

(* The record belongs to another review: getProgressCommentOwner.          *)
ForeignOwner(w) == pcRow.owner # 0 /\ pcRow.owner # w[2]

AlreadyThere_Never(w) == FALSE

(* The comment, or the record, shows this revision of this review already. *)
AlreadyThere(w) ==
  LET me == pcWriter[w] IN
  \/ me.seen.item = w[2] /\ me.seen.rev >= me.rev
  \/ pcRow.owner = w[2] /\ pcRow.rev > me.rev

(* recordPublishStep of the progress comment: the ownership gate.          *)
MayRecord(w) == ~ForeignOwner(w)
recordProgress(w) == pcRow' = [owner |-> w[2], rev |-> pcWriter[w].rev]

(* prepareSummaryCommentAtRevision: skip, or record and write.             *)
prepareSummaryCommentAtRevision(w) ==
  /\ pcWriter[w].at = "found"
  /\ CASE pcLock # w -> /\ Becomes(w, [pcWriter[w] EXCEPT !.at = "error"]) /\ UNCHANGED pcRow
       [] pcLock = w /\ (ForeignOwner(w) \/ AlreadyThere(w)) ->
            /\ Becomes(w, [pcWriter[w] EXCEPT !.at = "unlock", !.seen = NoComment]) /\ UNCHANGED pcRow
       [] OTHER ->
            /\ recordProgress(w)
            /\ Becomes(w, [pcWriter[w] EXCEPT !.at = "prepared", !.seen = NoComment])
  /\ UNCHANGED <<pcItems, pcCancelled, pcComments, pcReserved, pcOthers, pcLock, pcFaults, pcLostSession>>

(* upsertSummaryCommentWithoutRevision: the known comment, or a scan; the  *)
(* claim of its creation only decides whether to poll for the id before    *)
(* the scan.  A leased surface's own reads need a second connection.       *)
upsertSummaryCommentWithoutRevision(w) ==
  /\ pcWriter[w].at = "prepared" /\ InUse < PoolMax
  /\ Becomes(w, IF pcLock # w
                  THEN [pcWriter[w] EXCEPT !.at = "error"]
                  ELSE [pcWriter[w] EXCEPT !.at = "resolved", !.target = Len(pcComments)])
  /\ UNCHANGED <<pcItems, pcCancelled, pcRow, pcComments, pcReserved, pcOthers, pcLock, pcFaults, pcLostSession>>

(* upsertReviewSummaryComment: edit or create; the answer may be lost.     *)
upsertReviewSummaryComment(w) ==
  LET body == [item |-> w[2], rev |-> pcWriter[w].rev] IN
  /\ pcWriter[w].at = "resolved"
  /\ pcComments' = IF pcWriter[w].target = 0 THEN Append(pcComments, body)
                                             ELSE [pcComments EXCEPT ![1] = body]
  /\ \/ Becomes(w, [pcWriter[w] EXCEPT !.at = "sent", !.target = 0]) /\ UNCHANGED pcFaults
     \/ Becomes(w, [pcWriter[w] EXCEPT !.at = "error"]) /\ ProgressFault
  /\ UNCHANGED <<pcItems, pcCancelled, pcRow, pcReserved, pcOthers, pcLock, pcLostSession>>

RecordSent(w) ==
  /\ pcWriter[w].at = "sent"
  /\ IF pcLock = w /\ MayRecord(w)
       THEN /\ recordProgress(w)
            /\ Becomes(w, [pcWriter[w] EXCEPT !.at = "unlock"])
       ELSE Becomes(w, [pcWriter[w] EXCEPT !.at = "error"]) /\ UNCHANGED pcRow
  /\ UNCHANGED <<pcItems, pcCancelled, pcComments, pcReserved, pcOthers, pcLock, pcFaults, pcLostSession>>

-----------------------------------------------------------------------------
(* Who writes. *)

(* Intake creates a review and hands it the comment, without the lock.     *)
transferProgressCommentOwnership ==
  /\ pcItems < MaxProgressItems
  /\ pcItems' = pcItems + 1
  /\ pcRow' = [pcRow EXCEPT !.owner = pcItems + 1, !.rev = -1]
  /\ UNCHANGED <<pcCancelled, pcComments, pcWriter, pcReserved, pcOthers, pcLock, pcFaults, pcLostSession>>

CancelReview(i) ==
  /\ i \in 1..pcItems \ pcCancelled
  /\ pcCancelled' = pcCancelled \cup {i}
  /\ UNCHANGED <<pcItems, pcRow, pcComments, pcWriter, pcReserved, pcOthers, pcLock, pcFaults, pcLostSession>>

(* publishAckProgress once canAckPublishProgress agreed.                   *)
publishAckProgress(i) ==
  /\ i \in 1..pcItems \ pcCancelled /\ pcRow.owner = i
  /\ pcWriter[<<"ack", i>>].at = "idle"
  /\ Becomes(<<"ack", i>>, [RestingWriter EXCEPT !.at = "waiting"])
  /\ UNCHANGED <<pcItems, pcCancelled, pcRow, pcComments, pcReserved, pcOthers, pcLock, pcFaults, pcLostSession>>

(* tickProgressComment, and at the end the conclusion: a failed tick is    *)
(* logged and the next one follows.                                        *)
tickProgressComment(i) ==
  LET w == <<"work", i>> IN
  /\ i \in 1..pcItems /\ pcWriter[w].at \in {"idle", "done", "failed"}
  /\ pcWriter[w].rev < Conclusion
  /\ Becomes(w, [RestingWriter EXCEPT !.at = "waiting", !.rev = pcWriter[w].rev + 1])
  /\ UNCHANGED <<pcItems, pcCancelled, pcRow, pcComments, pcReserved, pcOthers, pcLock, pcFaults, pcLostSession>>

(* publishCancelProgress reads the comment without the lock: its own stub  *)
(* is edited in place, any other goes through a tick.                      *)
publishCancelProgress(i) ==
  LET w == <<"cancel", i>> IN
  /\ i \in pcCancelled /\ pcWriter[w].at = "idle"
  /\ Becomes(w, IF Shown # NoComment /\ Shown.item = i
                  THEN [RestingWriter EXCEPT !.at = "editing", !.rev = Shown.rev]
                  ELSE [RestingWriter EXCEPT !.at = "waiting"])
  /\ UNCHANGED <<pcItems, pcCancelled, pcRow, pcComments, pcReserved, pcOthers, pcLock, pcFaults, pcLostSession>>

CancelEdits(i) ==
  LET w == <<"cancel", i>> IN
  /\ pcWriter[w].at = "editing"
  /\ pcComments' = [pcComments EXCEPT ![1] = [item |-> i, rev |-> pcWriter[w].rev]]
  /\ Becomes(w, [RestingWriter EXCEPT !.at = "done"])
  /\ UNCHANGED <<pcItems, pcCancelled, pcRow, pcReserved, pcOthers, pcLock, pcFaults, pcLostSession>>

WriterStep(w) ==
  \/ ReservePlaces(w) \/ GivesUp(w) \/ Connect(w) \/ TryLock(w) \/ Unlock(w)
  \/ findProgressComment(w) \/ prepareSummaryCommentAtRevision(w)
  \/ upsertSummaryCommentWithoutRevision(w) \/ upsertReviewSummaryComment(w)
  \/ RecordSent(w)

ProgressNext ==
  \/ transferProgressCommentOwnership
  \/ OtherTakes \/ OtherEnds
  \/ \E w \in ProgressWriters : WriterStep(w) \/ SessionLost(w)
  \/ \E i \in 1..MaxProgressItems :
       \/ CancelReview(i) \/ publishAckProgress(i) \/ tickProgressComment(i)
       \/ publishCancelProgress(i) \/ CancelEdits(i)

(* A writer that is running gets its turns; a holder elsewhere ends once   *)
(* it gets its nested connection.                                          *)
ProgressFair ==
  /\ \A w \in ProgressWriters : WF_progressVars(WriterStep(w))
  /\ WF_progressVars(OtherEnds)

ProgressSpec == ProgressInit /\ [][ProgressNext]_progressVars /\ ProgressFair

-----------------------------------------------------------------------------
(* Properties *)

\* The places of the pool are never overdrawn and the lock has one holder at most.
ProgressTypeOK ==
  /\ pcItems \in 0 .. MaxProgressItems /\ pcCancelled \subseteq 1 .. pcItems
  /\ pcRow.owner \in 0 .. pcItems /\ pcRow.rev \in -1 .. Conclusion
  /\ \A i \in DOMAIN pcComments : pcComments[i].item \in 1 .. pcItems
  /\ \A w \in ProgressWriters : pcWriter[w].at \in
       {"idle", "waiting", "reserved", "connected", "locked", "prepared", "found", "resolved",
        "editing", "sent", "unlock", "done", "failed", "error"}
  /\ pcReserved \in 0 .. PoolMax /\ pcOthers \in 0 .. MaxOtherLocks
  /\ pcLock \in ProgressWriters \cup {Nobody}
  /\ pcFaults \in 0 .. MaxProgressFaults /\ pcLostSession \in BOOLEAN

(* Concurrent writers, lost answers and failed records leave one progress  *)
(* comment on the pull request, as long as no lock session is lost.        *)
OneProgressComment == ~pcLostSession => Len(pcComments) <= 1

CancelEdited == \E i \in 1..MaxProgressItems : pcWriter[<<"cancel", i>>].at = "editing"
                                             /\ pcWriter'[<<"cancel", i>>].at = "done"

(* No write takes the comment back to an earlier revision of the same      *)
(* review: a late stub does not undo a tick, a late tick not the           *)
(* conclusion.  (The cancellation notice replaces what it read.)           *)
RevisionsAdvance ==
  [][(Shown.item = Shown'.item /\ ~CancelEdited /\ ~pcLostSession)
       => Shown'.rev >= Shown.rev]_progressVars

(* Once the replacement review has written the comment, no write of the    *)
(* earlier one replaces it, although ownership moves without the lock.     *)
ReplacementKeepsComment ==
  [][~CancelEdited /\ ~pcLostSession => Shown'.item >= Shown.item]_progressVars

(* The lock is never left with a connection that went back to the pool or  *)
(* that nobody holds.                                                      *)
LockHasHolder == pcLock # Nobody => pcWriter[pcLock].live

(* reservation.count is exactly the places taken, and leaves the other     *)
(* half of the pool to nested queries.                                     *)
ReservationsExact ==
  /\ pcReserved = pcOthers + Cardinality({w \in ProgressWriters :
                    pcWriter[w].at \notin {"idle", "waiting", "failed", "done", "editing"}})
  /\ pcReserved <= Capacity

(* Every writer that waits for the lock comes to an end, also when holders *)
(* of other locks fill their share of the pool.                            *)
WritersEnd ==
  \A w \in ProgressWriters :
    (pcWriter[w].at = "waiting") ~> (pcWriter[w].at \in {"done", "failed"})

(* What the session lock is for: a pull request has one progress comment,  *)
(* its revisions never go back and a replaced review never takes it again. *)
ProgressCommentSound ==
  /\ [](ProgressTypeOK /\ OneProgressComment)
  /\ RevisionsAdvance
  /\ ReplacementKeepsComment

(* The lock and its half of the pool are given back by whoever had them.   *)
LockSound == LockHasHolder /\ ReservationsExact

=============================================================================
