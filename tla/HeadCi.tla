------------------------------- MODULE HeadCi -------------------------------
(***************************************************************************)
(* The CI state of one head and its projection into the review summary     *)
(* comment: webhook facts and GitHub listings merged into pr_head_ci_state *)
(* under its row lock, ci-projection jobs that read, re-read and edit the  *)
(* comment without any lock, and the review's own writes of that comment,  *)
(* which race them.  A fact is its observation time and its class; a body  *)
(* is its marker version, what its CI cell shows and its progress          *)
(* revision.  A statement or a GitHub call of a job is a step.             *)
(***************************************************************************)
EXTENDS Naturals, FiniteSets, FiniteSetsExt

CONSTANTS
  CheckNames,     \* names of checks
  MaxChecks,      \* CI_STATE_MAX_CHECKS
  Projectors,     \* concurrent ci-projection handlers
  LastRevision,   \* progress revision of the concluded summary
  MaxCiEvents,    \* changes on GitHub, signals and failures in all (a bound)
  MaxCiQueued     \* debounce slots holding a job: the current one and the next

ASSUME HeadCiAssumption ==
  /\ MaxChecks \in Nat \ {0} /\ LastRevision \in Nat \ {0}
  /\ MaxCiEvents \in Nat /\ MaxCiQueued \in Nat \ {0}

VARIABLES
  ciRow,     \* the pr_head_ci_state row
  ciGithub,  \* the checks as GitHub lists them, and its clock
  ciHooks,   \* check_run and status deliveries on their way
  ciNewest,  \* per name, the newest observation intake has been given
  ciQueue,   \* queued ci-projection jobs
  ciRun,     \* the running job of each projector
  ciNote,    \* the review summary comment
  ciReview,  \* the review's next write of that comment
  ciEvents   \* events so far, and whether a failure has cost a job

headCiVars == <<ciRow, ciGithub, ciHooks, ciNewest, ciQueue, ciRun, ciNote, ciReview, ciEvents>>

-----------------------------------------------------------------------------
(* Facts and rows *)

Classes == {"pending", "passing", "failing"}

NoFact == [at |-> 0, cls |-> "absent"]

CiFact == [at: Nat, cls: Classes]

Stored(checks) == {n \in CheckNames : checks[n] # NoFact}

classifySnapshot(checks) ==
  IF Stored(checks) = {} THEN "none"
  ELSE IF \E n \in CheckNames : checks[n].cls = "failing" THEN "failing"
  ELSE IF \E n \in CheckNames : checks[n].cls = "pending" THEN "pending"
  ELSE "passing"

\* Mutant: the order of arrival decides.
Accepted_Any(checks, n, fact) == TRUE

Accepted(checks, n, fact) == checks[n] = NoFact \/ checks[n].at < fact.at

\* Mutant: facts are kept beyond the limit.
applyCiCheckFact_Unbounded(checks, n, fact) ==
  IF Accepted(checks, n, fact) THEN {[checks EXCEPT ![n] = fact]} ELSE {checks}

\* The checks after one more fact, the oldest other one evicted over the limit.
Evictable(checks, n) ==
  {m \in Stored(checks) \ {n} : \A k \in Stored(checks) \ {n} : checks[m].at <= checks[k].at}

\* Insertion order breaks a tie, so either of two equally old facts may go.
applyCiCheckFact(checks, n, fact) ==
  LET next == [checks EXCEPT ![n] = fact]
  IN  IF ~Accepted(checks, n, fact) THEN {checks}
      ELSE IF Cardinality(Stored(next)) <= MaxChecks THEN {next}
      ELSE {[next EXCEPT ![m] = NoFact] : m \in Evictable(next, n)}

\* Mutant: an incomplete listing says nothing at all.
coerceRollupForIncompleteListing_Any(rollup, complete) ==
  IF ~complete THEN "unknown" ELSE rollup

coerceRollupForIncompleteListing(rollup, complete) ==
  IF ~complete /\ rollup \in {"none", "passing"} THEN "unknown" ELSE rollup

NoRow == [present |-> FALSE, seeded |-> FALSE, checks |-> [n \in CheckNames |-> NoFact],
          rollup |-> "none", version |-> 0, truncated |-> FALSE, repair |-> FALSE]

\* A claim-time render of an unseeded head says it waits for CI.
Rendered(row) == IF row.seeded THEN row.rollup ELSE "waiting"

\* The debounced request: a job joins the current slot, the next one, or finds both
\* taken, which a job that has still to start does.
requestHeadCiProjection ==
  \/ ciQueue < MaxCiQueued /\ ciQueue' = ciQueue + 1
  \/ ciQueue > 0 /\ ciQueue' = ciQueue

CiEvent == ciEvents.n < MaxCiEvents /\ ciEvents' = [ciEvents EXCEPT !.n = @ + 1]

\* A failure that ends the job without its work.
Lost == ciEvents.n < MaxCiEvents /\ ciEvents' = [n |-> ciEvents.n + 1, lost |-> TRUE]

HeadCiInit ==
  /\ ciRow = NoRow
  /\ ciGithub = [facts |-> [n \in CheckNames |-> NoFact], now |-> 1]
  /\ ciHooks = {}
  /\ ciNewest = [n \in CheckNames |-> 0]
  /\ ciQueue = 0
  /\ ciRun = [p \in Projectors |-> [pc |-> "idle"]]
  /\ ciNote = [v |-> 0, shown |-> "absent", rev |-> 0]
  /\ ciReview = [pc |-> "idle", rev |-> 0]
  /\ ciEvents = [n |-> 0, lost |-> FALSE]

-----------------------------------------------------------------------------
(* GitHub and intake *)

\* A check starts, finishes or is run again; its completion may carry the second its
\* start was stamped with.
CheckMoves(n, cls, tick) ==
  /\ CiEvent
  /\ cls = "pending" <=> ciGithub.facts[n].cls # "pending"
  /\ LET at == ciGithub.now + tick
         fact == [at |-> at, cls |-> cls]
     IN  /\ ciGithub' = [ciGithub EXCEPT !.facts[n] = fact, !.now = at]
         /\ ciHooks' = ciHooks \cup {[name |-> n, fact |-> fact]}
  /\ UNCHANGED <<ciRow, ciNewest, ciQueue, ciRun, ciNote, ciReview>>

\* The row an accepted fact leaves.
applyPrHeadCiFact(row, n, fact, checks) ==
  [row EXCEPT !.present = TRUE, !.checks = checks, !.rollup = classifySnapshot(checks),
              !.version = @ + 1,
              !.truncated = @ \/ Cardinality(Stored(checks)) < Cardinality(Stored(row.checks) \cup {n})]

\* A delivery is applied once: a second one with its key is a duplicate.  One that never
\* comes stays in ciHooks.
applyCiStateIntake(h) ==
  /\ h \in ciHooks
  /\ ciHooks' = ciHooks \ {h}
  /\ ciNewest' = [ciNewest EXCEPT ![h.name] = Max({@, h.fact.at})]
  /\ \/ /\ Accepted(ciRow.checks, h.name, h.fact)
        /\ \E checks \in applyCiCheckFact(ciRow.checks, h.name, h.fact) :
             ciRow' = applyPrHeadCiFact(ciRow, h.name, h.fact, checks)
        /\ requestHeadCiProjection
     \/ /\ ~Accepted(ciRow.checks, h.name, h.fact)
        /\ ciRow' = [ciRow EXCEPT !.present = TRUE]
        /\ UNCHANGED ciQueue
  /\ UNCHANGED <<ciGithub, ciRun, ciNote, ciReview, ciEvents>>

\* A completed workflow run, or a pull request event of a head that needs its seed.
applyCompletedRunCiIntake ==
  /\ CiEvent
  /\ requestHeadCiProjection
  /\ UNCHANGED <<ciRow, ciGithub, ciHooks, ciNewest, ciRun, ciNote, ciReview>>

\* A verification signal that changes anything advances the revision.
writeVerificationSignal ==
  /\ CiEvent
  /\ ciRow' = [ciRow EXCEPT !.present = TRUE, !.version = @ + 1]
  /\ requestHeadCiProjection
  /\ UNCHANGED <<ciGithub, ciHooks, ciNewest, ciRun, ciNote, ciReview>>

-----------------------------------------------------------------------------
(* The projection job *)

Ends(p) == ciRun' = [ciRun EXCEPT ![p] = [pc |-> "idle"]]

\* What the job keeps of a row: its revision and what its cell says.
Cell(row) == [version |-> row.version, shown |-> Rendered(row)]

headCiListingPhase(row) ==
  IF ~row.seeded THEN "seed"
  ELSE IF row.rollup = "unknown" \/ \E n \in CheckNames : row.checks[n].cls = "pending"
    THEN "pending-refresh"
  ELSE "none"

\* The job takes its place in a handler and reads the row, after storePrNumbersForHead
\* has inserted a missing one; or finds the rate-limit circuit open and defers itself; or
\* finds the installation denied and gives the repair up.
StartProjection(p) ==
  /\ ciRun[p].pc = "idle" /\ ciQueue > 0
  /\ \/ /\ ciQueue' = ciQueue - 1
        /\ ciRow' = [ciRow EXCEPT !.present = TRUE]
        /\ LET phase == headCiListingPhase(ciRow)
           IN  ciRun' = [ciRun EXCEPT ![p] = [pc |-> IF phase = "none" THEN "list" ELSE "listing",
                                              phase |-> phase, row |-> Cell(ciRow)]]
        /\ UNCHANGED ciEvents
     \/ CiEvent /\ UNCHANGED <<ciRow, ciQueue, ciRun>>
     \/ /\ ciQueue' = ciQueue - 1
        /\ Lost
        /\ ciRow' = [ciRow EXCEPT !.repair = FALSE]
        /\ UNCHANGED ciRun
  /\ UNCHANGED <<ciGithub, ciHooks, ciNewest, ciNote, ciReview>>

\* getCiStatus.  A failed seed ends the job, a failed refresh asks for another job and
\* goes on with the row it has.
ListChecks(p) ==
  /\ ciRun[p].pc = "listing"
  /\ \/ /\ \E complete \in BOOLEAN :
             /\ ciRun' = [ciRun EXCEPT ![p] = [pc |-> "merge", phase |-> ciRun[p].phase,
                                              complete |-> complete, snapshot |-> ciGithub.facts]]
             /\ IF complete THEN UNCHANGED ciEvents ELSE CiEvent
        /\ UNCHANGED ciQueue
     \/ /\ ciRun[p].phase = "seed"
        /\ Lost
        /\ Ends(p)
        /\ UNCHANGED ciQueue
     \/ /\ ciRun[p].phase = "pending-refresh"
        /\ CiEvent
        /\ requestHeadCiProjection
        /\ ciRun' = [ciRun EXCEPT ![p] = [pc |-> "list", row |-> @.row]]
  /\ UNCHANGED <<ciRow, ciGithub, ciHooks, ciNewest, ciNote, ciReview>>

\* The first listing is stamped with the epoch, so that any delivery wins over it.
SeedFact(fact) == IF fact = NoFact THEN NoFact ELSE [fact EXCEPT !.at = 0]

\* The names of a listing are applied one after the other, in the listing's order.
MergeOrders == {o \in [1 .. Cardinality(CheckNames) -> CheckNames] :
                  \A i, j \in DOMAIN o : o[i] = o[j] => i = j}

isMaterialCiFactChange(old, fact) == old.cls # fact.cls

MergeName(acc, n, fact) ==
  IF fact = NoFact \/ ~Accepted(acc.checks, n, fact) THEN {acc}
  ELSE {[checks |-> checks,
         dropped |-> acc.dropped \/ \E m \in Stored(acc.checks) : checks[m] = NoFact,
         material |-> acc.material \/ isMaterialCiFactChange(acc.checks[n], fact)]
          : checks \in applyCiCheckFact(acc.checks, n, fact)}

\* What one listing may make of the stored checks.
mergeGithubSnapshotIntoChecks(row, snapshot, seed) ==
  LET fact(n) == IF seed THEN SeedFact(snapshot[n]) ELSE snapshot[n]
      start == {[checks |-> row.checks, dropped |-> row.truncated, material |-> FALSE]}
  IN  UNION {LET merged[i \in 0 .. Cardinality(CheckNames)] ==
                   IF i = 0 THEN start
                   ELSE UNION {MergeName(acc, o[i], fact(o[i])) : acc \in merged[i - 1]}
             IN  merged[Cardinality(CheckNames)] : o \in MergeOrders}

ListedRollup(m, complete) == coerceRollupForIncompleteListing(classifySnapshot(m.checks), complete)

\* Mutant: an empty or already known listing seeds the head without a new revision.
Seeded_SameVersion(row, m, complete) ==
  IF row.seeded THEN row
  ELSE [row EXCEPT !.checks = m.checks, !.seeded = TRUE, !.truncated = m.dropped,
                   !.version = IF m.checks = row.checks THEN @ ELSE @ + 1,
                   !.rollup = ListedRollup(m, complete)]

\* seedPrHeadCiStateFromSnapshot: the first seed wins and always advances the revision.
Seeded(row, m, complete) ==
  IF row.seeded THEN row
  ELSE [row EXCEPT !.checks = m.checks, !.seeded = TRUE, !.truncated = m.dropped,
                   !.version = @ + 1, !.rollup = ListedRollup(m, complete)]

\* refreshPrHeadCiFromGithubSnapshot: a material change or another rollup advances the
\* revision; a refresh that changes neither stores its newer stamps no more than the rest.
Refreshed(row, m, complete) ==
  LET rollup == ListedRollup(m, complete)
      moved == m.material \/ rollup # row.rollup
  IN  IF ~moved /\ m.dropped = row.truncated THEN row
      ELSE [row EXCEPT !.checks = m.checks, !.rollup = rollup, !.truncated = m.dropped,
                       !.version = IF moved THEN @ + 1 ELSE @]

\* The merge into the row as it is now, under its lock; the job goes on with the result.
MergeListing(p) ==
  /\ ciRun[p].pc = "merge"
  /\ LET seed == ciRun[p].phase = "seed"
     IN  \E m \in mergeGithubSnapshotIntoChecks(ciRow, ciRun[p].snapshot, seed) :
           ciRow' = IF seed THEN Seeded(ciRow, m, ciRun[p].complete)
                    ELSE Refreshed(ciRow, m, ciRun[p].complete)
  /\ ciRun' = [ciRun EXCEPT ![p] = [pc |-> "list", row |-> Cell(ciRow')]]
  /\ UNCHANGED <<ciGithub, ciHooks, ciNewest, ciQueue, ciNote, ciReview, ciEvents>>

\* aggregatePrResults, of the one pull request of the head.
Done(row, retry) == [pc |-> "done", row |-> row, retry |-> retry]

\* decideCiProjectionBodyUpdate, for the head the marker names.
NeedsUpdate(row, note) == note.shown # "absent" /\ note.v < row.version

\* projectOnePr, the first read of the comments.
ReadNote(p) ==
  /\ ciRun[p].pc = "list"
  /\ \/ /\ ciRun' = [ciRun EXCEPT ![p] =
                       IF NeedsUpdate(@.row, ciNote)
                       THEN [pc |-> "reread", row |-> @.row, rev |-> ciNote.rev]
                       ELSE Done(@.row, FALSE)]
        /\ UNCHANGED ciEvents
     \/ /\ CiEvent
        /\ ciRun' = [ciRun EXCEPT ![p] = Done(ciRun[p].row, TRUE)]
  /\ UNCHANGED <<ciRow, ciGithub, ciHooks, ciNewest, ciQueue, ciNote, ciReview>>

\* The second read, immediately before the write: a moved revision is a retry.
RereadNote(p) ==
  /\ ciRun[p].pc = "reread"
  /\ LET moved == ciNote.rev # ciRun[p].rev
     IN  \/ /\ ciRun' = [ciRun EXCEPT ![p] =
                           IF ~moved /\ NeedsUpdate(@.row, ciNote)
                           THEN [pc |-> "edit", row |-> @.row, rev |-> ciNote.rev]
                           ELSE Done(@.row, moved)]
            /\ UNCHANGED ciEvents
         \/ CiEvent /\ ciRun' = [ciRun EXCEPT ![p] = Done(@.row, TRUE)]
  /\ UNCHANGED <<ciRow, ciGithub, ciHooks, ciNewest, ciQueue, ciNote, ciReview>>

\* The edit writes the whole body it read, with the new cell in it.
EditNote(p) ==
  /\ ciRun[p].pc = "edit"
  /\ \/ /\ ciNote' = [v |-> ciRun[p].row.version, shown |-> ciRun[p].row.shown,
                     rev |-> ciRun[p].rev]
        /\ ciRun' = [ciRun EXCEPT ![p] = Done(@.row, FALSE)]
        /\ UNCHANGED ciEvents
     \/ /\ CiEvent
        /\ ciRun' = [ciRun EXCEPT ![p] = Done(@.row, TRUE)]
        /\ UNCHANGED ciNote
  /\ UNCHANGED <<ciRow, ciGithub, ciHooks, ciNewest, ciQueue, ciReview>>

\* The end of executeCiProjectionJob: another job when this one failed or the row has
\* moved on, else the repair is done.
FinishProjection(p) ==
  /\ ciRun[p].pc = "done"
  /\ Ends(p)
  /\ IF ciRun[p].retry \/ ciRow.version > ciRun[p].row.version
     THEN requestHeadCiProjection /\ UNCHANGED ciRow
     ELSE UNCHANGED ciQueue /\ ciRow' = [ciRow EXCEPT !.repair = FALSE]
  /\ UNCHANGED <<ciGithub, ciHooks, ciNewest, ciNote, ciReview, ciEvents>>

\* The worker dies or a statement throws: the queue runs the job again, or gives it up.
ProjectionDies(p) ==
  /\ ciRun[p].pc # "idle"
  /\ Ends(p)
  /\ \/ ciQueue < MaxCiQueued /\ ciQueue' = ciQueue + 1 /\ CiEvent
     \/ UNCHANGED ciQueue /\ Lost
  /\ UNCHANGED <<ciRow, ciGithub, ciHooks, ciNewest, ciNote, ciReview>>

\* scanProjectionRepairPending: a head left for repair is asked for again.  A migration
\* marks every head it finds.
MarkRepair ==
  /\ ciRow.present /\ ~ciRow.repair
  /\ CiEvent
  /\ ciRow' = [ciRow EXCEPT !.repair = TRUE]
  /\ UNCHANGED <<ciGithub, ciHooks, ciNewest, ciQueue, ciRun, ciNote, ciReview>>

scanProjectionRepairPending ==
  /\ ciRow.repair
  /\ ciQueue = 0 /\ ciQueue' = 1
  /\ UNCHANGED <<ciRow, ciGithub, ciHooks, ciNewest, ciRun, ciNote, ciReview, ciEvents>>

-----------------------------------------------------------------------------
(* The review's writes of its comment *)

\* loadRenderableHeadCi: the body is rendered from the row before the lock is taken.
RenderProgress ==
  /\ ciReview.pc = "idle" /\ ciReview.rev <= LastRevision
  /\ ciReview' = [pc |-> "rendered", rev |-> ciReview.rev, v |-> ciRow.version,
                  shown |-> Rendered(ciRow)]
  /\ UNCHANGED <<ciRow, ciGithub, ciHooks, ciNewest, ciQueue, ciRun, ciNote, ciEvents>>

\* upsertSummaryCommentAtRevision, under the progress lock the projector does not take:
\* a body already at the revision is left.  A tick that fails is logged and dropped.
WriteProgress ==
  /\ ciReview.pc = "rendered"
  /\ ciReview' = [ciReview EXCEPT !.pc = "written"]
  /\ \/ /\ ciNote' = IF ciNote.shown # "absent" /\ ciNote.rev >= ciReview.rev THEN ciNote
                     ELSE [v |-> ciReview.v, shown |-> ciReview.shown, rev |-> ciReview.rev]
        /\ UNCHANGED ciEvents
     \/ CiEvent /\ ciReview.rev < LastRevision /\ UNCHANGED ciNote
  /\ UNCHANGED <<ciRow, ciGithub, ciHooks, ciNewest, ciQueue, ciRun>>

\* Mutant: the request is made only for a head that needs its seed.
ciProjectionDue_SeedOnly(row, version) == ~row.seeded

ciProjectionDue(row, version) == ~row.seeded \/ row.version > version

\* requestHeadCiProjection "when_due", after the write.
RequestWhenDue ==
  /\ ciReview.pc = "written"
  /\ ciReview' = [pc |-> "idle", rev |-> ciReview.rev + 1]
  /\ IF ciProjectionDue(ciRow, ciReview.v) THEN requestHeadCiProjection ELSE UNCHANGED ciQueue
  /\ UNCHANGED <<ciRow, ciGithub, ciHooks, ciNewest, ciRun, ciNote, ciEvents>>

-----------------------------------------------------------------------------
ProjectorStep(p) ==
  \/ StartProjection(p) \/ ListChecks(p) \/ MergeListing(p)
  \/ ReadNote(p) \/ RereadNote(p) \/ EditNote(p) \/ FinishProjection(p)

HeadCiNext ==
  \/ \E n \in CheckNames, cls \in Classes, tick \in {0, 1} : CheckMoves(n, cls, tick)
  \/ \E h \in ciHooks : applyCiStateIntake(h)
  \/ applyCompletedRunCiIntake
  \/ writeVerificationSignal
  \/ \E p \in Projectors : ProjectorStep(p) \/ ProjectionDies(p)
  \/ MarkRepair
  \/ scanProjectionRepairPending
  \/ RenderProgress \/ WriteProgress \/ RequestWhenDue

HeadCiSpec == HeadCiInit /\ [][HeadCiNext]_headCiVars

-----------------------------------------------------------------------------
(* Properties *)

\* A stored check is absent or a fact, and at most MaxChecks are stored.
HeadCiTypeOK ==
  /\ ciRow.checks \in [CheckNames -> CiFact \cup {NoFact}]
  /\ Cardinality(Stored(ciRow.checks)) <= MaxChecks
  /\ ciRow.rollup \in Classes \cup {"none", "unknown"} /\ ciRow.version \in Nat
  /\ ciHooks \subseteq [name: CheckNames, fact: CiFact]
  /\ ciNewest \in [CheckNames -> Nat]
  /\ ciQueue \in 0 .. MaxCiQueued
  /\ \A p \in Projectors :
       ciRun[p].pc \in {"idle", "listing", "merge", "list", "reread", "edit", "done"}
  /\ ciNote.rev \in 0 .. LastRevision /\ ciReview.rev \in 0 .. LastRevision + 1
  /\ ciReview.pc \in {"idle", "rendered", "written"}
  /\ ciEvents \in [n: 0 .. MaxCiEvents, lost: BOOLEAN]

\* prHeadCiState.ts applyPrHeadCiFact: whatever the order of the deliveries, of the seed
\* and of refreshes, the stored fact of a check is at least as new as every observation
\* intake was given, until checks are evicted over the limit.
NewestObservationKept ==
  ~ciRow.truncated => \A n \in CheckNames : ciRow.checks[n].at >= ciNewest[n]

\* The rollup follows the stored checks: only an incomplete listing may say less, and it
\* never hides a failing or a pending check.
RollupHonest ==
  \/ ciRow.rollup = classifySnapshot(ciRow.checks)
  \/ ciRow.rollup = "unknown" /\ classifySnapshot(ciRow.checks) \in {"none", "passing"}

\* ADR 0035, "version is the monotonic revision of everything that affects rendered CI
\* projection": a comment stamped with the row's version shows what the row says, so a
\* projector that finds it current may leave it.
CellMatchesVersion ==
  ciNote.shown # "absent" /\ ciNote.v = ciRow.version => ciNote.shown = Rendered(ciRow)

\* No stale comment is forgotten: while its cell is older than the row, a job is queued or
\* running, a fault has cost a job, or the review still has to look whether one is due.
StaleCellHasJob ==
  ciNote.shown # "absent" /\ ciNote.v < ciRow.version
    => \/ ciQueue > 0 \/ ciEvents.lost
       \/ \E p \in Projectors : ciRun[p].pc # "idle"
       \/ ciReview.pc # "idle"

\* What the CI row and the comment promise: facts never go back in time, the rollup is
\* what the checks say, and a cell that is behind the row has a job that will edit it.
HeadCiSound ==
  /\ HeadCiTypeOK
  /\ NewestObservationKept
  /\ RollupHonest
  /\ CellMatchesVersion
  /\ StaleCellHasJob

=============================================================================
