--------------------------- MODULE FindingIdentity ---------------------------
(***************************************************************************)
(* Finding identity on GitHub: review threads and summary rows carry the   *)
(* finding ids, every review run rebuilds its inventory from them, the     *)
(* model relates each observation to what is already there, duplicates are *)
(* declared and cleaned up under the thread lock, and the summary and the  *)
(* check are computed from the inventory and this run's ledger.            *)
(*                                                                         *)
(* All findings sit in one file and a place stands for a window of lines:  *)
(* two findings overlap exactly when they have the same place. Severities  *)
(* are "hi" (at or above the check threshold) and "lo". Threads are kept   *)
(* in the order they were created, so an index is an age.                  *)
(***************************************************************************)
EXTENDS Integers, Sequences, FiniteSets, SequencesExt

CONSTANTS FindingPlaces,       \* windows of lines of the file
          FirstSeverities,     \* severities of the threads earlier runs posted
          MaxFindingThreads,   \* threads the pull request can hold
          MaxFindingRuns,      \* review runs
          MaxObservations,     \* observations judged in one run
          MaxThreadMoves       \* moves of people, triage and verification

VARIABLES fiThreads,    \* review threads on GitHub, oldest first
          fiRows,       \* finding rows of the summary comment
          fiMinted,     \* finding ids minted so far
          fiRun,        \* the review run in progress
          fiRuns,       \* runs started
          fiCheck,      \* conclusion of the newest check
          fiMoves,      \* moves made by others
          fiTouched     \* threads others changed since the run's inventory

findingVars == <<fiThreads, fiRows, fiMinted, fiRun, fiRuns, fiCheck, fiMoves,
                 fiTouched>>

Ids == 1 .. (MaxFindingRuns * MaxObservations + MaxFindingThreads)
Severities == {"lo", "hi"}
NoEntry == [thr |-> 0, id |-> 0, canon |-> 0, resolve |-> FALSE]
IdleRun == [stage |-> "idle", reviewed |-> FALSE, complete |-> FALSE,
            summaryRead |-> FALSE, inv |-> {}, copies |-> {}, accepted |-> <<>>,
            reaffirmed |-> <<>>, observed |-> 0, asked |-> FALSE, plans |-> {},
            todo |-> {}, at |-> NoEntry, receipted |-> FALSE, cleaned |-> {}]

----------------------------------------------------------------------------
(* The inventory *)

\* The first duplicate receipt of a thread names its canonical finding.
duplicateReceipt(t) == IF t.dups = <<>> THEN 0 ELSE Head(t.dups)

\* What one thread says of its finding; a resolved thread without a duplicate
\* receipt is fixed only by receipt, and dismissed otherwise.
threadFinding(i) ==
    LET t == fiThreads[i]
    IN  [id |-> t.id, thr |-> i, place |-> t.place, sev |-> t.sev,
         open |-> ~t.resolved,
         resolution |-> IF ~t.resolved THEN "none"
                        ELSE IF duplicateReceipt(t) # 0 THEN "duplicate"
                        ELSE IF t.closing = "fixed" THEN "fixed" ELSE "dismissed",
         alias |-> IF duplicateReceipt(t) = t.id THEN 0 ELSE duplicateReceipt(t),
         replied |-> t.reply]

summaryFinding(row) ==
    [id |-> row.id, thr |-> 0, place |-> row.place, sev |-> row.sev, open |-> TRUE,
     resolution |-> "none", alias |-> 0, replied |-> FALSE]

\* The oldest listed thread of an id is the finding, the others are copies; a
\* summary row counts only when no thread carries its id.
buildFindingInventory(listed, rows) ==
    LET oldest == {i \in listed : \A j \in listed :
                       fiThreads[j].id = fiThreads[i].id => i <= j}
        fromThreads == {threadFinding(i) : i \in oldest}
    IN  [findings |-> fromThreads \cup
                      {summaryFinding(r) : r \in {row \in rows :
                           \A f \in fromThreads : f.id # row.id}},
         copies |-> {threadFinding(i) : i \in listed \ oldest}]

Known(inv) == {f.id : f \in inv}
Get(inv, id) == CHOOSE f \in inv : f.id = id

\* Follows the alias chain; 0 when it leaves the inventory or loops.
canonicalResolver(inv, start) ==
    LET follow[n \in 0 .. Cardinality(inv)] ==
            IF n = 0 THEN start
            ELSE LET c == follow[n - 1]
                 IN  IF c \in Known(inv) /\ Get(inv, c).alias # 0
                     THEN Get(inv, c).alias ELSE c
        end == follow[Cardinality(inv)]
    IN  IF end \in Known(inv) /\ Get(inv, end).alias = 0 THEN end ELSE 0

----------------------------------------------------------------------------
(* Reconciling one observation *)

overlaps(place, f) == f.place = place
AcceptedIds(run) == {run.accepted[i].id : i \in DOMAIN run.accepted}

\* Overlapping findings in any state, and the other live ones of the file
\* (the code keeps the four nearest, more than an instance here holds).
retrievalCandidates(run, place) ==
    {f.id : f \in {g \in run.inv : overlaps(place, g) \/ g.open}} \cup AcceptedIds(run)

Outcome(kind, id) == [kind |-> kind, id |-> id]

continueFinding(run, place, target, fresh) ==
    LET finding == target \in Known(run.inv)
        canonicalId == canonicalResolver(run.inv, target)
        canonical == Get(run.inv, canonicalId)
    IN  CASE target \notin retrievalCandidates(run, place) -> Outcome("rejected", 0)
          [] target \in retrievalCandidates(run, place) /\ ~finding
                -> Outcome("reaffirm", target)
          [] OTHER
                -> IF canonicalId = 0 THEN Outcome("rejected", 0)
                   ELSE IF canonical.open
                   THEN IF canonical.thr = 0 /\ run.complete
                        THEN Outcome("promote", canonicalId)
                        ELSE Outcome("reaffirm", canonicalId)
                   ELSE IF canonical.resolution = "fixed"
                   THEN Outcome(IF run.complete THEN "post_thread" ELSE "summary_only", fresh)
                   ELSE Outcome("suppressed_dismissed", canonicalId)

reconcileObservation(run, place, relation, fresh) ==
    IF relation.kind = "continues"
    THEN continueFinding(run, place, relation.id, fresh)
    ELSE IF ~run.complete THEN Outcome("summary_only", fresh)
    ELSE IF retrievalCandidates(run, place) \subseteq relation.answered
    THEN Outcome("post_thread", fresh)
    ELSE IF ~run.asked THEN Outcome("question", 0) ELSE Outcome("summary_only", fresh)

\* What the model may say of an observation: that it continues a finding, or
\* that it differs from all of the candidates, or from none of them.
Relations(run, place) ==
    {[kind |-> "continues", id |-> id, answered |-> {}] :
         id \in Known(run.inv) \cup AcceptedIds(run)} \cup
    {[kind |-> "distinct_from", id |-> 0, answered |-> answered] :
         answered \in {{}, retrievalCandidates(run, place)}}

----------------------------------------------------------------------------
(* The lifecycle view and the check *)

higherSeverity(a, b) == IF "hi" \in {a, b} THEN "hi" ELSE "lo"
severityWithinRunCap(sev, capped) == IF capped THEN "lo" ELSE sev

\* The first accepted placement of an id, then the first reaffirmation of an
\* open finding that nothing accepted covers.
runRows(run) ==
    LET firstAccepted(id) == CHOOSE i \in DOMAIN run.accepted :
            run.accepted[i].id = id /\ \A j \in 1 .. i - 1 : run.accepted[j].id # id
        held == {f \in run.inv : f.open /\ f.id \notin AcceptedIds(run) /\
                     \E i \in DOMAIN run.reaffirmed : run.reaffirmed[i].id = f.id}
        first(id) == CHOOSE i \in DOMAIN run.reaffirmed :
            run.reaffirmed[i].id = id /\ \A j \in 1 .. i - 1 : run.reaffirmed[j].id # id
    IN  {LET a == run.accepted[firstAccepted(id)]
         IN  [id |-> id, sev |-> a.sev, place |-> a.place, row |-> ~a.posted] :
             id \in AcceptedIds(run)} \cup
        {[id |-> f.id, sev |-> higherSeverity(f.sev, run.reaffirmed[first(f.id)].sev),
          place |-> f.place, row |-> f.thr = 0] : f \in held}

canonicalAfterCleanup(run, cleaned, start) ==
    LET next(id) == IF \E c \in cleaned : c.id = id
                    THEN (CHOOSE c \in cleaned : c.id = id).canon
                    ELSE IF id \in Known(run.inv) THEN Get(run.inv, id).alias ELSE 0
        bound == Cardinality(run.inv) + 1
        follow[n \in 0 .. bound] ==
            IF n = 0 THEN start
            ELSE IF next(follow[n - 1]) = 0 THEN follow[n - 1] ELSE next(follow[n - 1])
    IN  IF next(follow[bound]) = 0 THEN follow[bound] ELSE 0

openCopySeverities_None(run, cleaned, id) == {}

\* The severities open copies lend to the finding they are tracked in.
openCopySeverities(run, cleaned, id) ==
    {f.sev : f \in {g \in run.inv :
        /\ g.open
        /\ ~ \E c \in cleaned : c.id = g.id /\ c.resolved
        /\ g.alias # 0 \/ \E c \in cleaned : c.id = g.id
        /\ canonicalAfterCleanup(run, cleaned, g.id) = id}}

carried_ThreadsOnly(run, observed, cleaned) ==
    {[id |-> f.id, sev |-> f.sev, place |-> f.place, row |-> FALSE] :
        f \in {g \in run.inv : /\ g.open /\ g.alias = 0 /\ g.thr # 0
                               /\ g.id \notin {r.id : r \in observed}
                               /\ ~ \E c \in cleaned : c.id = g.id}}

carried(run, observed, cleaned) ==
    {[id |-> f.id, sev |-> f.sev, place |-> f.place, row |-> f.thr = 0] :
        f \in {g \in run.inv : /\ g.open /\ g.alias = 0
                               /\ g.id \notin {r.id : r \in observed}
                               /\ ~ \E c \in cleaned : c.id = g.id
                               /\ g.thr # 0 \/ ~run.reviewed}}

buildFindingView(run) ==
    LET cleaned == {c \in run.cleaned : c.id # c.canon}
        observed == {r \in runRows(run) : ~ \E c \in cleaned : c.id = r.id}
        caps(id) == {i \in DOMAIN run.reaffirmed : run.reaffirmed[i].id = id}
        lastCap(id) == run.reaffirmed[CHOOSE i \in caps(id) : \A j \in caps(id) : j <= i].capped
        final(r) ==
            LET merged == higherSeverity(r.sev,
                              IF "hi" \in openCopySeverities(run, cleaned, r.id)
                              THEN "hi" ELSE "lo")
            IN  IF r.id \in AcceptedIds(run) \/ caps(r.id) = {} THEN merged
                ELSE severityWithinRunCap(merged, lastCap(r.id))
    IN  {[r EXCEPT !.sev = final(r)] :
             r \in observed \cup carried(run, observed, cleaned)}

checkConclusion(run, view) ==
    IF \E r \in view : r.sev = "hi" THEN "failure"
    ELSE IF run.complete THEN "success" ELSE "neutral"

----------------------------------------------------------------------------
(* Declaring and planning duplicates *)

Precedes(a, b) == \/ a[1] < b[1]
                  \/ a[1] = b[1] /\ (a[2] < b[2] \/ (a[2] = b[2] /\ a[3] < b[3]))

\* Unaliased before aliased, discussed before silent, then the oldest.
selectCanonical(group) ==
    LET rank(x) == <<IF x.alias # 0 THEN 1 ELSE 0, IF x.replied THEN 0 ELSE 1, x.thr>>
    IN  CHOOSE f \in group : \A g \in group \ {f} : Precedes(rank(f), rank(g))

memberRefused(f, ids) == ~f.open \/ f.thr = 0 \/ (f.alias # 0 /\ f.alias \notin ids)

cleanupEntries(canonical, members) ==
    {[thr |-> f.thr, id |-> f.id, canon |-> canonical.id, resolve |-> ~f.replied] :
        f \in members}

planDuplicateCleanup_AnyAlias(run, ids) ==
    LET members == {f \in run.inv : f.id \in ids}
        canonical == selectCanonical({[f EXCEPT !.alias = 0] : f \in members})
    IN  IF \/ ~run.complete \/ Cardinality(ids) < 2 \/ ~(ids \subseteq Known(run.inv))
           \/ \E f \in members : memberRefused(f, ids) \/ ~overlaps(canonical.place, f)
        THEN {}
        ELSE {[ids |-> ids,
               entries |-> cleanupEntries(canonical,
                               {f \in members : f.id # canonical.id})]}

\* The accepted plan of a group, or no plan.
planDuplicateCleanup(run, ids) ==
    LET members == {f \in run.inv : f.id \in ids}
        canonical == selectCanonical(members)
    IN  IF \/ ~run.complete \/ Cardinality(ids) < 2 \/ ~(ids \subseteq Known(run.inv))
           \/ \E f \in members : memberRefused(f, ids)
           \/ canonical.alias # 0
           \/ \E f \in members : ~overlaps(canonical.place, f)
        THEN {}
        ELSE {[ids |-> ids,
               entries |-> cleanupEntries(canonical,
                               {f \in members : f.id # canonical.id})]}

\* Open copies of a thread finding's own id need no declaration.
planSameIdCleanup(run) ==
    IF ~run.complete THEN {}
    ELSE UNION {cleanupEntries(f, {c \in run.copies : c.open /\ c.id = f.id}) :
                    f \in {g \in run.inv : g.thr # 0}}

----------------------------------------------------------------------------
(* A review run *)

NewThread(id, place, sev) ==
    [id |-> id, place |-> place, sev |-> sev, resolved |-> FALSE, dups |-> <<>>,
     closing |-> "none", reply |-> FALSE, late |-> FALSE]

\* Threads with distinct ids that earlier runs left open.
FindingInit ==
    /\ \E sevs \in FirstSeverities, place \in FindingPlaces :
           /\ fiThreads = [i \in DOMAIN sevs |-> NewThread(i, place, sevs[i])]
           /\ fiMinted = Len(sevs)
    /\ fiRows = {}
    /\ fiRun = IdleRun /\ fiRuns = 0 /\ fiCheck = "none"
    /\ fiMoves = 0 /\ fiTouched = {}

\* loadFindingInventory at the start of a run: every thread and the summary,
\* or what an incomplete listing and a failed read leave of them.
StartFindingRun(reviewed, listed, summaryRead) ==
    LET built == buildFindingInventory(listed, IF summaryRead THEN fiRows ELSE {})
    IN  /\ fiRun.stage = "idle" /\ fiRuns < MaxFindingRuns
        /\ fiRuns' = fiRuns + 1
        /\ fiTouched' = {}
        /\ fiRun' = [IdleRun EXCEPT !.stage = IF reviewed THEN "judging" ELSE "summary",
               !.reviewed = reviewed, !.summaryRead = summaryRead,
               !.complete = summaryRead /\ listed = DOMAIN fiThreads,
               !.inv = built.findings, !.copies = built.copies]
        /\ UNCHANGED <<fiThreads, fiRows, fiMinted, fiCheck, fiMoves>>

acceptedPlacement(id, place, sev, posted) ==
    [id |-> id, place |-> place, sev |-> sev, posted |-> posted]

\* The higher of the held and the observed severity, within the run's cap.
reaffirmedFinding(run, id, sev, capped) ==
    LET held == IF id \in Known(run.inv) THEN Get(run.inv, id).sev ELSE sev
    IN  [id |-> id, capped |-> capped,
         sev |-> severityWithinRunCap(higherSeverity(held, sev), capped)]

\* What the run's ledger gains from an outcome. An unanswered or rejected
\* relation is asked back once, then lands in the summary under a fresh id.
reconcileBatch(run, outcome, place, sev, capped, posted, fresh) ==
    LET judged == [run EXCEPT !.observed = @ + 1]
        capSev == severityWithinRunCap(sev, capped)
    IN  CASE outcome.kind \in {"post_thread", "promote", "summary_only"} ->
               [judged EXCEPT !.accepted =
                   Append(@, acceptedPlacement(outcome.id, place, capSev, posted))]
          [] outcome.kind = "reaffirm" ->
               [judged EXCEPT !.reaffirmed =
                   Append(@, reaffirmedFinding(run, outcome.id, sev, capped))]
          [] outcome.kind \in {"question", "rejected"} /\ ~run.asked ->
               [run EXCEPT !.asked = TRUE]
          [] outcome.kind \in {"question", "rejected"} /\ run.asked ->
               [judged EXCEPT !.accepted =
                   Append(@, acceptedPlacement(fresh, place, capSev, FALSE))]
          [] outcome.kind = "suppressed_dismissed" -> judged

\* publish_thread with one finding: reconciled against the inventory and the
\* run's ledger, then posted, or kept for the summary when the anchor, the cap
\* or the budget refuses it inline.
publishFindingBatch(place, sev, capped, relation, inline) ==
    LET fresh == fiMinted + 1
        outcome == reconcileObservation(fiRun, place, relation, fresh)
        posts == outcome.kind \in {"post_thread", "promote"} /\ inline
                 /\ Len(fiThreads) < MaxFindingThreads
        run == reconcileBatch(fiRun, outcome, place, sev, capped, posts, fresh)
    IN  /\ fiRun.stage = "judging" /\ fiRun.observed < MaxObservations
        /\ inline => posts
        /\ fiRun' = run
        /\ fiMinted' = IF fresh \in AcceptedIds(run) THEN fresh ELSE fiMinted
        /\ fiThreads' = IF posts
                        THEN Append(fiThreads, NewThread(outcome.id, place,
                                 severityWithinRunCap(sev, capped)))
                        ELSE fiThreads
        /\ UNCHANGED <<fiRows, fiRuns, fiCheck, fiMoves, fiTouched>>

\* declare_duplicate: plans that share a finding with the group are merged
\* into it before the server judges the whole.
declare(ids) ==
    LET overlapping == {p \in fiRun.plans : p.ids \cap ids # {}}
        plan == planDuplicateCleanup(fiRun, ids \cup UNION {p.ids : p \in overlapping})
    IN  /\ fiRun.stage = "judging"
        /\ plan # {}
        /\ fiRun' = [fiRun EXCEPT !.plans = (@ \ overlapping) \cup plan]
        /\ UNCHANGED <<fiThreads, fiRows, fiMinted, fiRuns, fiCheck, fiMoves, fiTouched>>

\* The summary begins: the accepted plans and the same-id copies are cleaned.
runCleanup ==
    /\ fiRun.stage = "judging"
    /\ fiRun' = [fiRun EXCEPT !.stage = "cleanup",
           !.todo = UNION {p.entries : p \in fiRun.plans} \cup planSameIdCleanup(fiRun)]
    /\ UNCHANGED <<fiThreads, fiRows, fiMinted, fiRuns, fiCheck, fiMoves, fiTouched>>

\* cleanEntry, under the lock: the first look at the thread.
cleanEntryLook(e) ==
    LET t == fiThreads[e.thr]
    IN  /\ fiRun.stage = "cleanup" /\ e \in fiRun.todo
        /\ fiRun' = IF t.resolved THEN [fiRun EXCEPT !.todo = @ \ {e}]
                    ELSE [fiRun EXCEPT !.todo = @ \ {e}, !.stage = "reply",
                             !.at = [e EXCEPT !.resolve = @ /\ ~t.reply],
                             !.receipted = \E i \in DOMAIN t.dups : t.dups[i] = e.canon]
        /\ UNCHANGED <<fiThreads, fiRows, fiMinted, fiRuns, fiCheck, fiMoves, fiTouched>>

CleanedAs(resolved) ==
    [fiRun EXCEPT !.stage = "cleanup", !.at = NoEntry, !.receipted = FALSE,
        !.cleaned = @ \cup {[id |-> fiRun.at.id, canon |-> fiRun.at.canon,
                             resolved |-> resolved]}]
Skipped == [fiRun EXCEPT !.stage = "cleanup", !.at = NoEntry, !.receipted = FALSE]

\* ... the receipted reply, unless it is already there; a copy people
\* discussed stays open. A reply that fails skips the entry.
cleanEntryReply(fails) ==
    LET e == fiRun.at
    IN  /\ fiRun.stage = "reply"
        /\ fails => ~fiRun.receipted
        /\ fiThreads' = IF fiRun.receipted \/ fails THEN fiThreads
                        ELSE [fiThreads EXCEPT ![e.thr].dups = Append(@, e.canon)]
        /\ fiRun' = IF fails THEN Skipped
                    ELSE IF e.resolve THEN [fiRun EXCEPT !.stage = "relook"]
                    ELSE IF fiRun.receipted THEN Skipped ELSE CleanedAs(FALSE)
        /\ UNCHANGED <<fiRows, fiMinted, fiRuns, fiCheck, fiMoves, fiTouched>>

resolvable_Unread(t) == TRUE
resolvable(t) == ~t.reply

\* ... the second look, which catches a reply that came in between.

cleanEntryRelook ==
    LET t == fiThreads[fiRun.at.thr]
    IN  /\ fiRun.stage = "relook"
        /\ fiRun' = IF t.resolved
                    THEN IF fiRun.receipted THEN Skipped ELSE CleanedAs(TRUE)
                    ELSE IF ~resolvable(t)
                    THEN IF fiRun.receipted THEN Skipped ELSE CleanedAs(FALSE)
                    ELSE [fiRun EXCEPT !.stage = "resolve"]
        /\ UNCHANGED <<fiThreads, fiRows, fiMinted, fiRuns, fiCheck, fiMoves, fiTouched>>

cleanEntryResolve(fails) ==
    /\ fiRun.stage = "resolve"
    /\ fiThreads' = IF fails THEN fiThreads
                    ELSE [fiThreads EXCEPT ![fiRun.at.thr].resolved = TRUE]
    /\ fiRun' = IF fails THEN Skipped ELSE CleanedAs(TRUE)
    /\ UNCHANGED <<fiRows, fiMinted, fiRuns, fiCheck, fiMoves, fiTouched>>

\* The summary and the check are published from the view; the new body holds
\* the rows that only the summary carries.
PublishFindingView ==
    LET view == buildFindingView(fiRun)
    IN  /\ \/ fiRun.stage = "cleanup" /\ fiRun.todo = {}
           \/ fiRun.stage = "summary"
        /\ fiRows' = {[id |-> r.id, place |-> r.place, sev |-> r.sev] :
                          r \in {v \in view : v.row}}
        /\ fiCheck' = checkConclusion(fiRun, view)
        /\ fiRun' = IdleRun
        /\ UNCHANGED <<fiThreads, fiMinted, fiRuns, fiMoves, fiTouched>>

\* The run is stopped or dies before its summary.
FindingRunStops ==
    /\ fiRun.stage # "idle"
    /\ fiRun' = IdleRun
    /\ UNCHANGED <<fiThreads, fiRows, fiMinted, fiRuns, fiCheck, fiMoves, fiTouched>>

----------------------------------------------------------------------------
(* People, triage and verification *)

FindingLocked(i) == fiRun.at.thr # 0

\* A person replies, resolves or reopens at any time.
PersonOnThread(i, move) ==
    /\ fiMoves < MaxThreadMoves
    /\ i \in DOMAIN fiThreads
    /\ fiThreads' = CASE move = "reply" ->
                           [fiThreads EXCEPT ![i].reply = TRUE,
                               ![i].late = fiRun.stage = "resolve" /\ fiRun.at.thr = i]
                      [] move = "resolve" -> [fiThreads EXCEPT ![i].resolved = TRUE]
                      [] move = "reopen" -> [fiThreads EXCEPT ![i].resolved = FALSE]
    /\ fiThreads' # fiThreads
    /\ fiMoves' = fiMoves + 1
    /\ fiTouched' = fiTouched \cup {i}
    /\ UNCHANGED <<fiRows, fiMinted, fiRun, fiRuns, fiCheck>>

\* Triage or verification closes a thread with a receipt, under the lock.
closeWithReceipt(i, kind) ==
    /\ fiMoves < MaxThreadMoves
    /\ ~FindingLocked(i)
    /\ i \in DOMAIN fiThreads /\ ~fiThreads[i].resolved
    /\ fiThreads' = [fiThreads EXCEPT ![i].resolved = TRUE, ![i].closing = kind]
    /\ fiMoves' = fiMoves + 1
    /\ fiTouched' = fiTouched \cup {i}
    /\ UNCHANGED <<fiRows, fiMinted, fiRun, fiRuns, fiCheck>>

FindingNext ==
    \/ \E reviewed, summaryRead \in BOOLEAN, pages \in 0 .. Len(fiThreads) :
           StartFindingRun(reviewed, 1 .. pages, summaryRead)
    \/ \E place \in FindingPlaces, sev \in Severities, capped, inline \in BOOLEAN :
           \E relation \in Relations(fiRun, place) :
               (capped => sev = "hi") /\ publishFindingBatch(place, sev, capped, relation, inline)
    \/ \E ids \in SUBSET Known(fiRun.inv) : declare(ids)
    \/ runCleanup
    \/ \E e \in fiRun.todo : cleanEntryLook(e)
    \/ \E fails \in BOOLEAN : cleanEntryReply(fails) \/ cleanEntryResolve(fails)
    \/ cleanEntryRelook
    \/ PublishFindingView
    \/ FindingRunStops
    \/ \E i \in DOMAIN fiThreads : \E move \in {"reply", "resolve", "reopen"} :
           PersonOnThread(i, move)
    \/ \E i \in DOMAIN fiThreads : \E kind \in {"fixed", "dismissed"} :
           closeWithReceipt(i, kind)

FindingSpec == FindingInit /\ [][FindingNext]_findingVars

----------------------------------------------------------------------------
(* Properties *)

\* Every thread and summary row carries a minted id, and a cleanup plan names two.
FindingTypeOK ==
    /\ fiMinted \in 0 .. Cardinality(Ids)
    /\ \A i \in DOMAIN fiThreads :
           /\ fiThreads[i].id \in 1 .. fiMinted /\ fiThreads[i].sev \in Severities
           /\ fiThreads[i].place \in FindingPlaces
    /\ Len(fiThreads) <= MaxFindingThreads
    /\ \A r \in fiRows : r.id \in 1 .. fiMinted /\ r.sev \in Severities
    /\ fiRun.stage \in {"idle", "judging", "cleanup", "reply", "relook", "resolve", "summary"}
    /\ \A e \in UNION {p.entries : p \in fiRun.plans} \cup fiRun.todo :
           e.id \in 1 .. fiMinted /\ e.canon \in 1 .. fiMinted
    /\ fiRuns \in 0 .. MaxFindingRuns /\ fiMoves \in 0 .. MaxThreadMoves
    /\ fiTouched \subseteq DOMAIN fiThreads

\* Duplicate receipts of any number of runs never form a loop: from every
\* thread the receipts lead to a finding no receipt redirects, so a copy is
\* never tracked in itself and no group of threads loses its canonical one.
AliasesAcyclic ==
    LET all == {threadFinding(i) : i \in {k \in DOMAIN fiThreads :
                    \A j \in 1 .. k - 1 : fiThreads[j].id # fiThreads[k].id}}
    IN  \A f \in all : canonicalResolver(all, f.id) # 0

\* A check concludes success only if no open blocking thread was there to be
\* seen: not one that stands for itself, and not a copy whose canonical thread
\* is still open. Left aside are threads others changed during the run, runs
\* that capped a reaffirmation below the threshold, and ids the run accepted
\* twice or two threads carry.
CheckHonest ==
    [][ PublishFindingView /\ fiCheck' = "success" =>
        \A i \in DOMAIN fiThreads \ fiTouched :
            LET t == fiThreads[i]
                all == {threadFinding(k) : k \in DOMAIN fiThreads}
                canon == canonicalResolver(all, t.id)
                heads == {k \in DOMAIN fiThreads : fiThreads[k].id = canon}
            IN  \/ t.resolved \/ t.sev = "lo"
                \/ \E k \in DOMAIN fiThreads \ {i} : fiThreads[k].id = t.id
                \/ \E j, k \in DOMAIN fiRun.accepted :
                       j # k /\ fiRun.accepted[j].id = t.id /\ fiRun.accepted[k].id = t.id
                \/ \E k \in heads : fiThreads[k].resolved \/ k \in fiTouched
                \/ \E k \in DOMAIN fiRun.reaffirmed : fiRun.reaffirmed[k].capped
      ]_findingVars

\* Cleanup never closes a discussion: the thread it resolves had no reply of a
\* person, except one that came after the last look at it.
DiscussedStaysOpen ==
    [][ \A i \in DOMAIN fiThreads :
            fiRun.stage = "resolve" /\ fiRun.at.thr = i /\ ~fiThreads[i].resolved
            /\ fiThreads'[i].resolved /\ fiMoves' = fiMoves
            => ~fiThreads[i].reply \/ fiThreads[i].late ]_findingVars

\* A finding only the summary holds leaves it when a model review no longer
\* observes it, when a thread takes over its id, or when the run could not read
\* the summary; a run that reviewed nothing hands it on.
RowsCarried ==
    [][ \A r \in fiRows : (\A s \in fiRows' : s.id # r.id) =>
            \/ fiRun.reviewed \/ ~fiRun.summaryRead
            \/ \E i \in DOMAIN fiThreads : fiThreads[i].id = r.id ]_findingVars

(* What finding identity promises across runs: every alias leads to a      *)
(* finding, the check counts every open copy at its severity, a discussed  *)
(* thread is not resolved, and a carried row is not lost.                  *)
FindingSound ==
  /\ [](FindingTypeOK /\ AliasesAcyclic)
  /\ CheckHonest
  /\ DiscussedStaysOpen
  /\ RowsCarried

=============================================================================
