---------------------------- MODULE IntakeProofs ----------------------------
(***************************************************************************)
(* Proofs about Intake.  The invariant IntakeInv says of the mail, the     *)
(* lifecycle row, the approval, the rows and what is owed what every step  *)
(* needs of them; the lemmas follow a delivery (the rows it closes, stamps *)
(* and adds, then the approval and what is owed), GitHub, and the steps of *)
(* a running review, and the theorem is IntakeSound.                       *)
(***************************************************************************)
EXTENDS Intake, FiniteSetTheorems, SequenceTheorems, TLAPS

-----------------------------------------------------------------------------
(* The inductive invariant *)

Commands == {"review", "force", "cancel", "describe", "triage", "verify"}
PrMarks == [stamped : BOOLEAN, kid : Nat, replacement : Nat]
PrRow == [type : {"review", "triage", "description", "verification"}, src : {"auto", "slash"},
          st : {"queued", "running", "completed", "failed", "cancelled", "superseded"},
          head : Nat, event : Nat, parent : Nat, staleHeadRescheduled : BOOLEAN,
          marks : PrMarks, seen : PrMarks, run : {"none", "working", "published", "checked"}]
PrStates == {"open", "closed", "merged"}
PrJob == [n : Nat, head : Nat, at : Nat, state : PrStates,
          kind : Commands \cup {"opened", "synchronize", "closed", "merged", "reopened",
                                "approved", "workflow_run"},
          trust : {"trusted", "awaiting_maintainer_approval", "awaiting_approval"}]

IntakeTyped ==
    /\ prFeatures \in FeatureSets
    /\ prGithub \in [head : Nat, state : PrStates, at : Nat]
    /\ prMail \subseteq PrJob /\ IsFiniteSet(prMail)
    /\ prLife \in [state : PrStates \cup {"none"}, at : Nat]
    /\ prApproval \in [state : {"none", "awaiting", "approved", "withdrawn"}, head : Nat,
                       workflowStartAdmits : BOOLEAN]
    /\ prRows \in Seq(PrRow)
    /\ prOwed \in [head : Nat, done : Nat]

\* What GitHub sent: nothing from its future, and nothing after the merge.
MailSound ==
    /\ \A m \in prMail :
         /\ m.n \in 1 .. Cardinality(prMail) /\ m.at <= prGithub.at /\ m.head <= prGithub.head
         /\ m.kind = "opened" => m.n = 1
         /\ m.kind \in {"closed", "merged"} => m.state = m.kind
         /\ m.kind = "reopened" => m.state = "open"
         /\ m.kind = "merged" => prGithub.state = "merged" /\ m.at = prGithub.at
    /\ \A m, k \in prMail : m.n = k.n => m = k
    /\ prEvents.bodies \subseteq 1 .. Cardinality(prMail)

LifeSound ==
    /\ LifecycleIsNewest
    /\ prLife.state = "none" => prLife = NoLife
    /\ prLife.state = "merged" => prGithub.state = "merged" /\ prLife.at = prGithub.at

ApprovalSound ==
    /\ prApproval.state # "none" => prFeatures.review = "approval" /\ 1 \in prEvents.bodies
    /\ HeldUntilApproved

\* The follow-up a marker names is an automatic review, and only a stamped row has one.
MarksSound(rows, marks) ==
    marks.kid # 0 => /\ marks.stamped /\ marks.kid \in Reviews(rows)
                     /\ rows[marks.kid].src = "auto" /\ ~rows[marks.kid].staleHeadRescheduled

\* A row, its successors and how far its execution is.
RowSound(rows, i) ==
    LET row == rows[i]
        p == row.parent
        next == row.marks.replacement
    IN  /\ row.run = "none" <=> row.st # "running"
        /\ p = 0 => ~row.staleHeadRescheduled
        /\ p # 0 => /\ p < i /\ row.type = "review" /\ rows[p].type = "review"
                    /\ IF row.staleHeadRescheduled THEN rows[p].marks.replacement = i
                                                   ELSE rows[p].marks.kid = i
        /\ MarksSound(rows, row.marks) /\ MarksSound(rows, row.seen)
        /\ row.marks.kid # 0 \/ row.seen.kid # 0 => row.src = "slash"
        /\ row.seen.replacement \in {0, next}
        /\ next # 0 => /\ ~row.staleHeadRescheduled /\ next \in Reviews(rows)
                       /\ rows[next].parent = i /\ rows[next].staleHeadRescheduled
                       /\ rows[next].src = row.src
                       /\ row.st # "queued"
                       /\ row.st = "running" => rows[next].st = "queued"
        /\ row.run = "working" => row.seen.replacement = next
        /\ row.run = "published" => next = 0 /\ row.seen.replacement = 0

RowsSound(rows) ==
    /\ \A i \in DOMAIN rows : RowSound(rows, i)
    /\ \A i, j \in Reviews(rows) : rows[i].st = "running" /\ rows[j].st = "running" => i = j
    /\ \A i, j \in DOMAIN rows :
         rows[i].parent = 0 /\ rows[j].parent = 0 /\ rows[i].type = rows[j].type
           /\ rows[i].event = rows[j].event => i = j

HasQueued(rows) == \E i \in Reviews(rows) : rows[i].st = "queued"
HasQueuedSlash(rows) == \E i \in Reviews(rows) : rows[i].st = "queued" /\ rows[i].src = "slash"

\* The head an execution has published counts as done, unless its successor takes over.
DoneSound ==
    \A i \in Reviews(prRows) :
      /\ prRows[i].run = "published" => prRows[i].head <= prOwed.done
      /\ prRows[i].run = "checked" => prRows[i].head <= prOwed.done \/ prRows[i].marks.replacement # 0

\* While a push is owed a review, a slash review that runs leaves nothing unanswered behind:
\* it has the marker, its follow-up is queued, or another slash review is.
SlashAnswers(rows, i) ==
    LET row == rows[i] IN
    /\ row.run = "published" => row.marks.stamped
    /\ row.run \in {"published", "checked"} /\ row.marks.kid # 0 => HasQueued(rows)
    /\ row.run = "checked" /\ row.marks.kid = 0 /\ row.marks.replacement = 0 => HasQueuedSlash(rows)

OwedSound ==
    prOwed.head # 0 =>
      /\ prFeatures.cadence = "every_push"
      /\ prOwed.done < prOwed.head /\ prOwed.head <= prGithub.head
      /\ \A i \in Reviews(prRows) : prRows[i].src = "slash" => SlashAnswers(prRows, i)
      /\ PushAnswered

EventsKnown == \A i \in DOMAIN prRows : prRows[i].event \in prEvents.bodies

IntakeInv ==
    /\ IntakeTyped /\ MailSound /\ LifeSound /\ ApprovalSound
    /\ RowsSound(prRows) /\ EventsKnown /\ NoReviewWhileClosed
    /\ DoneSound /\ OwedSound

-----------------------------------------------------------------------------
(* Rows that intake closes, stamps and adds *)

\* A row of one kind, later: closed, stamped or as it was.
Follows(x, y) ==
    /\ y \in PrRow /\ y.type = x.type /\ y.src = x.src /\ y.head = x.head /\ y.event = x.event
    /\ y.parent = x.parent /\ y.staleHeadRescheduled = x.staleHeadRescheduled /\ y.seen = x.seen
    /\ y.marks.kid = x.marks.kid /\ y.marks.replacement = x.marks.replacement
    /\ x.marks.stamped => y.marks.stamped
    /\ \/ y.st = x.st /\ y.run = x.run
       \/ Live(x) /\ y.st \in {"cancelled", "superseded"} /\ y.run = "none"

\* A row that was just inserted.
Fresh(row, kind, event) ==
    /\ row \in PrRow /\ row.type = kind /\ row.event = event /\ row.st = "queued" /\ row.run = "none"
    /\ row.parent = 0 /\ ~row.staleHeadRescheduled /\ row.marks = NoMarks /\ row.seen = NoMarks

\* The rows of one kind moved on and at most one was added.
GrownBy(rows, new, kind, event) ==
    /\ new \in Seq(PrRow)
    /\ Len(new) = Len(rows) \/ (Len(new) = Len(rows) + 1 /\ Fresh(new[Len(new)], kind, event))
    /\ \A i \in DOMAIN rows : Follows(rows[i], new[i]) /\ (rows[i].type # kind => new[i] = rows[i])
    /\ \A i, j \in DOMAIN rows :
         /\ rows[i].type = rows[j].type /\ rows[i].src = rows[j].src
         /\ rows[i].st = "running" /\ rows[j].st = "queued" /\ new[i].st = "running"
         => new[j].st = "queued"

\* No row of a kind stems from an event.
NoneFrom(rows, kind, event) == \A i \in DOMAIN rows : rows[i].type = kind => rows[i].event # event

\* The lines of a sequence of rows.
LEMMA RowsTyped ==
  ASSUME NEW rows \in Seq(PrRow)
  PROVE  /\ Len(rows) \in Nat /\ DOMAIN rows = 1 .. Len(rows)
         /\ \A i \in DOMAIN rows : rows[i] \in PrRow /\ i \in Nat /\ i > 0 /\ i <= Len(rows)
         /\ \A row \in PrRow : /\ Append(rows, row) \in Seq(PrRow)
                               /\ Len(Append(rows, row)) = Len(rows) + 1
                               /\ Append(rows, row)[Len(rows) + 1] = row
                               /\ \A i \in DOMAIN rows : Append(rows, row)[i] = rows[i]
         /\ Reviews(rows) \subseteq DOMAIN rows
<1>1. Len(rows) \in Nat /\ DOMAIN rows = 1 .. Len(rows)
  OBVIOUS
<1>2. \A i \in DOMAIN rows : rows[i] \in PrRow /\ i \in Nat /\ i > 0 /\ i <= Len(rows)
  BY <1>1
<1>3. ASSUME NEW row \in PrRow
      PROVE  /\ Append(rows, row) \in Seq(PrRow)
             /\ Len(Append(rows, row)) = Len(rows) + 1
             /\ Append(rows, row)[Len(rows) + 1] = row
             /\ \A i \in DOMAIN rows : Append(rows, row)[i] = rows[i]
  BY <1>1
<1>4. Reviews(rows) \subseteq DOMAIN rows
  BY DEF Reviews
<1> QED BY <1>1, <1>2, <1>3, <1>4

\* The fields of a row.
LEMMA RowFields ==
  ASSUME NEW row \in PrRow
  PROVE  /\ row.parent \in Nat /\ row.head \in Nat /\ row.event \in Nat
         /\ row.marks \in PrMarks /\ row.seen \in PrMarks
         /\ row.marks.kid \in Nat /\ row.marks.replacement \in Nat /\ row.marks.stamped \in BOOLEAN
         /\ row.seen.kid \in Nat /\ row.seen.replacement \in Nat /\ row.seen.stamped \in BOOLEAN
         /\ row.staleHeadRescheduled \in BOOLEAN /\ row.src \in {"auto", "slash"}
         /\ NoMarks.kid = 0 /\ NoMarks.replacement = 0 /\ NoMarks.stamped = FALSE
<1>1. row.marks \in PrMarks /\ row.seen \in PrMarks
  BY DEF PrRow
<1> QED BY <1>1 DEF PrRow, PrMarks, NoMarks

\* Grown rows keep what holds of rows, if the added one is the first of its event and kind.
LEMMA GrownKeepsRows ==
  ASSUME NEW rows \in Seq(PrRow), NEW new, NEW kind, NEW event,
         RowsSound(rows), GrownBy(rows, new, kind, event), NoneFrom(rows, kind, event)
  PROVE  RowsSound(new)
<1>1. /\ new \in Seq(PrRow) /\ DOMAIN rows = 1 .. Len(rows) /\ DOMAIN new = 1 .. Len(new)
      /\ Len(rows) \in Nat /\ Len(new) \in Nat
      /\ \A i \in DOMAIN new : new[i] \in PrRow /\ i \in Nat
      /\ \A i \in DOMAIN rows : rows[i] \in PrRow /\ i \in DOMAIN new
  <2>1. new \in Seq(PrRow) /\ Len(new) \in {Len(rows), Len(rows) + 1}
    BY DEF GrownBy
  <2> QED BY <2>1, RowsTyped
<1>2. \A i \in DOMAIN rows : Follows(rows[i], new[i]) /\ RowSound(rows, i)
  BY DEF GrownBy, RowsSound
<1>3. \A i \in DOMAIN new : i \notin DOMAIN rows => i = Len(new) /\ Len(new) = Len(rows) + 1
                                                     /\ Fresh(new[i], kind, event)
  <2>1. Len(new) = Len(rows) \/ (Len(new) = Len(rows) + 1 /\ Fresh(new[Len(new)], kind, event))
    BY DEF GrownBy
  <2>2. \A i \in 1 .. Len(rows) + 1 : i \notin 1 .. Len(rows) => i = Len(rows) + 1
    BY <1>1
  <2> QED BY <1>1, <2>1, <2>2
<1>4. \A i \in DOMAIN rows : i \in Reviews(rows) <=> i \in Reviews(new)
  BY <1>1, <1>2 DEF Reviews, Follows
<1>5. \A marks : MarksSound(rows, marks) => MarksSound(new, marks)
  <2> SUFFICES ASSUME NEW marks, MarksSound(rows, marks), marks.kid # 0
               PROVE  MarksSound(new, marks)
    BY DEF MarksSound
  <2>1. marks.kid \in DOMAIN rows /\ marks.kid \in Reviews(new)
    BY <1>4 DEF MarksSound, Reviews
  <2> QED BY <1>2, <2>1 DEF MarksSound, Follows
<1>6. ASSUME NEW i \in DOMAIN rows
      PROVE  RowSound(new, i)
  <2> DEFINE row == rows[i]
             later == new[i]
             p == row.parent
             next == row.marks.replacement
  <2>1. /\ Follows(row, later) /\ RowSound(rows, i) /\ row \in PrRow /\ later \in PrRow
        /\ row.seen.replacement \in Nat /\ next \in Nat /\ p \in Nat /\ row.marks.kid \in Nat
        /\ row.marks.stamped \in BOOLEAN /\ later.marks.stamped \in BOOLEAN
    BY <1>1, <1>2, RowFields
  <2>2. later.run = "none" <=> later.st # "running"
    BY <2>1 DEF Follows, RowSound, Live
  <2>3. p # 0 => p \in DOMAIN rows /\ Follows(rows[p], new[p])
    <3>1. p # 0 => p \in DOMAIN rows
      BY <1>1, <2>1 DEF RowSound
    <3> QED BY <1>2, <3>1
  <2>4. /\ p = 0 => ~later.staleHeadRescheduled
        /\ p # 0 => /\ p < i /\ later.type = "review" /\ new[p].type = "review"
                    /\ IF later.staleHeadRescheduled THEN new[p].marks.replacement = i
                                                     ELSE new[p].marks.kid = i
    BY <2>1, <2>3 DEF RowSound, Follows
  <2>5. MarksSound(new, later.marks) /\ MarksSound(new, later.seen)
    <3>1. MarksSound(new, row.marks) /\ MarksSound(new, row.seen)
      BY <1>5, <2>1 DEF RowSound
    <3> QED BY <2>1, <3>1 DEF Follows, MarksSound
  <2>6. /\ later.marks.kid # 0 \/ later.seen.kid # 0 => later.src = "slash"
        /\ later.seen.replacement \in {0, next}
        /\ later.run = "working" => later.seen.replacement = next
        /\ later.run = "published" => next = 0 /\ later.seen.replacement = 0
    BY <2>1 DEF RowSound, Follows
  <2>7. next # 0 => /\ ~later.staleHeadRescheduled /\ next \in Reviews(new)
                    /\ new[next].parent = i /\ new[next].staleHeadRescheduled
                    /\ new[next].src = later.src /\ later.st # "queued"
                    /\ later.st = "running" => new[next].st = "queued"
    <3> SUFFICES ASSUME next # 0
                 PROVE  /\ ~later.staleHeadRescheduled /\ next \in Reviews(new)
                        /\ new[next].parent = i /\ new[next].staleHeadRescheduled
                        /\ new[next].src = later.src /\ later.st # "queued"
                        /\ later.st = "running" => new[next].st = "queued"
      OBVIOUS
    <3>1. /\ ~row.staleHeadRescheduled /\ next \in Reviews(rows) /\ rows[next].parent = i
          /\ rows[next].staleHeadRescheduled /\ rows[next].src = row.src /\ row.st # "queued"
          /\ row.st = "running" => rows[next].st = "queued"
      BY <2>1 DEF RowSound
    <3>2. next \in DOMAIN rows /\ Follows(rows[next], new[next]) /\ RowSound(rows, next)
      BY <1>2, <3>1 DEF Reviews
    <3>3. rows[next].type = "review" /\ row.type = "review"
      BY <3>1, <3>2, <2>1, RowFields DEF Reviews, RowSound
    <3>4. (later.st = "running" => row.st = "running") /\ later.st # "queued"
      BY <2>1, <3>1 DEF Follows
    <3>5. later.st = "running" => new[next].st = "queued"
      BY <3>1, <3>2, <3>3, <3>4 DEF GrownBy
    <3> QED BY <1>4, <2>1, <3>1, <3>2, <3>4, <3>5 DEF Follows
  <2>8. later.parent = p /\ later.marks.replacement = next
    BY <2>1 DEF Follows
  <2> HIDE DEF p, next
  <2> QED BY <2>2, <2>4, <2>5, <2>6, <2>7, <2>8 DEF RowSound
<1>7. ASSUME NEW i \in DOMAIN new, i \notin DOMAIN rows
      PROVE  RowSound(new, i)
  BY <1>3, <1>7, RowFields DEF Fresh, RowSound, MarksSound, NoMarks
<1>8. ASSUME NEW i \in Reviews(new), NEW j \in Reviews(new),
             new[i].st = "running", new[j].st = "running"
      PROVE  i = j
  <2>1. i \in DOMAIN rows /\ j \in DOMAIN rows
    BY <1>3, <1>8 DEF Fresh, Reviews
  <2>2. rows[i].st = "running" /\ rows[j].st = "running"
    BY <1>2, <1>8, <2>1 DEF Follows
  <2> QED BY <1>4, <1>8, <2>1, <2>2 DEF RowsSound
<1>9. ASSUME NEW i \in DOMAIN new, NEW j \in DOMAIN new, new[i].parent = 0, new[j].parent = 0,
             new[i].type = new[j].type, new[i].event = new[j].event
      PROVE  i = j
  <2>1. CASE i \in DOMAIN rows /\ j \in DOMAIN rows
    BY <1>2, <1>9, <2>1 DEF Follows, RowsSound
  <2>2. CASE i \notin DOMAIN rows /\ j \notin DOMAIN rows
    BY <1>3, <2>2
  <2>3. CASE i \in DOMAIN rows /\ j \notin DOMAIN rows
    BY <1>2, <1>3, <1>9, <2>3 DEF Follows, Fresh, NoneFrom
  <2>4. CASE i \notin DOMAIN rows /\ j \in DOMAIN rows
    BY <1>2, <1>3, <1>9, <2>4 DEF Follows, Fresh, NoneFrom
  <2> QED BY <2>1, <2>2, <2>3, <2>4
<1>10. \A i \in DOMAIN new : RowSound(new, i)
  BY <1>6, <1>7
<1> QED BY <1>8, <1>9, <1>10 DEF RowsSound

\* What became of every row of a kind.
LEMMA SetStatusRows ==
  ASSUME NEW rows \in Seq(PrRow), NEW ids, NEW status \in {"cancelled", "superseded"},
         \A i \in ids : i \in DOMAIN rows /\ Live(rows[i])
  PROVE  LET new == SetStatus(rows, ids, status) IN
         /\ new \in Seq(PrRow) /\ Len(new) = Len(rows) /\ DOMAIN new = DOMAIN rows
         /\ \A i \in DOMAIN rows : /\ Follows(rows[i], new[i]) /\ (i \notin ids => new[i] = rows[i])
                                   /\ i \in ids => new[i].st = status /\ new[i].run = "none"
<1> DEFINE new == SetStatus(rows, ids, status)
<1>1. /\ DOMAIN rows = 1 .. Len(rows) /\ Len(rows) \in Nat
      /\ \A i \in DOMAIN rows : rows[i] \in PrRow
  BY RowsTyped
<1>2. ASSUME NEW row \in PrRow
      PROVE  LET y == [row EXCEPT !.st = status, !.run = "none"] IN
             Follows(row, y) \/ ~Live(row)
  <2> DEFINE y == [row EXCEPT !.st = status, !.run = "none"]
  <2>1. y \in PrRow
    BY DEF PrRow
  <2>2. /\ y.type = row.type /\ y.src = row.src /\ y.head = row.head /\ y.event = row.event
        /\ y.parent = row.parent /\ y.staleHeadRescheduled = row.staleHeadRescheduled
        /\ y.seen = row.seen /\ y.marks = row.marks
    BY DEF PrRow
  <2>3. y.st = status /\ y.run = "none"
    BY DEF PrRow
  <2> HIDE DEF y
  <2>4. Live(row) => Follows(row, y)
    BY <2>1, <2>2, <2>3 DEF Follows
  <2> QED BY <2>4 DEF y
<1>3. \A row \in PrRow :
         LET y == [row EXCEPT !.st = status, !.run = "none"] IN
         y \in PrRow /\ y.st = status /\ y.run = "none"
  BY DEF PrRow
<1>4. \A i \in DOMAIN rows :
        new[i] = IF i \in ids THEN [rows[i] EXCEPT !.st = status, !.run = "none"] ELSE rows[i]
  BY DEF SetStatus
<1>5. DOMAIN new = DOMAIN rows /\ \A i \in DOMAIN rows : new[i] \in PrRow
  BY <1>1, <1>3, <1>4 DEF SetStatus
<1>6. new \in [1 .. Len(rows) -> PrRow]
  <2>1. new = [i \in 1 .. Len(rows) |-> new[i]]
    BY <1>1 DEF SetStatus
  <2> QED BY <1>1, <1>5, <2>1
<1>7. new \in Seq(PrRow) /\ Len(new) = Len(rows)
  <2>1. new \in Seq(PrRow)
    BY <1>1, <1>6, SeqDef
  <2> QED BY <1>1, <1>5, <2>1, RowsTyped
<1> HIDE DEF new
<1>8. ASSUME NEW i \in DOMAIN rows
      PROVE  /\ Follows(rows[i], new[i]) /\ (i \notin ids => new[i] = rows[i])
             /\ i \in ids => new[i].st = status /\ new[i].run = "none"
  <2>1. CASE i \in ids
    BY <1>1, <1>2, <1>3, <1>4, <2>1
  <2>2. CASE i \notin ids
    BY <1>1, <1>4, <2>2 DEF Follows
  <2> QED BY <2>1, <2>2
<1> QED BY <1>5, <1>7, <1>8 DEF new

\* A row as it is inserted: queued, with no history.
LEMMA NewRowFresh ==
  ASSUME NEW kind \in {"review", "triage", "description", "verification"},
         NEW src \in {"auto", "slash"}, NEW head \in Nat, NEW event \in Nat
  PROVE  /\ Fresh(NewRow(kind, src, head, event), kind, event)
         /\ NewRow(kind, src, head, event) \in PrRow
         /\ NewRow(kind, src, head, event).src = src
BY DEF Fresh, NewRow, NoMarks, PrRow, PrMarks

\* Automatic work of a kind is superseded, but for the preserved rows that are still queued.
LEMMA SupersedeRows ==
  ASSUME NEW rows \in Seq(PrRow), NEW kind, NEW event, NEW preserved,
         NEW new, new = supersedeActiveAutoWork(rows, kind, preserved)
  PROVE  /\ GrownBy(rows, new, kind, event) /\ Len(new) = Len(rows) /\ DOMAIN new = DOMAIN rows
         /\ \A i \in DOMAIN rows : rows[i].src = "slash" => new[i] = rows[i]
         /\ \A i \in DOMAIN rows : i \in preserved /\ rows[i].st = "queued" => new[i] = rows[i]
         /\ \A i \in DOMAIN rows : ~Live(rows[i]) => new[i] = rows[i]
<1> DEFINE ids == SupersedeTargets(rows, kind, preserved)
<1>1. \A i \in ids : i \in DOMAIN rows /\ Live(rows[i]) /\ rows[i].src = "auto" /\ rows[i].type = kind
  BY DEF SupersedeTargets, Live
<1>2. /\ new \in Seq(PrRow) /\ Len(new) = Len(rows) /\ DOMAIN new = DOMAIN rows
      /\ \A i \in DOMAIN rows : /\ Follows(rows[i], new[i]) /\ (i \notin ids => new[i] = rows[i])
                                /\ i \in ids => new[i].st = "superseded" /\ new[i].run = "none"
  BY <1>1, SetStatusRows DEF supersedeActiveAutoWork
<1>3. ASSUME NEW i \in DOMAIN rows, NEW j \in DOMAIN rows,
             rows[i].type = rows[j].type, rows[i].src = rows[j].src,
             rows[i].st = "running", rows[j].st = "queued", new[i].st = "running"
      PROVE  new[j].st = "queued"
  <2>1. i \notin ids
    BY <1>2, <1>3
  <2>2. j \notin ids
    BY <1>1, <1>3, <2>1 DEF SupersedeTargets
  <2> QED BY <1>2, <1>3, <2>2
<1>4. \A i \in DOMAIN rows : i \in preserved /\ rows[i].st = "queued" => new[i] = rows[i]
  BY <1>2 DEF SupersedeTargets
<1>5. \A i \in DOMAIN rows : rows[i].src = "slash" \/ rows[i].type # kind \/ ~Live(rows[i])
                                => new[i] = rows[i]
  BY <1>1, <1>2
<1> HIDE DEF ids
<1>6. GrownBy(rows, new, kind, event)
  BY <1>2, <1>3, <1>5 DEF GrownBy
<1> QED BY <1>2, <1>4, <1>5, <1>6

\* Cancelling a kind ends its live rows and touches no other (cancelActiveWork).
LEMMA CancelRows ==
  ASSUME NEW rows \in Seq(PrRow), NEW kind, NEW event,
         NEW new, new = cancelActiveWork(rows, kind)
  PROVE  /\ GrownBy(rows, new, kind, event) /\ Len(new) = Len(rows) /\ DOMAIN new = DOMAIN rows
         /\ \A i \in DOMAIN rows : rows[i].type = kind => ~Live(new[i])
         /\ \A i \in DOMAIN rows : ~Live(rows[i]) => new[i] = rows[i]
<1> DEFINE ids == {i \in DOMAIN rows : rows[i].type = kind /\ Live(rows[i])}
<1>1. \A i \in ids : i \in DOMAIN rows /\ Live(rows[i]) /\ rows[i].type = kind
  OBVIOUS
<1>2. /\ new \in Seq(PrRow) /\ Len(new) = Len(rows) /\ DOMAIN new = DOMAIN rows
      /\ \A i \in DOMAIN rows : /\ Follows(rows[i], new[i]) /\ (i \notin ids => new[i] = rows[i])
                                /\ i \in ids => new[i].st = "cancelled" /\ new[i].run = "none"
  BY <1>1, SetStatusRows DEF cancelActiveWork
<1>3. \A i \in DOMAIN rows : rows[i].type # kind \/ ~Live(rows[i]) => new[i] = rows[i]
  BY <1>1, <1>2
<1>4. \A i \in DOMAIN rows : rows[i].type = kind => ~Live(new[i])
  BY <1>2 DEF Live
<1>5. ASSUME NEW i \in DOMAIN rows, NEW j \in DOMAIN rows,
             rows[i].type = rows[j].type, rows[i].st = "running", new[i].st = "running"
      PROVE  rows[j].st = "queued" => new[j].st = "queued"
  BY <1>2, <1>3, <1>4, <1>5 DEF Live
<1> HIDE DEF ids
<1>6. GrownBy(rows, new, kind, event)
  BY <1>2, <1>3, <1>5 DEF GrownBy
<1> QED BY <1>2, <1>3, <1>4, <1>6

\* Rows that were closed get one more row.
LEMMA AppendGrown ==
  ASSUME NEW rows \in Seq(PrRow), NEW left, NEW kind, NEW event, NEW row,
         GrownBy(rows, left, kind, event), Len(left) = Len(rows), Fresh(row, kind, event)
  PROVE  /\ GrownBy(rows, Append(left, row), kind, event)
         /\ Len(Append(left, row)) = Len(rows) + 1 /\ Append(left, row)[Len(rows) + 1] = row
         /\ Len(rows) + 1 \in DOMAIN Append(left, row)
         /\ \A i \in DOMAIN rows : Append(left, row)[i] = left[i] /\ i \in DOMAIN Append(left, row)
<1> DEFINE new == Append(left, row)
<1>1. left \in Seq(PrRow) /\ row \in PrRow
  BY DEF GrownBy, Fresh
<1>2. /\ DOMAIN rows = 1 .. Len(rows) /\ DOMAIN left = 1 .. Len(left) /\ Len(rows) \in Nat
      /\ new \in Seq(PrRow) /\ Len(new) = Len(left) + 1 /\ new[Len(left) + 1] = row
      /\ \A i \in DOMAIN left : new[i] = left[i]
  BY <1>1, RowsTyped
<1>3. DOMAIN new = 1 .. Len(new)
  BY <1>2, RowsTyped
<1> HIDE DEF new
<1>4. \A i \in DOMAIN rows : new[i] = left[i] /\ i \in DOMAIN new
  BY <1>2, <1>3
<1>5. GrownBy(rows, new, kind, event)
  BY <1>2, <1>4 DEF GrownBy
<1> QED BY <1>2, <1>3, <1>4, <1>5 DEF new

\* Rows left as they are.
LEMMA SameGrown ==
  ASSUME NEW rows \in Seq(PrRow), NEW kind, NEW event
  PROVE  GrownBy(rows, rows, kind, event)
BY RowsTyped DEF GrownBy, Follows

\* Automatic work of a kind gives way to one new automatic row (replaceAutoWorkItem).
LEMMA ReplaceRows ==
  ASSUME NEW rows \in Seq(PrRow), NEW kind \in {"review", "triage", "description", "verification"},
         NEW head \in Nat, NEW event \in Nat,
         NEW new, new = replaceAutoWorkItem(rows, kind, head, event)
  PROVE  /\ GrownBy(rows, new, kind, event)
         /\ Len(new) = Len(rows) + 1 /\ Len(rows) + 1 \in DOMAIN new
         /\ Fresh(new[Len(rows) + 1], kind, event)
         /\ new[Len(rows) + 1].src = "auto"
         /\ \A i \in DOMAIN rows : /\ i \in DOMAIN new
                                   /\ rows[i].src = "slash" => new[i] = rows[i]
<1> DEFINE left == supersedeActiveAutoWork(rows, kind, {})
           row == NewRow(kind, "auto", head, event)
<1>1. /\ GrownBy(rows, left, kind, event) /\ Len(left) = Len(rows)
      /\ \A i \in DOMAIN rows : rows[i].src = "slash" => left[i] = rows[i]
  <2>1. left = supersedeActiveAutoWork(rows, kind, {})
    OBVIOUS
  <2> HIDE DEF left
  <2> QED BY <2>1, SupersedeRows
<1>2. Fresh(row, kind, event) /\ row.src = "auto"
  BY NewRowFresh
<1> HIDE DEF left, row
<1>3. /\ GrownBy(rows, Append(left, row), kind, event)
      /\ Len(Append(left, row)) = Len(rows) + 1 /\ Append(left, row)[Len(rows) + 1] = row
      /\ Len(rows) + 1 \in DOMAIN Append(left, row)
      /\ \A i \in DOMAIN rows : Append(left, row)[i] = left[i] /\ i \in DOMAIN Append(left, row)
  BY <1>1, <1>2, AppendGrown
<1>4. new = Append(left, row)
  BY DEF replaceAutoWorkItem, left, row
<1> QED BY <1>1, <1>2, <1>3, <1>4

\* Rows closed twice.
LEMMA GrownTwice ==
  ASSUME NEW rows \in Seq(PrRow), NEW left, NEW new, NEW kind, NEW event,
         GrownBy(rows, left, kind, event), Len(left) = Len(rows),
         GrownBy(left, new, kind, event)
  PROVE  GrownBy(rows, new, kind, event)
<1>1. /\ left \in Seq(PrRow) /\ new \in Seq(PrRow) /\ DOMAIN left = DOMAIN rows
      /\ \A i \in DOMAIN rows : rows[i] \in PrRow /\ left[i] \in PrRow /\ new[i] \in PrRow
  <2>1. left \in Seq(PrRow) /\ new \in Seq(PrRow) /\ Len(left) = Len(rows)
    BY DEF GrownBy
  <2>2. \A i \in DOMAIN rows : Follows(rows[i], left[i])
    BY DEF GrownBy
  <2>3. DOMAIN left = DOMAIN rows
    BY <2>1, RowsTyped
  <2>4. \A i \in DOMAIN left : Follows(left[i], new[i])
    BY DEF GrownBy
  <2> QED BY <2>1, <2>2, <2>3, <2>4, RowsTyped DEF Follows
<1>2. ASSUME NEW i \in DOMAIN rows
      PROVE  Follows(rows[i], new[i]) /\ (rows[i].type # kind => new[i] = rows[i])
  <2>1. /\ Follows(rows[i], left[i]) /\ (rows[i].type # kind => left[i] = rows[i])
        /\ Follows(left[i], new[i]) /\ (left[i].type # kind => new[i] = left[i])
    BY <1>1 DEF GrownBy
  <2> QED BY <1>1, <2>1, RowFields DEF Follows, Live
<1>3. ASSUME NEW i \in DOMAIN rows, NEW j \in DOMAIN rows,
             rows[i].type = rows[j].type, rows[i].src = rows[j].src,
             rows[i].st = "running", rows[j].st = "queued", new[i].st = "running"
      PROVE  new[j].st = "queued"
  <2>1. /\ Follows(rows[i], left[i]) /\ Follows(rows[j], left[j]) /\ Follows(left[i], new[i])
    BY <1>1 DEF GrownBy
  <2>2. left[i].st = "running"
    BY <1>3, <2>1 DEF Follows
  <2>3. left[j].st = "queued"
    BY <1>3, <2>2 DEF GrownBy
  <2>4. left[i].type = left[j].type /\ left[i].src = left[j].src
    BY <1>3, <2>1 DEF Follows
  <2> QED BY <1>1, <1>3, <2>2, <2>3, <2>4 DEF GrownBy
<1> QED BY <1>1, <1>2, <1>3 DEF GrownBy

\* The one line by which rows grow.
LEMMA LastRow ==
  ASSUME NEW rows \in Seq(PrRow), NEW new, NEW kind, NEW event, GrownBy(rows, new, kind, event)
  PROVE  \A i \in DOMAIN new : i \notin DOMAIN rows =>
           /\ i = Len(rows) + 1 /\ Len(new) = Len(rows) + 1 /\ Fresh(new[i], kind, event)
<1>1. /\ Len(rows) \in Nat /\ DOMAIN rows = 1 .. Len(rows) /\ DOMAIN new = 1 .. Len(new)
  BY RowsTyped DEF GrownBy
<1>2. Len(new) = Len(rows) \/ (Len(new) = Len(rows) + 1 /\ Fresh(new[Len(new)], kind, event))
  BY DEF GrownBy
<1>3. \A i \in 1 .. Len(rows) + 1 : i \notin 1 .. Len(rows) => i = Len(rows) + 1
  BY <1>1
<1> QED BY <1>1, <1>2, <1>3

-----------------------------------------------------------------------------
(* A push, with every_push *)

\* A row as it was, but for the marker.
Restamped(x, y) ==
    /\ Follows(x, y) /\ y.st = x.st /\ y.run = x.run

\* The running slash reviews get the marker.
Stamp(rows, ids) ==
    [i \in DOMAIN rows |-> IF i \in ids THEN [rows[i] EXCEPT !.marks.stamped = TRUE] ELSE rows[i]]

\* Stamping a running slash review changes its marker and nothing else.
LEMMA StampRows ==
  ASSUME NEW rows \in Seq(PrRow), NEW left, NEW event, NEW ids,
         GrownBy(rows, left, "review", event), Len(left) = Len(rows),
         \A i \in ids : i \in Reviews(rows) /\ left[i] = rows[i],
         NEW new, new = Stamp(left, ids)
  PROVE  /\ GrownBy(rows, new, "review", event) /\ Len(new) = Len(rows) /\ DOMAIN new = DOMAIN rows
         /\ \A i \in DOMAIN rows : i \notin ids => new[i] = left[i]
         /\ \A i \in ids : Restamped(rows[i], new[i]) /\ new[i].marks.stamped
<1> DEFINE stamped(row) == [row EXCEPT !.marks.stamped = TRUE]
<1>1. /\ DOMAIN rows = 1 .. Len(rows) /\ DOMAIN left = 1 .. Len(rows) /\ Len(rows) \in Nat
      /\ \A i \in DOMAIN rows : rows[i] \in PrRow /\ left[i] \in PrRow
  <2>1. left \in Seq(PrRow)
    BY DEF GrownBy
  <2> QED BY <2>1, RowsTyped
<1>2. ASSUME NEW row \in PrRow
      PROVE  Restamped(row, stamped(row)) /\ stamped(row).marks.stamped
  <2> DEFINE y == stamped(row)
  <2>1. y.marks \in PrMarks /\ y.marks.stamped /\ y.marks.kid = row.marks.kid
        /\ y.marks.replacement = row.marks.replacement
    BY DEF PrRow, PrMarks
  <2>2. y \in PrRow
    BY DEF PrRow, PrMarks
  <2>3. /\ y.type = row.type /\ y.src = row.src /\ y.head = row.head /\ y.event = row.event
        /\ y.parent = row.parent /\ y.staleHeadRescheduled = row.staleHeadRescheduled
        /\ y.seen = row.seen /\ y.st = row.st /\ y.run = row.run
    BY DEF PrRow
  <2> HIDE DEF y
  <2>4. Restamped(row, y)
    BY <2>1, <2>2, <2>3 DEF Restamped, Follows
  <2> QED BY <2>1, <2>4 DEF y
<1>20. new = [i \in DOMAIN left |-> IF i \in ids THEN stamped(left[i]) ELSE left[i]]
  BY DEF Stamp
<1> HIDE DEF stamped
<1>3. \A i \in DOMAIN rows : /\ i \in ids => Restamped(rows[i], new[i]) /\ new[i].marks.stamped
                             /\ i \notin ids => new[i] = left[i]
  BY <1>1, <1>2, <1>20
<1>4. \A i \in DOMAIN rows : new[i] \in PrRow
  BY <1>1, <1>3 DEF Restamped, Follows
<1>5. new \in Seq(PrRow) /\ Len(new) = Len(rows) /\ DOMAIN new = DOMAIN rows
  <2>1. new = [i \in 1 .. Len(rows) |-> new[i]]
    BY <1>1, <1>20
  <2>2. new \in [1 .. Len(rows) -> PrRow]
    BY <1>1, <1>4, <2>1
  <2>3. new \in Seq(PrRow)
    BY <1>1, <2>2, SeqDef
  <2> QED BY <1>1, <2>1, <2>3, RowsTyped
<1>6. GrownBy(rows, new, "review", event)
  <2>1. \A i \in DOMAIN rows : Follows(rows[i], left[i]) /\ (rows[i].type # "review" => left[i] = rows[i])
    BY DEF GrownBy
  <2>2. \A i \in DOMAIN rows : Follows(rows[i], new[i]) /\ (rows[i].type # "review" => new[i] = rows[i])
    BY <1>3, <2>1 DEF Restamped, Reviews
  <2>3. \A i \in DOMAIN rows : new[i].st = left[i].st
    BY <1>3 DEF Restamped
  <2>4. \A i, j \in DOMAIN rows :
          /\ rows[i].type = rows[j].type /\ rows[i].src = rows[j].src
          /\ rows[i].st = "running" /\ rows[j].st = "queued" /\ left[i].st = "running"
          => left[j].st = "queued"
    BY DEF GrownBy
  <2>5. \A i, j \in DOMAIN rows :
          /\ rows[i].type = rows[j].type /\ rows[i].src = rows[j].src
          /\ rows[i].st = "running" /\ rows[j].st = "queued" /\ new[i].st = "running"
          => new[j].st = "queued"
    BY <2>3, <2>4
  <2> QED BY <1>5, <2>2, <2>5 DEF GrownBy
<1>7. \A i \in ids : i \in DOMAIN rows
  BY DEF Reviews
<1> QED BY <1>3, <1>5, <1>6, <1>7

\* The review an admitted push queues (insertEveryPushReview).
LEMMA InsertRows ==
  ASSUME NEW rows \in Seq(PrRow), NEW event \in Nat, NEW new, new = insertEveryPushReview(rows, event)
  PROVE  /\ GrownBy(rows, new, "review", event)
         /\ Len(new) = Len(rows) + 1 /\ Len(rows) + 1 \in DOMAIN new
         /\ Fresh(new[Len(rows) + 1], "review", event)
         /\ new[Len(rows) + 1].src = "auto"
         /\ \A i \in DOMAIN rows : i \in DOMAIN new /\ (rows[i].src = "slash" => new[i] = rows[i])
<1>1. DEFERRED_HEAD_SHA \in Nat /\ "review" \in {"review", "triage", "description", "verification"}
  BY DEF DEFERRED_HEAD_SHA
<1>2. new = replaceAutoWorkItem(rows, "review", DEFERRED_HEAD_SHA, event)
  BY DEF insertEveryPushReview
<1> QED BY <1>1, <1>2, ReplaceRows

\* What a push does to the reviews: slash reviews keep their status, the running ones are stamped,
\* and unless the one at work stands alone without a follow-up, some review is queued.
LEMMA EveryPushRows ==
  ASSUME NEW rows \in Seq(PrRow), NEW event \in Nat, RowsSound(rows)
  PROVE  LET new == applyEveryPushReviewSupersede(rows, event) IN
         /\ GrownBy(rows, new, "review", event)
         /\ \A i \in Reviews(rows) : rows[i].src = "slash" =>
              /\ Restamped(rows[i], new[i])
              /\ rows[i].st = "running" => new[i].marks.stamped
         /\ \A i \in DOMAIN new : i \notin DOMAIN rows => new[i].src = "auto" /\ new[i].st = "queued"
         /\ \/ HasQueued(new)
            \/ \E u \in Reviews(rows) :
                 /\ rows[u].src = "slash" /\ rows[u].st = "running" /\ rows[u].marks.kid = 0
                 /\ \A i \in lockActiveSlashReviews(rows) : i = u
<1> DEFINE slash == lockActiveSlashReviews(rows)
           followUps == {rows[i].marks.kid : i \in slash} \ {0}
           preserved == followUpIdsWithLiveReviewJob(rows, followUps)
           left == supersedeActiveAutoWork(rows, "review", preserved)
           unstamped == UnstampedRunning(rows)
           stamps == [i \in DOMAIN left |-> IF i \in unstamped
                        THEN [left[i] EXCEPT !.marks.stamped = TRUE] ELSE left[i]]
           new == applyEveryPushReviewSupersede(rows, event)
<1>1. /\ slash \subseteq Reviews(rows) /\ unstamped \subseteq slash
      /\ \A i \in slash : rows[i].src = "slash" /\ Live(rows[i])
      /\ \A i \in Reviews(rows) : rows[i].src = "slash" /\ Live(rows[i]) => i \in slash
      /\ \A i \in slash : i \in unstamped <=> rows[i].st = "running" /\ ~rows[i].marks.stamped
  BY DEF lockActiveSlashReviews, UnstampedRunning
<1>2. /\ GrownBy(rows, left, "review", event) /\ Len(left) = Len(rows) /\ DOMAIN left = DOMAIN rows
      /\ \A i \in DOMAIN rows : rows[i].src = "slash" => left[i] = rows[i]
      /\ \A i \in DOMAIN rows : i \in preserved /\ rows[i].st = "queued" => left[i] = rows[i]
  <2>1. left = supersedeActiveAutoWork(rows, "review", preserved)
    OBVIOUS
  <2> HIDE DEF slash, followUps, preserved, unstamped, stamps, new, left
  <2> QED BY <2>1, SupersedeRows
<1>3. new = IF slash = {} THEN insertEveryPushReview(rows, event)
            ELSE IF unstamped # {} THEN stamps
            ELSE IF followUps = {} \/ \E i \in preserved : left[i].st = "queued" THEN left
            ELSE insertEveryPushReview(left, event)
  BY DEF applyEveryPushReviewSupersede
<1>4. /\ DOMAIN rows = 1 .. Len(rows) /\ Reviews(rows) \subseteq DOMAIN rows /\ Len(rows) \in Nat
      /\ \A i \in DOMAIN rows : rows[i] \in PrRow /\ RowSound(rows, i)
  BY RowsTyped DEF RowsSound
<1>5. \A i \in DOMAIN rows : Restamped(rows[i], rows[i])
  BY <1>4 DEF Restamped, Follows
<1> HIDE DEF new
<1>6. CASE slash = {}
  <2>1. new = insertEveryPushReview(rows, event)
    BY <1>3, <1>6
  <2>3. /\ GrownBy(rows, new, "review", event) /\ Len(new) = Len(rows) + 1
        /\ Len(rows) + 1 \in DOMAIN new /\ Fresh(new[Len(rows) + 1], "review", event)
        /\ new[Len(rows) + 1].src = "auto"
        /\ \A i \in DOMAIN rows : i \in DOMAIN new /\ (rows[i].src = "slash" => new[i] = rows[i])
    BY <2>1, InsertRows
  <2>4. \A i \in DOMAIN new : i \notin DOMAIN rows => i = Len(rows) + 1
    BY <1>4, <2>3, LastRow
  <2>5. HasQueued(new)
    BY <2>3 DEF HasQueued, Reviews, Fresh
  <2>6. \A i \in Reviews(rows) : rows[i].src = "slash" => rows[i].st # "running"
    BY <1>1, <1>6 DEF Live
  <2> QED BY <1>4, <1>5, <2>3, <2>4, <2>5, <2>6 DEF Fresh, new
<1>7. CASE slash # {} /\ unstamped # {}
  <2>1. new = stamps
    BY <1>3, <1>7
  <2>2. \A i \in unstamped : i \in Reviews(rows) /\ left[i] = rows[i]
    BY <1>1, <1>2, <1>4
  <2>3. /\ GrownBy(rows, new, "review", event) /\ Len(new) = Len(rows) /\ DOMAIN new = DOMAIN rows
        /\ \A i \in DOMAIN rows : i \notin unstamped => new[i] = left[i]
        /\ \A i \in unstamped : Restamped(rows[i], new[i]) /\ new[i].marks.stamped
    <3>1. new = Stamp(left, unstamped)
      BY <2>1 DEF Stamp
    <3> HIDE DEF left, unstamped, slash, followUps, preserved, stamps
    <3>2. \A l, ids, n :
            /\ GrownBy(rows, l, "review", event) /\ Len(l) = Len(rows)
            /\ \A i \in ids : i \in Reviews(rows) /\ l[i] = rows[i]
            /\ n = Stamp(l, ids)
            => /\ GrownBy(rows, n, "review", event) /\ Len(n) = Len(rows) /\ DOMAIN n = DOMAIN rows
               /\ \A i \in DOMAIN rows : i \notin ids => n[i] = l[i]
               /\ \A i \in ids : Restamped(rows[i], n[i]) /\ n[i].marks.stamped
      BY StampRows
    <3> QED BY <1>2, <2>2, <3>1, <3>2
  <2>4. ASSUME NEW i \in Reviews(rows), rows[i].src = "slash"
        PROVE  Restamped(rows[i], new[i]) /\ (rows[i].st = "running" => new[i].marks.stamped)
    <3>1. CASE i \in unstamped
      BY <2>3, <3>1
    <3>2. CASE i \notin unstamped
      <4>1. new[i] = rows[i]
        BY <1>2, <1>4, <2>3, <2>4, <3>2
      <4> QED BY <1>1, <1>4, <1>5, <2>4, <3>2, <4>1 DEF Live
    <3> QED BY <3>1, <3>2
  <2>5. PICK u \in unstamped : TRUE
    BY <1>7
  <2>6. /\ u \in Reviews(rows) /\ rows[u].src = "slash" /\ rows[u].st = "running"
        /\ ~rows[u].marks.stamped /\ rows[u].marks.kid = 0
    BY <1>1, <1>4, <2>5 DEF RowSound, MarksSound
  <2>7. ASSUME NEW i \in slash, i # u
        PROVE  HasQueued(new)
    <3>1. rows[i].st = "queued"
      BY <1>1, <2>6, <2>7 DEF RowsSound, Live
    <3>2. i \in Reviews(rows) /\ i \in DOMAIN new /\ Restamped(rows[i], new[i])
      BY <1>1, <1>4, <2>3, <2>4
    <3> QED BY <3>1, <3>2 DEF HasQueued, Reviews, Restamped, Follows
  <2> QED BY <2>3, <2>4, <2>6, <2>7 DEF new
<1>8. CASE slash # {} /\ unstamped = {}
  <2>1. \A i \in Reviews(rows) : rows[i].src = "slash" /\ rows[i].st = "running" => rows[i].marks.stamped
    BY <1>1, <1>8 DEF Live
  <2>2. ASSUME NEW i \in slash, rows[i].marks.kid = 0, ~HasQueued(new),
               \A j \in DOMAIN rows : rows[j].src = "slash" => new[j] = rows[j] /\ j \in DOMAIN new
        PROVE  \E u \in Reviews(rows) :
                 /\ rows[u].src = "slash" /\ rows[u].st = "running" /\ rows[u].marks.kid = 0
                 /\ \A j \in lockActiveSlashReviews(rows) : j = u
    <3>1. \A j \in slash : rows[j].st = "running"
      BY <1>1, <1>4, <2>2 DEF HasQueued, Reviews, Live
    <3>2. \A j \in slash : j = i
      BY <1>1, <3>1 DEF RowsSound
    <3> QED BY <1>1, <2>2, <3>1, <3>2
  <2>3. CASE followUps = {}
    <3>1. new = left
      BY <1>3, <1>8, <2>3
    <3>2. PICK i \in slash : TRUE
      BY <1>8
    <3>3. rows[i].marks.kid = 0
      BY <2>3, <3>2
    <3> QED BY <1>2, <1>4, <1>5, <2>1, <2>2, <3>1, <3>2, <3>3 DEF new
  <2>4. CASE \E i \in preserved : left[i].st = "queued"
    <3>1. new = left
      BY <1>3, <1>8, <2>4
    <3>2. PICK i \in preserved : left[i].st = "queued"
      BY <2>4
    <3>3. i \in Reviews(rows)
      BY <1>1, <1>4, <3>2 DEF followUpIdsWithLiveReviewJob, RowSound, MarksSound
    <3>4. i \in Reviews(left)
      BY <1>2, <1>4, <3>3 DEF GrownBy, Follows, Reviews
    <3>5. HasQueued(new)
      BY <3>1, <3>2, <3>4 DEF HasQueued
    <3> QED BY <1>2, <1>4, <1>5, <2>1, <3>1, <3>5 DEF new
  <2>5. CASE followUps # {} /\ ~\E i \in preserved : left[i].st = "queued"
    <3>1. new = insertEveryPushReview(left, event)
      BY <1>3, <1>8, <2>5
    <3>2. left \in Seq(PrRow)
      BY <1>2 DEF GrownBy
    <3> HIDE DEF left, followUps, preserved, unstamped, slash, stamps
    <3>3. /\ GrownBy(left, new, "review", event) /\ Len(new) = Len(left) + 1
          /\ Len(left) + 1 \in DOMAIN new /\ Fresh(new[Len(left) + 1], "review", event)
          /\ new[Len(left) + 1].src = "auto"
          /\ \A i \in DOMAIN left : i \in DOMAIN new /\ (left[i].src = "slash" => new[i] = left[i])
      BY <3>1, <3>2, InsertRows
    <3>4. GrownBy(rows, new, "review", event)
      BY <1>2, <3>3, GrownTwice
    <3>5. \A i \in DOMAIN rows : rows[i].src = "slash" => new[i] = rows[i]
      BY <1>2, <3>3
    <3>6. \A i \in DOMAIN new : i \notin DOMAIN rows => i = Len(left) + 1
      BY <1>2, <3>2, <3>3, LastRow
    <3>7. HasQueued(new)
      BY <3>3 DEF HasQueued, Reviews, Fresh
    <3> QED BY <1>4, <1>5, <2>1, <3>3, <3>4, <3>5, <3>6, <3>7 DEF Fresh, new
  <2> QED BY <2>3, <2>4, <2>5
<1> QED BY <1>6, <1>7, <1>8

-----------------------------------------------------------------------------
(* A delivery *)

\* The reviews are untouched, whatever other work was added.
SameReviews(rows, new) ==
    Reviews(new) = Reviews(rows) /\ \A i \in Reviews(rows) : new[i] = rows[i]

\* No review is queued or running.
Quiet(rows) == \A i \in Reviews(rows) : ~Live(rows[i])

\* HeldUntilApproved, of given rows.
Held(rows, state) ==
    /\ state = "awaiting" => Reviews(rows) = {}
    /\ state = "withdrawn" =>
         \A i \in Reviews(rows) : \E j \in Reviews(rows) : j <= i /\ rows[j].src = "slash"

\* DoneSound, of given rows.
Covered(rows, done) ==
    \A i \in Reviews(rows) :
      /\ rows[i].run = "published" => rows[i].head <= done
      /\ rows[i].run = "checked" => rows[i].head <= done \/ rows[i].marks.replacement # 0

\* WillAnswer, for a given head.
Answers(row, head) ==
    \/ row.st = "queued"
    \/ row.st = "running" /\ \/ row.run = "working"
                             \/ row.head >= head
                             \/ row.run = "published" /\ row.src = "slash" /\ row.marks.stamped

\* What OwedSound asks of the rows while a head is owed a review.
OwedConds(rows, head) ==
    /\ \A i \in Reviews(rows) : rows[i].src = "slash" => SlashAnswers(rows, i)
    /\ \E i \in Reviews(rows) : Answers(rows[i], head)

\* The conjuncts of the invariant about rows, with the rows as a parameter.
LEMMA IntakeParts ==
  /\ NoReviewWhileClosed <=> (PrClosed => Quiet(prRows) /\ prApproval.state # "awaiting")
  /\ HeldUntilApproved <=> Held(prRows, prApproval.state)
  /\ DoneSound <=> Covered(prRows, prOwed.done)
  /\ OwedSound <=> (prOwed.head # 0 =>
       /\ prFeatures.cadence = "every_push"
       /\ prOwed.done < prOwed.head /\ prOwed.head <= prGithub.head
       /\ OwedConds(prRows, prOwed.head))
<1>1. \A i : WillAnswer(prRows[i]) <=> Answers(prRows[i], prOwed.head)
  BY DEF WillAnswer, Answers
<1>2. OwedSound <=> (prOwed.head # 0 =>
       /\ prFeatures.cadence = "every_push"
       /\ prOwed.done < prOwed.head /\ prOwed.head <= prGithub.head
       /\ OwedConds(prRows, prOwed.head))
  BY <1>1 DEF OwedSound, OwedConds, PushAnswered
<1>3. DoneSound <=> Covered(prRows, prOwed.done)
  BY DEF DoneSound, Covered
<1> QED BY <1>2, <1>3 DEF NoReviewWhileClosed, Quiet, HeldUntilApproved, Held

\* Work of another kind leaves the reviews alone, and so what holds of them.
LEMMA ReviewsCarry ==
  ASSUME NEW rows, NEW new, SameReviews(rows, new)
  PROVE  /\ Quiet(rows) => Quiet(new)
         /\ \A state : Held(rows, state) => Held(new, state)
         /\ \A done : Covered(rows, done) => Covered(new, done)
         /\ \A head : OwedConds(rows, head) => OwedConds(new, head)
<1>1. /\ HasQueued(rows) => HasQueued(new)
      /\ HasQueuedSlash(rows) => HasQueuedSlash(new)
  BY DEF SameReviews, HasQueued, HasQueuedSlash
<1>2. \A i \in Reviews(rows) : SlashAnswers(rows, i) => SlashAnswers(new, i)
  BY <1>1 DEF SameReviews, SlashAnswers
<1>3. \A head : OwedConds(rows, head) => OwedConds(new, head)
  BY <1>2 DEF OwedConds, SameReviews
<1> QED BY <1>3 DEF SameReviews, Quiet, Held, Covered

\* Work of another kind grows beside the reviews.
LEMMA OtherKind ==
  ASSUME NEW rows \in Seq(PrRow), NEW new, NEW kind, NEW event,
         GrownBy(rows, new, kind, event), kind # "review"
  PROVE  SameReviews(rows, new)
<1>1. \A i \in DOMAIN new : i \notin DOMAIN rows => Fresh(new[i], kind, event)
  BY LastRow
<1>2. \A i \in DOMAIN rows : i \in DOMAIN new
  <2>1. new \in Seq(PrRow) /\ Len(new) \in {Len(rows), Len(rows) + 1}
    BY DEF GrownBy
  <2> QED BY <2>1, RowsTyped
<1>3. \A i \in DOMAIN rows : Follows(rows[i], new[i]) /\ (rows[i].type # kind => new[i] = rows[i])
  BY DEF GrownBy
<1> QED BY <1>1, <1>2, <1>3 DEF SameReviews, Reviews, Follows, Fresh

\* Rows that grew are sound, known, and as free of an event in every other kind.
LEMMA GrownStep ==
  ASSUME NEW rows \in Seq(PrRow), NEW new, NEW kind, NEW event,
         RowsSound(rows), GrownBy(rows, new, kind, event), NoneFrom(rows, kind, event)
  PROVE  /\ new \in Seq(PrRow) /\ RowsSound(new)
         /\ \A known : (\A i \in DOMAIN rows : rows[i].event \in known) /\ event \in known
                          => \A i \in DOMAIN new : new[i].event \in known
         /\ \A other : other # kind /\ NoneFrom(rows, other, event) => NoneFrom(new, other, event)
<1>1. new \in Seq(PrRow) /\ RowsSound(new)
  BY GrownKeepsRows DEF GrownBy
<1>2. \A i \in DOMAIN new : i \notin DOMAIN rows => Fresh(new[i], kind, event)
  BY LastRow
<1>3. \A i \in DOMAIN rows : Follows(rows[i], new[i])
  BY DEF GrownBy
<1> QED BY <1>1, <1>2, <1>3 DEF Follows, Fresh, NoneFrom

\* Growing publishes nothing.
LEMMA GrownCovered ==
  ASSUME NEW rows \in Seq(PrRow), NEW new, NEW kind, NEW event, NEW done \in Nat,
         GrownBy(rows, new, kind, event), Covered(rows, done)
  PROVE  Covered(new, done)
<1>1. \A i \in DOMAIN new : i \notin DOMAIN rows => Fresh(new[i], kind, event)
  BY LastRow
<1>2. \A i \in DOMAIN rows : Follows(rows[i], new[i])
  BY DEF GrownBy
<1> QED BY <1>1, <1>2 DEF Covered, Reviews, Follows, Fresh

\* What a delivery owes: its effect on the reviews, and on the other rows after that.
LEMMA DeliveryKeeps ==
  ASSUME IntakeInv, NEW m \in prMail, NEW id, insertWebhookEvent(m, id), Accept(m, id),
         UNCHANGED <<prFeatures, prGithub, prMail>>,
         NEW rows, GrownBy(prRows, rows, "review", m.n), SameReviews(rows, prRows'),
         prRows' \in Seq(PrRow), RowsSound(prRows'),
         \A i \in DOMAIN prRows' : prRows'[i].event \in prEvents.bodies \cup {m.n},
         LifeSound', prLife' \in [state : PrStates \cup {"none"}, at : Nat],
         prApproval' \in [state : {"none", "awaiting", "approved", "withdrawn"}, head : Nat,
                          workflowStartAdmits : BOOLEAN],
         prOwed' \in [head : Nat, done : Nat], prOwed'.done = prOwed.done,
         PrClosed' => Quiet(rows) /\ prApproval'.state # "awaiting",
         prApproval'.state # "none" => prApproval.state # "none"
                                         \/ (prFeatures.review = "approval" /\ m.n = 1),
         Held(rows, prApproval'.state),
         prOwed'.head # 0 => /\ prFeatures.cadence = "every_push"
                             /\ prOwed.done < prOwed'.head /\ prOwed'.head <= prGithub.head
                             /\ OwedConds(rows, prOwed'.head)
  PROVE  IntakeInv'
<1>1. /\ IntakeTyped /\ MailSound /\ ApprovalSound /\ EventsKnown /\ prRows \in Seq(PrRow)
      /\ prOwed.done \in Nat /\ Covered(prRows, prOwed.done)
  BY IntakeParts DEF IntakeInv, IntakeTyped
<1>2. prEvents'.bodies = prEvents.bodies \cup {m.n}
  BY DEF Accept
<1>3. IntakeTyped'
  BY <1>1 DEF IntakeTyped
<1>4. MailSound'
  BY <1>1, <1>2 DEF MailSound
<1>5. EventsKnown'
  BY <1>2 DEF EventsKnown
<1>6. Quiet(rows) => Quiet(prRows')
  BY ReviewsCarry
<1>7. NoReviewWhileClosed'
  BY <1>6 DEF NoReviewWhileClosed, Quiet
<1>8. Held(prRows', prApproval'.state)
  BY ReviewsCarry
<1>9. ApprovalSound'
  BY <1>1, <1>2, <1>8 DEF ApprovalSound, HeldUntilApproved, Held
<1>10. Covered(prRows', prOwed.done)
  <2>1. Covered(rows, prOwed.done)
    BY <1>1, GrownCovered
  <2> QED BY <2>1, ReviewsCarry
<1>11. DoneSound'
  BY <1>10 DEF DoneSound, Covered
<1>12. prOwed'.head # 0 => OwedConds(prRows', prOwed'.head)
  BY ReviewsCarry
<1>13. OwedSound'
  <2> SUFFICES ASSUME prOwed'.head # 0 PROVE OwedSound'
    BY DEF OwedSound
  <2>1. \A i : WillAnswer(prRows[i])' <=> Answers(prRows'[i], prOwed'.head)
    BY DEF WillAnswer, Answers
  <2>2. PushAnswered'
    BY <1>12, <2>1 DEF OwedConds, PushAnswered
  <2> QED BY <1>12, <2>2 DEF OwedSound, OwedConds
<1> QED BY <1>3, <1>4, <1>5, <1>7, <1>9, <1>11, <1>13 DEF IntakeInv

\* The lifecycle row and an event that does not observe it.
LEMMA LifeKept ==
  ASSUME IntakeInv, NEW m \in prMail, NEW id, Accept(m, id),
         UNCHANGED <<prFeatures, prGithub, prMail, prLife>>,
         m.kind \notin {"closed", "merged", "reopened"}
  PROVE  LifeSound'
<1>1. LifeSound /\ MailSound /\ prEvents'.bodies = prEvents.bodies \cup {m.n}
  BY DEF IntakeInv, Accept
<1>2. \A k \in prMail : k.n = m.n => k = m
  BY <1>1 DEF MailSound
<1>3. LifecycleIsNewest'
  BY <1>1, <1>2 DEF LifeSound, LifecycleIsNewest, Rank
<1> QED BY <1>1, <1>3 DEF LifeSound

\* An observation: the newest wins, whatever the order in which they arrive.
LEMMA LifeObserved ==
  ASSUME IntakeInv, NEW m \in prMail, NEW id, Accept(m, id),
         UNCHANGED <<prFeatures, prGithub, prMail>>, m.kind \in {"closed", "merged", "reopened"},
         IF reviewLifecycleObservationAccepted(m) THEN recordReviewLifecycleObservation(m)
         ELSE UNCHANGED prLife
  PROVE  LifeSound' /\ prLife' \in [state : PrStates \cup {"none"}, at : Nat]
<1>1. /\ LifeSound /\ MailSound /\ prEvents'.bodies = prEvents.bodies \cup {m.n}
      /\ prLife \in [state : PrStates \cup {"none"}, at : Nat] /\ m \in PrJob
      /\ prGithub.at \in Nat /\ prMail \subseteq PrJob
  BY DEF IntakeInv, IntakeTyped, Accept
<1>2. /\ m.at \in Nat /\ m.at <= prGithub.at /\ m.state \in PrStates /\ prLife.at \in Nat
      /\ prLife.state \in PrStates \cup {"none"}
      /\ m.kind = "reopened" => m.state = "open"
      /\ m.kind # "reopened" => m.state = m.kind
      /\ m.kind = "merged" => prGithub.state = "merged" /\ m.at = prGithub.at
      /\ \A k \in prMail : k.n = m.n => k = m
      /\ \A k \in prMail : k.at \in Nat /\ k.at <= prGithub.at /\ k.state \in PrStates
      /\ prLife.state = "none" => prLife = NoLife
      /\ prLife.state = "merged" => prGithub.state = "merged" /\ prLife.at = prGithub.at
  BY <1>1 DEF MailSound, LifeSound, PrJob
<1>3. CASE reviewLifecycleObservationAccepted(m)
  <2>1. prLife' = [state |-> m.state, at |-> m.at]
    BY <1>3 DEF recordReviewLifecycleObservation
  <2>2. \/ prLife = NoLife
        \/ m.at > prLife.at
        \/ m.at = prLife.at /\ (m.state = "merged" \/ (m.state = "closed" /\ prLife.state = "open"))
    BY <1>3 DEF reviewLifecycleObservationAccepted
  <2>3. ASSUME NEW k \in prMail, k.n \in prEvents'.bodies, k.kind \in {"closed", "merged", "reopened"}
        PROVE  m.at > k.at \/ (m.at = k.at /\ Rank(m.state) >= Rank(k.state))
    <3>1. CASE k = m
      BY <1>2, <3>1 DEF Rank, PrStates
    <3>2. CASE k # m
      <4>1. prLife.at > k.at \/ (prLife.at = k.at /\ Rank(prLife.state) >= Rank(k.state))
        BY <1>1, <1>2, <2>3, <3>2 DEF LifeSound, LifecycleIsNewest
      <4>2. prLife # NoLife
        BY <1>2, <4>1 DEF NoLife, Rank, PrStates
      <4> QED BY <1>2, <2>2, <4>1, <4>2 DEF Rank, PrStates
    <3> QED BY <3>1, <3>2
  <2>4. LifecycleIsNewest'
    BY <2>1, <2>3 DEF LifecycleIsNewest, Rank
  <2>5. prLife'.state = "merged" => prGithub.state = "merged" /\ prLife'.at = prGithub.at
    BY <1>2, <2>1
  <2> QED BY <1>2, <2>1, <2>4, <2>5 DEF LifeSound, PrStates
<1>4. CASE ~reviewLifecycleObservationAccepted(m)
  <2>1. prLife' = prLife /\ prLife # NoLife /\ prLife.state # "none"
    BY <1>2, <1>4 DEF reviewLifecycleObservationAccepted
  <2>2. prLife.at > m.at \/ (prLife.at = m.at /\ Rank(prLife.state) >= Rank(m.state))
    BY <1>2, <1>4, <2>1 DEF reviewLifecycleObservationAccepted, Rank, PrStates
  <2>3. LifecycleIsNewest'
    BY <1>1, <1>2, <2>1, <2>2 DEF LifeSound, LifecycleIsNewest, Rank
  <2> QED BY <1>1, <2>1, <2>3 DEF LifeSound
<1> QED BY <1>3, <1>4

\* FoundPastCheck, of given rows.
PastCheck(rows) ==
    /\ lockActiveSlashReviews(rows) # {}
    /\ \A i \in lockActiveSlashReviews(rows) : rows[i].run = "checked" /\ rows[i].marks.kid = 0

\* After an admitted push a review of it will come, unless the push was found past the check.
LEMMA EveryPushOwed ==
  ASSUME NEW rows \in Seq(PrRow), NEW event \in Nat, RowsSound(rows), NEW old, NEW head,
         OwedConds(rows, old) \/ ~PastCheck(rows),
         NEW new, new = applyEveryPushReviewSupersede(rows, event)
  PROVE  OwedConds(new, head)
<1> DEFINE slash == lockActiveSlashReviews(rows)
<1>1. /\ GrownBy(rows, new, "review", event)
      /\ \A i \in Reviews(rows) : rows[i].src = "slash" =>
           /\ Restamped(rows[i], new[i])
           /\ rows[i].st = "running" => new[i].marks.stamped
      /\ \A i \in DOMAIN new : i \notin DOMAIN rows => new[i].src = "auto" /\ new[i].st = "queued"
      /\ \/ HasQueued(new)
         \/ \E u \in Reviews(rows) :
              /\ rows[u].src = "slash" /\ rows[u].st = "running" /\ rows[u].marks.kid = 0
              /\ \A i \in slash : i = u
  BY EveryPushRows
<1>2. /\ \A i \in DOMAIN rows : rows[i] \in PrRow /\ i \in DOMAIN new /\ RowSound(rows, i)
      /\ \A i \in DOMAIN rows : Follows(rows[i], new[i])
      /\ \A i \in Reviews(new) : rows[i].src = "slash" /\ i \in DOMAIN rows => i \in Reviews(rows)
      /\ \A i \in Reviews(rows) : i \in Reviews(new) /\ i \in DOMAIN rows
  <2>1. new \in Seq(PrRow) /\ Len(new) \in {Len(rows), Len(rows) + 1}
    BY <1>1 DEF GrownBy
  <2>2. \A i \in DOMAIN rows : rows[i] \in PrRow /\ i \in DOMAIN new /\ RowSound(rows, i)
    BY <2>1, RowsTyped DEF RowsSound
  <2>3. \A i \in DOMAIN rows : Follows(rows[i], new[i])
    BY <1>1 DEF GrownBy
  <2> QED BY <2>2, <2>3 DEF Reviews, Follows
<1>3. \A i \in Reviews(rows) : rows[i].src = "slash" =>
        /\ new[i].st = rows[i].st /\ new[i].run = rows[i].run /\ new[i].src = "slash"
        /\ new[i].marks.kid = rows[i].marks.kid
        /\ new[i].marks.replacement = rows[i].marks.replacement
  BY <1>1, <1>2 DEF Restamped, Follows
<1>4. ASSUME NEW i \in Reviews(rows), rows[i].src = "slash", rows[i].run = "checked",
             rows[i].marks.kid = 0, rows[i].marks.replacement = 0
      PROVE  \E j \in slash : rows[j].st = "queued"
  <2>1. rows[i].st = "running" /\ i \in slash
    BY <1>2, <1>4 DEF RowSound, lockActiveSlashReviews, Live
  <2>2. CASE OwedConds(rows, old)
    BY <1>4, <2>2 DEF OwedConds, SlashAnswers, HasQueuedSlash, lockActiveSlashReviews, Live
  <2>3. CASE ~PastCheck(rows)
    <3>1. PICK j \in slash : ~(rows[j].run = "checked" /\ rows[j].marks.kid = 0)
      BY <2>1, <2>3 DEF PastCheck
    <3>2. j # i /\ rows[j].st # "running" /\ Live(rows[j])
      BY <1>4, <2>1, <3>1 DEF RowsSound, lockActiveSlashReviews
    <3> QED BY <3>2 DEF Live
  <2> QED BY <2>2, <2>3
<1>5. \A j \in slash : rows[j].st = "queued" => j \in Reviews(new) /\ new[j].st = "queued"
                                                 /\ new[j].src = "slash"
  BY <1>2, <1>3 DEF lockActiveSlashReviews
<1>6. ASSUME NEW i \in Reviews(new), new[i].src = "slash"
      PROVE  SlashAnswers(new, i)
  <2>1. i \in Reviews(rows) /\ rows[i].src = "slash" /\ i \in DOMAIN rows
    <3>1. i \in DOMAIN rows
      BY <1>1, <1>6 DEF Reviews
    <3> QED BY <1>2, <1>6, <3>1 DEF Follows
  <2>2. new[i].run # "none" => rows[i].st = "running" /\ i \in slash
    BY <1>2, <1>3, <2>1 DEF RowSound, lockActiveSlashReviews, Live
  <2>3. new[i].run = "published" => new[i].marks.stamped
    BY <1>1, <2>1, <2>2
  <2>4. new[i].run # "none" /\ new[i].marks.kid # 0 => HasQueued(new)
    BY <1>1, <1>3, <2>1, <2>2
  <2>5. new[i].run = "checked" /\ new[i].marks.kid = 0 /\ new[i].marks.replacement = 0
          => HasQueuedSlash(new)
    BY <1>3, <1>4, <1>5, <2>1 DEF HasQueuedSlash
  <2> QED BY <2>3, <2>4, <2>5 DEF SlashAnswers
<1>7. \E i \in Reviews(new) : Answers(new[i], head)
  <2>1. CASE HasQueued(new)
    BY <2>1 DEF HasQueued, Answers
  <2>2. CASE ~HasQueued(new)
    <3>1. PICK u \in Reviews(rows) : /\ rows[u].src = "slash" /\ rows[u].st = "running"
                                     /\ rows[u].marks.kid = 0
                                     /\ \A i \in slash : i = u
      BY <1>1, <2>2
    <3>2. /\ u \in Reviews(new) /\ new[u].st = "running" /\ new[u].src = "slash"
          /\ new[u].marks.stamped /\ new[u].run = rows[u].run
      BY <1>1, <1>2, <1>3, <3>1
    <3>3. rows[u].run \in {"working", "published", "checked"}
      BY <1>2, <3>1 DEF RowSound, PrRow
    <3>4. rows[u].run # "checked"
      <4> SUFFICES ASSUME rows[u].run = "checked" PROVE FALSE
        OBVIOUS
      <4>1. ~\E j \in slash : rows[j].st = "queued"
        BY <3>1
      <4>2. rows[u].marks.replacement # 0
        BY <1>4, <3>1, <4>1
      <4> QED BY <1>2, <3>1, <4>1, <4>2 DEF RowSound, lockActiveSlashReviews, Live
    <3> QED BY <3>2, <3>3, <3>4 DEF Answers
  <2> QED BY <2>1, <2>2
<1> QED BY <1>6, <1>7 DEF OwedConds

\* Slash reviews left as they are, and one more review queued: what is owed stays owed.
LEMMA QueuedOwed ==
  ASSUME NEW rows \in Seq(PrRow), NEW new, NEW event, NEW head,
         GrownBy(rows, new, "review", event), OwedConds(rows, head), HasQueued(new),
         \A i \in DOMAIN rows : rows[i].src = "slash" => new[i] = rows[i]
  PROVE  OwedConds(new, head)
<1>1. \A i \in DOMAIN rows : i \in DOMAIN new /\ Follows(rows[i], new[i])
  <2>1. new \in Seq(PrRow) /\ Len(new) \in {Len(rows), Len(rows) + 1}
    BY DEF GrownBy
  <2> QED BY <2>1, RowsTyped DEF GrownBy
<1>2. \A i \in DOMAIN new : i \notin DOMAIN rows => Fresh(new[i], "review", event)
  BY LastRow
<1>3. HasQueuedSlash(rows) => HasQueuedSlash(new)
  BY <1>1 DEF HasQueuedSlash, Reviews, Follows
<1>4. ASSUME NEW i \in Reviews(new), new[i].src = "slash"
      PROVE  SlashAnswers(new, i)
  <2>1. CASE i \in DOMAIN rows
    <3>1. i \in Reviews(rows) /\ new[i] = rows[i] /\ rows[i].src = "slash"
      BY <1>1, <1>4, <2>1 DEF Reviews, Follows
    <3>2. SlashAnswers(rows, i)
      BY <3>1 DEF OwedConds
    <3> QED BY <1>3, <3>1, <3>2 DEF SlashAnswers
  <2>2. CASE i \notin DOMAIN rows
    <3>1. Fresh(new[i], "review", event)
      BY <1>2, <2>2 DEF Reviews
    <3> QED BY <3>1 DEF Fresh, SlashAnswers
  <2> QED BY <2>1, <2>2
<1>5. \E i \in Reviews(new) : Answers(new[i], head)
  BY DEF HasQueued, Answers
<1> QED BY <1>4, <1>5 DEF OwedConds

\* A replacing review is queued for what is owed.
LEMMA ReplaceOwed ==
  ASSUME NEW rows \in Seq(PrRow), NEW at \in Nat, NEW event \in Nat, NEW head,
         OwedConds(rows, head), NEW new, new = replaceAutoWorkItem(rows, "review", at, event)
  PROVE  OwedConds(new, head)
<1>1. /\ GrownBy(rows, new, "review", event)
      /\ Len(rows) + 1 \in DOMAIN new
      /\ Fresh(new[Len(rows) + 1], "review", event)
      /\ \A i \in DOMAIN rows : rows[i].src = "slash" => new[i] = rows[i]
  BY ReplaceRows
<1>2. HasQueued(new)
  BY <1>1 DEF HasQueued, Reviews, Fresh
<1> QED BY <1>1, <1>2, QueuedOwed

\* A slash command adds a row or finds a live one.
LEMMA SlashRows ==
  ASSUME NEW rows \in Seq(PrRow), NEW kind \in {"review", "triage", "description", "verification"},
         NEW event \in Nat, NEW new, new = insertOnSlashActiveConflict(rows, kind, event)
  PROVE  /\ GrownBy(rows, new, kind, event)
         /\ \A i \in DOMAIN rows : i \in DOMAIN new /\ new[i] = rows[i]
         /\ \A i \in DOMAIN new : i \notin DOMAIN rows => new[i].src = "slash"
         /\ \/ new = rows
            \/ Len(rows) + 1 \in DOMAIN new /\ Fresh(new[Len(rows) + 1], kind, event)
<1>1. CASE SlashActiveConflict(rows, kind)
  BY <1>1, SameGrown DEF insertOnSlashActiveConflict
<1>2. CASE ~SlashActiveConflict(rows, kind)
  <2> DEFINE row == NewRow(kind, "slash", DEFERRED_HEAD_SHA, event)
  <2>1. Fresh(row, kind, event) /\ row \in PrRow /\ row.src = "slash" /\ new = Append(rows, row)
    BY <1>2, NewRowFresh DEF insertOnSlashActiveConflict, DEFERRED_HEAD_SHA
  <2> HIDE DEF row
  <2>2. GrownBy(rows, rows, kind, event)
    BY SameGrown
  <2>3. /\ GrownBy(rows, Append(rows, row), kind, event)
        /\ Append(rows, row)[Len(rows) + 1] = row
        /\ Len(rows) + 1 \in DOMAIN Append(rows, row)
        /\ \A i \in DOMAIN rows : Append(rows, row)[i] = rows[i] /\ i \in DOMAIN Append(rows, row)
    BY <2>1, <2>2, AppendGrown
  <2>4. \A i \in DOMAIN new : i \notin DOMAIN rows => i = Len(rows) + 1
    BY <2>1, <2>3, LastRow
  <2> QED BY <2>1, <2>3, <2>4
<1> QED BY <1>1, <1>2

\* A slash command takes no answer away.
LEMMA SlashOwed ==
  ASSUME NEW rows \in Seq(PrRow), NEW event \in Nat, NEW head, OwedConds(rows, head),
         NEW new, new = insertOnSlashActiveConflict(rows, "review", event)
  PROVE  OwedConds(new, head)
<1>1. /\ GrownBy(rows, new, "review", event)
      /\ \A i \in DOMAIN rows : i \in DOMAIN new /\ new[i] = rows[i]
      /\ \/ new = rows
         \/ Len(rows) + 1 \in DOMAIN new /\ Fresh(new[Len(rows) + 1], "review", event)
  BY SlashRows
<1>2. CASE new = rows
  BY <1>2
<1>3. CASE Len(rows) + 1 \in DOMAIN new /\ Fresh(new[Len(rows) + 1], "review", event)
  <2>1. HasQueued(new)
    BY <1>3 DEF HasQueued, Reviews, Fresh
  <2> QED BY <1>1, <2>1, QueuedOwed
<1> QED BY <1>1, <1>2, <1>3

\* After a withdrawal only a command starts a review.
LEMMA GrownHeld ==
  ASSUME NEW rows \in Seq(PrRow), NEW new, NEW event, GrownBy(rows, new, "review", event),
         Held(rows, "withdrawn"),
         \/ Reviews(rows) # {}
         \/ \A i \in DOMAIN new : i \notin DOMAIN rows => new[i].src = "slash"
  PROVE  Held(new, "withdrawn")
<1>1. \A i \in DOMAIN rows : i \in DOMAIN new /\ Follows(rows[i], new[i]) /\ i \in Nat
  <2>1. new \in Seq(PrRow) /\ Len(new) \in {Len(rows), Len(rows) + 1}
    BY DEF GrownBy
  <2> QED BY <2>1, RowsTyped DEF GrownBy
<1>2. \A i \in Reviews(rows) : i \in DOMAIN rows /\ i \in Reviews(new)
  BY <1>1 DEF Reviews, Follows
<1>3. ASSUME NEW i \in Reviews(new)
      PROVE  \E j \in Reviews(new) : j <= i /\ new[j].src = "slash"
  <2>1. CASE i \in DOMAIN rows
    <3>1. i \in Reviews(rows)
      BY <1>1, <1>3, <2>1 DEF Reviews, Follows
    <3>2. PICK j \in Reviews(rows) : j <= i /\ rows[j].src = "slash"
      BY <3>1 DEF Held
    <3> QED BY <1>1, <1>2, <3>2 DEF Follows
  <2>2. CASE i \notin DOMAIN rows
    <3>1. i \in DOMAIN new /\ i = Len(rows) + 1
      BY <1>3, <2>2, LastRow DEF Reviews
    <3>2. CASE new[i].src = "slash"
      BY <1>3, <3>1, <3>2, RowsTyped
    <3>3. CASE Reviews(rows) # {}
      <4>1. PICK r \in Reviews(rows) : TRUE
        BY <3>3
      <4>2. PICK j \in Reviews(rows) : j <= r /\ rows[j].src = "slash"
        BY <4>1 DEF Held
      <4>3. j <= i
        BY <1>2, <3>1, <4>2, RowsTyped
      <4> QED BY <1>1, <1>2, <4>2, <4>3 DEF Follows
    <3> QED BY <2>2, <3>1, <3>2, <3>3
  <2> QED BY <2>1, <2>2
<1> QED BY <1>3 DEF Held

\* The kinds dispatched beside the reviews.
DispatchKinds == {"description", "verification"}

\* Work dispatched beside the reviews.
LEMMA DispatchRows ==
  ASSUME NEW rows \in Seq(PrRow), NEW plan, NEW m, m.head \in Nat, m.n \in Nat, NEW known,
         RowsSound(rows), \A kind \in DispatchKinds : NoneFrom(rows, kind, m.n),
         m.n \in known, \A i \in DOMAIN rows : rows[i].event \in known,
         NEW new, new = dispatchAutomatedKinds(rows, plan, m)
  PROVE  /\ SameReviews(rows, new) /\ new \in Seq(PrRow) /\ RowsSound(new)
         /\ \A i \in DOMAIN new : new[i].event \in known
<1> DEFINE mid == IF plan.description THEN replaceAutoWorkItem(rows, "description", m.head, m.n)
                  ELSE rows
<1>1. new = IF plan.verification THEN replaceAutoWorkItem(mid, "verification", m.head, m.n) ELSE mid
  BY DEF dispatchAutomatedKinds
<1>2. /\ SameReviews(rows, mid) /\ mid \in Seq(PrRow) /\ RowsSound(mid)
      /\ \A i \in DOMAIN mid : mid[i].event \in known
      /\ NoneFrom(mid, "verification", m.n)
  <2>1. CASE ~plan.description
    BY <2>1 DEF DispatchKinds, SameReviews
  <2>2. CASE plan.description
    <3>1. mid = replaceAutoWorkItem(rows, "description", m.head, m.n)
      BY <2>2
    <3> HIDE DEF mid
    <3>2. GrownBy(rows, mid, "description", m.n)
      BY <3>1, ReplaceRows
    <3>3. SameReviews(rows, mid)
      BY <3>2, OtherKind
    <3>4. NoneFrom(rows, "description", m.n) /\ NoneFrom(rows, "verification", m.n)
      BY DEF DispatchKinds
    <3> QED BY <3>2, <3>3, <3>4, GrownStep
  <2> QED BY <2>1, <2>2
<1> HIDE DEF mid
<1>3. CASE ~plan.verification
  BY <1>1, <1>2, <1>3
<1>4. CASE plan.verification
  <2>1. new = replaceAutoWorkItem(mid, "verification", m.head, m.n)
    BY <1>1, <1>4
  <2>2. GrownBy(mid, new, "verification", m.n)
    <3>1. mid \in Seq(PrRow) /\ m.head \in Nat /\ m.n \in Nat
      BY <1>2
    <3>2. "verification" \in {"review", "triage", "description", "verification"}
      OBVIOUS
    <3>3. GrownBy(mid, replaceAutoWorkItem(mid, "verification", m.head, m.n), "verification", m.n)
      BY ONLY <3>1, <3>2, ReplaceRows
    <3> QED BY <2>1, <3>3
  <2>3. SameReviews(mid, new)
    BY <1>2, <2>2, OtherKind
  <2>4. /\ new \in Seq(PrRow) /\ RowsSound(new)
        /\ \A i \in DOMAIN new : new[i].event \in known
    BY <1>2, <2>2, GrownStep
  <2>5. SameReviews(rows, new)
    BY <1>2, <2>3 DEF SameReviews
  <2> QED BY <2>4, <2>5
<1> QED BY <1>3, <1>4

\* What is known when a delivery is accepted.
LEMMA DeliveryFacts ==
  ASSUME IntakeInv, NEW m \in prMail, NEW id, insertWebhookEvent(m, id), Accept(m, id)
  PROVE  /\ m \in PrJob /\ m.head \in Nat /\ m.n \in Nat /\ m.head <= prGithub.head
         /\ prRows \in Seq(PrRow) /\ RowsSound(prRows) /\ Held(prRows, prApproval.state)
         /\ \A kind : NoneFrom(prRows, kind, m.n)
         /\ \A i \in DOMAIN prRows : prRows[i].event \in prEvents.bodies \cup {m.n}
         /\ PrClosed => Quiet(prRows) /\ prApproval.state # "awaiting"
         /\ m.kind = "opened" => m.n = 1 /\ prApproval.state = "none"
         /\ prFeatures \in FeatureSets /\ LifeSound
         /\ prLife \in [state : PrStates \cup {"none"}, at : Nat]
         /\ prApproval \in [state : {"none", "awaiting", "approved", "withdrawn"}, head : Nat,
                            workflowStartAdmits : BOOLEAN]
         /\ prOwed \in [head : Nat, done : Nat] /\ prGithub.head \in Nat
         /\ prOwed.head # 0 => /\ prFeatures.cadence = "every_push"
                               /\ prOwed.done < prOwed.head /\ prOwed.head <= prGithub.head
                               /\ OwedConds(prRows, prOwed.head)
<1>1. /\ IntakeTyped /\ MailSound /\ ApprovalSound /\ RowsSound(prRows) /\ EventsKnown /\ LifeSound
      /\ NoReviewWhileClosed /\ OwedSound /\ HeldUntilApproved
  BY DEF IntakeInv, ApprovalSound
<1>2. m \in PrJob /\ m.head \in Nat /\ m.n \in Nat /\ m.head <= prGithub.head
  BY <1>1 DEF IntakeTyped, MailSound, PrJob
<1>3. m.n \notin prEvents.bodies
  BY DEF insertWebhookEvent
<1>4. \A kind : NoneFrom(prRows, kind, m.n)
  BY <1>1, <1>3 DEF NoneFrom, EventsKnown
<1>5. m.kind = "opened" => m.n = 1 /\ prApproval.state = "none"
  BY <1>1, <1>3 DEF MailSound, ApprovalSound
<1>6. \A i \in DOMAIN prRows : prRows[i].event \in prEvents.bodies \cup {m.n}
  BY <1>1 DEF EventsKnown
<1> QED BY <1>1, <1>2, <1>4, <1>5, <1>6, IntakeParts DEF IntakeTyped

\* The reviews after a delivery, and nothing else.
LEMMA ReviewsOnly ==
  ASSUME NEW m, NEW known, NEW rows, RowsSound(prRows), prRows \in Seq(PrRow),
         \A kind : NoneFrom(prRows, kind, m.n), GrownBy(prRows, rows, "review", m.n),
         \A i \in DOMAIN prRows : prRows[i].event \in known, m.n \in known
  PROVE  /\ rows \in Seq(PrRow) /\ RowsSound(rows) /\ SameReviews(rows, rows)
         /\ \A i \in DOMAIN rows : rows[i].event \in known
         /\ \A kind \in DispatchKinds \cup {"triage"} : NoneFrom(rows, kind, m.n)
<1>1. \A kind \in DispatchKinds \cup {"triage"} : kind # "review"
  BY DEF DispatchKinds
<1> QED BY <1>1, GrownStep DEF SameReviews

\* Closing cancels the reviews and the triage, withdraws the request and forgives what is owed.
LEMMA CloseKeeps ==
  ASSUME IntakeInv, NEW m \in prMail, NEW id, insertWebhookEvent(m, id), Accept(m, id),
         UNCHANGED <<prFeatures, prGithub, prMail>>, m.kind \in {"closed", "merged"},
         applyReviewCloseCancelIntake(m)
  PROVE  IntakeInv'
<1>1. IF reviewLifecycleObservationAccepted(m) THEN recordReviewLifecycleObservation(m)
      ELSE UNCHANGED prLife
  BY DEF applyReviewCloseCancelIntake
<1>2. LifeSound' /\ prLife' \in [state : PrStates \cup {"none"}, at : Nat]
  BY <1>1, LifeObserved
<1>3. CASE ~reviewLifecycleObservationAccepted(m)
  <2>1. UNCHANGED <<prLife, prApproval, prRows, prOwed>>
    BY <1>3 DEF applyReviewCloseCancelIntake
  <2>2. GrownBy(prRows, prRows, "review", m.n) /\ SameReviews(prRows, prRows)
    BY SameGrown, DeliveryFacts DEF SameReviews
  <2>3. PrClosed' <=> PrClosed
    BY <2>1 DEF PrClosed
  <2> QED BY <1>2, <2>1, <2>2, <2>3, DeliveryFacts, DeliveryKeeps
<1>4. CASE reviewLifecycleObservationAccepted(m)
  <2>1. PICK rows : rows = cancelActiveWork(prRows, "review")
    OBVIOUS
  <2>2. /\ recordReviewLifecycleObservation(m) /\ withdrawAwaiting /\ Forgive
        /\ prRows' = cancelActiveWork(rows, "triage")
    BY <1>4, <2>1 DEF applyReviewCloseCancelIntake
  <2>3. /\ prRows \in Seq(PrRow) /\ RowsSound(prRows) /\ Held(prRows, prApproval.state)
        /\ \A kind : NoneFrom(prRows, kind, m.n)
        /\ \A i \in DOMAIN prRows : prRows[i].event \in prEvents.bodies \cup {m.n}
        /\ prApproval \in [state : {"none", "awaiting", "approved", "withdrawn"}, head : Nat,
                           workflowStartAdmits : BOOLEAN]
        /\ prOwed \in [head : Nat, done : Nat]
    BY DeliveryFacts
  <2>4. /\ GrownBy(prRows, rows, "review", m.n) /\ Len(rows) = Len(prRows)
        /\ DOMAIN rows = DOMAIN prRows
        /\ \A i \in DOMAIN prRows : prRows[i].type = "review" => ~Live(rows[i])
    BY <2>1, <2>3, CancelRows
  <2>5. /\ rows \in Seq(PrRow) /\ RowsSound(rows)
        /\ \A i \in DOMAIN rows : rows[i].event \in prEvents.bodies \cup {m.n}
        /\ NoneFrom(rows, "triage", m.n)
    <3>1. PICK known : known = prEvents.bodies \cup {m.n}
      OBVIOUS
    <3>2. m.n \in known /\ \A i \in DOMAIN prRows : prRows[i].event \in known
      BY <2>3, <3>1
    <3>3. /\ rows \in Seq(PrRow) /\ RowsSound(rows)
          /\ \A i \in DOMAIN rows : rows[i].event \in known
          /\ \A kind \in DispatchKinds \cup {"triage"} : NoneFrom(rows, kind, m.n)
      BY <2>3, <2>4, <3>2, ReviewsOnly
    <3> QED BY <3>1, <3>3
  <2>6. GrownBy(rows, prRows', "triage", m.n)
    BY <2>2, <2>5, CancelRows
  <2>7. SameReviews(rows, prRows')
    BY <2>5, <2>6, OtherKind
  <2>8. /\ prRows' \in Seq(PrRow) /\ RowsSound(prRows')
        /\ \A i \in DOMAIN prRows' : prRows'[i].event \in prEvents.bodies \cup {m.n}
    <3>1. PICK known : known = prEvents.bodies \cup {m.n}
      OBVIOUS
    <3>2. m.n \in known /\ \A i \in DOMAIN rows : rows[i].event \in known
      BY <2>5, <3>1
    <3>3. /\ prRows' \in Seq(PrRow) /\ RowsSound(prRows')
          /\ \A i \in DOMAIN prRows' : prRows'[i].event \in known
      BY <2>5, <2>6, <3>2, GrownStep
    <3> QED BY <3>1, <3>3
  <2>9. Quiet(rows)
    BY <2>4 DEF Quiet, Reviews, GrownBy, Follows
  <2>10. /\ prApproval' \in [state : {"none", "awaiting", "approved", "withdrawn"}, head : Nat,
                             workflowStartAdmits : BOOLEAN]
         /\ prApproval'.state # "awaiting"
         /\ prApproval'.state # "none" => prApproval.state # "none"
         /\ prApproval'.state = "withdrawn" => prApproval.state \in {"awaiting", "withdrawn"}
    BY <2>2, <2>3 DEF withdrawAwaiting
  <2>11. Held(prRows, "withdrawn") => Held(rows, "withdrawn")
    <3> SUFFICES ASSUME Held(prRows, "withdrawn") PROVE Held(rows, "withdrawn")
      OBVIOUS
    <3>1. \A i \in DOMAIN rows : i \notin DOMAIN prRows => rows[i].src = "slash"
      BY <2>4
    <3> QED BY <2>3, <2>4, <3>1, GrownHeld
  <2>12. Held(rows, prApproval'.state)
    BY <2>3, <2>10, <2>11 DEF Held
  <2>13. /\ prOwed' \in [head : Nat, done : Nat] /\ prOwed'.done = prOwed.done /\ prOwed'.head = 0
    BY <2>2, <2>3 DEF Forgive
  <2> QED BY <1>2, <2>4, <2>7, <2>8, <2>9, <2>10, <2>12, <2>13, DeliveryKeeps
<1> QED BY <1>3, <1>4

\* Reopening only observes.
LEMMA ReopenKeeps ==
  ASSUME IntakeInv, NEW m \in prMail, NEW id, insertWebhookEvent(m, id), Accept(m, id),
         UNCHANGED <<prFeatures, prGithub, prMail>>, m.kind = "reopened", Reopen(m)
  PROVE  IntakeInv'
<1>1. /\ IF reviewLifecycleObservationAccepted(m) THEN recordReviewLifecycleObservation(m)
         ELSE UNCHANGED prLife
      /\ UNCHANGED <<prApproval, prRows, prOwed>>
  BY DEF Reopen
<1>2. LifeSound' /\ prLife' \in [state : PrStates \cup {"none"}, at : Nat]
  BY <1>1, LifeObserved
<1>3. GrownBy(prRows, prRows, "review", m.n) /\ SameReviews(prRows, prRows)
  BY SameGrown, DeliveryFacts DEF SameReviews
<1>4. PrClosed' => PrClosed
  <2>1. m.state = "open"
    BY DEF IntakeInv, MailSound
  <2> QED BY <1>1, <2>1 DEF PrClosed, recordReviewLifecycleObservation
<1> QED BY <1>1, <1>2, <1>3, <1>4, DeliveryFacts, DeliveryKeeps

\* An approval starts the review it was waited for.
LEMMA ApprovedKeeps ==
  ASSUME IntakeInv, NEW m \in prMail, NEW id, insertWebhookEvent(m, id), Accept(m, id),
         UNCHANGED <<prFeatures, prGithub, prMail>>, m.kind \in {"approved", "workflow_run"},
         applyReviewApprovedIntake(m)
  PROVE  IntakeInv'
<1>1. UNCHANGED <<prLife, prOwed>> /\ (PrClosed' <=> PrClosed)
  BY DEF applyReviewApprovedIntake, PrClosed
<1>2. LifeSound'
  BY <1>1, LifeKept
<1>3. CASE UNCHANGED <<prApproval, prRows>>
  <2>1. GrownBy(prRows, prRows, "review", m.n) /\ SameReviews(prRows, prRows)
    BY SameGrown, DeliveryFacts DEF SameReviews
  <2> QED BY <1>1, <1>2, <1>3, <2>1, DeliveryFacts, DeliveryKeeps
<1>4. CASE /\ ~PrClosed /\ prApproval.state = "awaiting"
           /\ prApproval' = [prApproval EXCEPT !.state = "approved"]
           /\ prRows' = replaceAutoWorkItem(prRows, "review", DEFERRED_HEAD_SHA, m.n)
  <2>1. PICK rows : rows = prRows'
    OBVIOUS
  <2>2. /\ prRows \in Seq(PrRow) /\ m.n \in Nat /\ RowsSound(prRows)
        /\ \A kind : NoneFrom(prRows, kind, m.n)
        /\ \A i \in DOMAIN prRows : prRows[i].event \in prEvents.bodies \cup {m.n}
        /\ prOwed.head # 0 => OwedConds(prRows, prOwed.head)
    BY DeliveryFacts
  <2>3. GrownBy(prRows, rows, "review", m.n)
    BY <1>4, <2>1, <2>2, ReplaceRows DEF DEFERRED_HEAD_SHA
  <2>4. prOwed.head # 0 => OwedConds(rows, prOwed.head)
    BY <1>4, <2>1, <2>2, ReplaceOwed DEF DEFERRED_HEAD_SHA
  <2>5. /\ rows \in Seq(PrRow) /\ RowsSound(rows) /\ SameReviews(rows, rows)
        /\ \A i \in DOMAIN rows : rows[i].event \in prEvents.bodies \cup {m.n}
    <3>1. PICK known : known = prEvents.bodies \cup {m.n}
      OBVIOUS
    <3>2. m.n \in known /\ \A i \in DOMAIN prRows : prRows[i].event \in known
      BY <2>2, <3>1
    <3>3. /\ rows \in Seq(PrRow) /\ RowsSound(rows) /\ SameReviews(rows, rows)
          /\ \A i \in DOMAIN rows : rows[i].event \in known
      BY <2>2, <2>3, <3>2, ReviewsOnly
    <3> QED BY <3>1, <3>3
  <2>6. /\ prApproval' \in [state : {"none", "awaiting", "approved", "withdrawn"}, head : Nat,
                            workflowStartAdmits : BOOLEAN]
        /\ prApproval'.state = "approved" /\ prApproval.state = "awaiting"
    BY <1>4, DeliveryFacts
  <2>7. Held(rows, prApproval'.state)
    BY <2>6 DEF Held
  <2>8. /\ prOwed' \in [head : Nat, done : Nat] /\ prOwed' = prOwed
        /\ prOwed.head # 0 => /\ prFeatures.cadence = "every_push"
                              /\ prOwed.done < prOwed.head /\ prOwed.head <= prGithub.head
        /\ prLife' \in [state : PrStates \cup {"none"}, at : Nat]
    BY <1>1, DeliveryFacts
  <2> QED BY <1>1, <1>2, <1>4, <2>1, <2>3, <2>4, <2>5, <2>6, <2>7, <2>8, DeliveryKeeps
<1> QED BY <1>3, <1>4 DEF applyReviewApprovedIntake

\* /review and --force.
LEMMA SlashReviewKeeps ==
  ASSUME IntakeInv, NEW m \in prMail, NEW id, insertWebhookEvent(m, id), Accept(m, id),
         UNCHANGED <<prFeatures, prGithub, prMail>>, m.kind \in {"review", "force"},
         handleSlashReview(m)
  PROVE  IntakeInv'
<1>1. UNCHANGED prLife /\ (PrClosed' <=> PrClosed)
  BY DEF handleSlashReview, PrClosed
<1>2. LifeSound'
  BY <1>1, LifeKept
<1>3. CASE PrClosed
  <2>1. UNCHANGED <<prApproval, prRows, prOwed>>
    BY <1>3 DEF handleSlashReview
  <2>2. GrownBy(prRows, prRows, "review", m.n) /\ SameReviews(prRows, prRows)
    BY SameGrown, DeliveryFacts DEF SameReviews
  <2> QED BY <1>1, <1>2, <2>1, <2>2, DeliveryFacts, DeliveryKeeps
<1>4. CASE ~PrClosed
  <2>1. PICK kept : kept = IF m.kind = "force" THEN cancelActiveWork(prRows, "review") ELSE prRows
    OBVIOUS
  <2>2. PICK rows : rows = prRows'
    OBVIOUS
  <2>3. /\ rows = insertOnSlashActiveConflict(kept, "review", m.n)
        /\ prApproval' = IF ~SlashActiveConflict(kept, "review") /\ prApproval.state = "awaiting"
                         THEN [prApproval EXCEPT !.state = "approved"] ELSE prApproval
        /\ IF m.kind = "force" THEN Forgive ELSE UNCHANGED prOwed
    BY <1>4, <2>1, <2>2 DEF handleSlashReview
  <2>4. /\ prRows \in Seq(PrRow) /\ m.n \in Nat /\ RowsSound(prRows)
        /\ \A kind : NoneFrom(prRows, kind, m.n)
        /\ \A i \in DOMAIN prRows : prRows[i].event \in prEvents.bodies \cup {m.n}
        /\ prOwed.head # 0 => /\ prFeatures.cadence = "every_push"
                              /\ prOwed.done < prOwed.head /\ prOwed.head <= prGithub.head
                              /\ OwedConds(prRows, prOwed.head)
        /\ Held(prRows, prApproval.state)
        /\ prApproval \in [state : {"none", "awaiting", "approved", "withdrawn"}, head : Nat,
                           workflowStartAdmits : BOOLEAN]
        /\ prOwed \in [head : Nat, done : Nat]
    BY DeliveryFacts
  <2>5. /\ GrownBy(prRows, kept, "review", m.n) /\ Len(kept) = Len(prRows) /\ kept \in Seq(PrRow)
        /\ DOMAIN kept = DOMAIN prRows
    <3>1. CASE m.kind = "force"
      <4>1. kept = cancelActiveWork(prRows, "review")
        BY <2>1, <3>1
      <4>2. /\ GrownBy(prRows, kept, "review", m.n) /\ Len(kept) = Len(prRows)
            /\ DOMAIN kept = DOMAIN prRows
        BY <2>4, <4>1, CancelRows
      <4> QED BY <4>2 DEF GrownBy
    <3>2. CASE m.kind # "force"
      BY <2>1, <2>4, <3>2, SameGrown
    <3> QED BY <3>1, <3>2
  <2>6. /\ GrownBy(kept, rows, "review", m.n)
        /\ \A i \in DOMAIN kept : i \in DOMAIN rows /\ rows[i] = kept[i]
        /\ \A i \in DOMAIN rows : i \notin DOMAIN kept => rows[i].src = "slash"
    BY <2>3, <2>4, <2>5, SlashRows
  <2>7. GrownBy(prRows, rows, "review", m.n)
    BY <2>4, <2>5, <2>6, GrownTwice
  <2>8. /\ rows \in Seq(PrRow) /\ RowsSound(rows) /\ SameReviews(rows, rows)
        /\ \A i \in DOMAIN rows : rows[i].event \in prEvents.bodies \cup {m.n}
    <3>1. PICK known : known = prEvents.bodies \cup {m.n}
      OBVIOUS
    <3>2. m.n \in known /\ \A i \in DOMAIN prRows : prRows[i].event \in known
      BY <2>4, <3>1
    <3>3. /\ rows \in Seq(PrRow) /\ RowsSound(rows) /\ SameReviews(rows, rows)
          /\ \A i \in DOMAIN rows : rows[i].event \in known
      BY <2>4, <2>7, <3>2, ReviewsOnly
    <3> QED BY <3>1, <3>3
  <2>9. /\ prApproval' \in [state : {"none", "awaiting", "approved", "withdrawn"}, head : Nat,
                            workflowStartAdmits : BOOLEAN]
        /\ prApproval'.state # "none" => prApproval.state # "none"
        /\ \/ prApproval'.state = "approved"
           \/ prApproval'.state # "awaiting" /\ prApproval'.state = prApproval.state
           \/ prApproval'.state = "awaiting" /\ SlashActiveConflict(kept, "review")
              /\ prApproval.state = "awaiting"
    BY <2>3, <2>4
  <2>10. Held(rows, prApproval'.state)
    <3>1. CASE prApproval'.state = "awaiting"
      <4>1. PICK i \in DOMAIN kept : kept[i].type = "review"
        BY <2>9, <3>1 DEF SlashActiveConflict
      <4>2. i \in Reviews(prRows)
        BY <2>5, <4>1 DEF Reviews, GrownBy, Follows
      <4> QED BY <2>4, <2>9, <3>1, <4>2 DEF Held
    <3>2. CASE prApproval'.state = "withdrawn"
      <4>1. Held(prRows, "withdrawn")
        BY <2>4, <2>9, <3>2
      <4>2. \A i \in DOMAIN rows : i \notin DOMAIN prRows => rows[i].src = "slash"
        BY <2>5, <2>6
      <4> QED BY <2>4, <2>7, <3>2, <4>1, <4>2, GrownHeld
    <3>3. CASE prApproval'.state \in {"none", "approved"}
      BY <3>3 DEF Held
    <3> QED BY <2>9, <3>1, <3>2, <3>3
  <2>11. /\ prOwed' \in [head : Nat, done : Nat] /\ prOwed'.done = prOwed.done
         /\ prOwed'.head # 0 => prOwed' = prOwed /\ m.kind # "force"
    BY <2>3, <2>4 DEF Forgive
  <2>12. prOwed'.head # 0 => OwedConds(rows, prOwed'.head)
    <3> SUFFICES ASSUME prOwed'.head # 0 PROVE OwedConds(rows, prOwed'.head)
      OBVIOUS
    <3>1. kept = prRows /\ prOwed' = prOwed /\ OwedConds(prRows, prOwed'.head)
      BY <2>1, <2>4, <2>11
    <3> QED BY <2>3, <2>4, <3>1, SlashOwed
  <2>13. prLife' \in [state : PrStates \cup {"none"}, at : Nat]
    BY <1>1, DeliveryFacts
  <2> QED BY <1>1, <1>2, <1>4, <2>2, <2>4, <2>7, <2>8, <2>9, <2>10, <2>11, <2>12, <2>13, DeliveryKeeps
<1> QED BY <1>3, <1>4

\* /cancel ends the reviews and, if there were any, what they stood for is forgiven.
LEMMA CancelKeeps ==
  ASSUME IntakeInv, NEW m \in prMail, NEW id, insertWebhookEvent(m, id), Accept(m, id),
         UNCHANGED <<prFeatures, prGithub, prMail>>, m.kind = "cancel", handleSlashCancel(m)
  PROVE  IntakeInv'
<1>1. UNCHANGED <<prLife, prApproval>> /\ (PrClosed' <=> PrClosed)
  BY DEF handleSlashCancel, PrClosed
<1>2. LifeSound'
  BY <1>1, LifeKept
<1>3. PICK rows : rows = prRows'
  OBVIOUS
<1>4. /\ rows = cancelActiveWork(prRows, "review")
      /\ IF rows = prRows THEN UNCHANGED prOwed ELSE Forgive
  BY <1>3 DEF handleSlashCancel
<1>5. /\ prRows \in Seq(PrRow) /\ m.n \in Nat /\ RowsSound(prRows)
      /\ \A kind : NoneFrom(prRows, kind, m.n)
      /\ \A i \in DOMAIN prRows : prRows[i].event \in prEvents.bodies \cup {m.n}
      /\ prOwed.head # 0 => /\ prFeatures.cadence = "every_push"
                            /\ prOwed.done < prOwed.head /\ prOwed.head <= prGithub.head
                            /\ OwedConds(prRows, prOwed.head)
      /\ Held(prRows, prApproval.state)
      /\ prApproval \in [state : {"none", "awaiting", "approved", "withdrawn"}, head : Nat,
                         workflowStartAdmits : BOOLEAN]
      /\ prOwed \in [head : Nat, done : Nat]
      /\ prLife \in [state : PrStates \cup {"none"}, at : Nat]
      /\ PrClosed => prApproval.state # "awaiting"
  BY DeliveryFacts
<1>6. /\ GrownBy(prRows, rows, "review", m.n) /\ Len(rows) = Len(prRows)
      /\ DOMAIN rows = DOMAIN prRows
      /\ \A i \in DOMAIN prRows : prRows[i].type = "review" => ~Live(rows[i])
  BY <1>4, <1>5, CancelRows
<1>7. /\ rows \in Seq(PrRow) /\ RowsSound(rows) /\ SameReviews(rows, rows)
      /\ \A i \in DOMAIN rows : rows[i].event \in prEvents.bodies \cup {m.n}
  <2>1. PICK known : known = prEvents.bodies \cup {m.n}
    OBVIOUS
  <2>2. m.n \in known /\ \A i \in DOMAIN prRows : prRows[i].event \in known
    BY <1>5, <2>1
  <2>3. /\ rows \in Seq(PrRow) /\ RowsSound(rows) /\ SameReviews(rows, rows)
        /\ \A i \in DOMAIN rows : rows[i].event \in known
    BY <1>5, <1>6, <2>2, ReviewsOnly
  <2> QED BY <2>1, <2>3
<1>8. Quiet(rows) /\ Reviews(rows) = Reviews(prRows)
  BY <1>6 DEF Quiet, Reviews, GrownBy, Follows
<1>9. Held(rows, prApproval.state)
  <2>1. Held(prRows, "withdrawn") => Held(rows, "withdrawn")
    <3> SUFFICES ASSUME Held(prRows, "withdrawn") PROVE Held(rows, "withdrawn")
      OBVIOUS
    <3>1. \A i \in DOMAIN rows : i \notin DOMAIN prRows => rows[i].src = "slash"
      BY <1>6
    <3> QED BY <1>5, <1>6, <3>1, GrownHeld
  <2> QED BY <1>5, <1>8, <2>1 DEF Held
<1>10. /\ prOwed' \in [head : Nat, done : Nat] /\ prOwed'.done = prOwed.done
       /\ prOwed'.head # 0 => prOwed' = prOwed /\ rows = prRows
  BY <1>4, <1>5 DEF Forgive
<1> QED BY <1>1, <1>2, <1>3, <1>5, <1>6, <1>7, <1>8, <1>9, <1>10, DeliveryKeeps

\* The other commands add work of another kind.
LEMMA SlashWorkKeeps ==
  ASSUME IntakeInv, NEW m \in prMail, NEW id, insertWebhookEvent(m, id), Accept(m, id),
         UNCHANGED <<prFeatures, prGithub, prMail>>, m.kind \in {"describe", "triage", "verify"},
         handleSlashWork(m)
  PROVE  IntakeInv'
<1>1. UNCHANGED <<prLife, prApproval, prOwed>> /\ (PrClosed' <=> PrClosed)
  BY DEF handleSlashWork, PrClosed
<1>2. LifeSound'
  BY <1>1, LifeKept
<1>3. PICK kind \in {"triage", "description", "verification"} :
        prRows' = prRows \/ prRows' = insertOnSlashActiveConflict(prRows, kind, m.n)
  <2>1. CASE m.kind = "describe"
    BY <2>1 DEF handleSlashWork
  <2>2. CASE m.kind = "triage"
    BY <2>2 DEF handleSlashWork
  <2>3. CASE m.kind = "verify"
    BY <2>3 DEF handleSlashWork
  <2> QED BY <2>1, <2>2, <2>3
<1>4. /\ prRows \in Seq(PrRow) /\ m.n \in Nat /\ RowsSound(prRows)
      /\ NoneFrom(prRows, kind, m.n)
      /\ \A i \in DOMAIN prRows : prRows[i].event \in prEvents.bodies \cup {m.n}
  BY DeliveryFacts
<1>5. GrownBy(prRows, prRows', kind, m.n)
  <2>1. CASE prRows' = prRows
    BY <1>4, <2>1, SameGrown
  <2>2. CASE prRows' = insertOnSlashActiveConflict(prRows, kind, m.n)
    BY <1>4, <2>2, SlashRows
  <2> QED BY <1>3, <2>1, <2>2
<1>6. SameReviews(prRows, prRows')
  BY <1>4, <1>5, OtherKind
<1>7. /\ prRows' \in Seq(PrRow) /\ RowsSound(prRows')
      /\ \A i \in DOMAIN prRows' : prRows'[i].event \in prEvents.bodies \cup {m.n}
  <2>1. PICK known : known = prEvents.bodies \cup {m.n}
    OBVIOUS
  <2>2. m.n \in known /\ \A i \in DOMAIN prRows : prRows[i].event \in known
    BY <1>4, <2>1
  <2>3. /\ prRows' \in Seq(PrRow) /\ RowsSound(prRows')
        /\ \A i \in DOMAIN prRows' : prRows'[i].event \in known
    BY <1>4, <1>5, <2>2, GrownStep
  <2> QED BY <2>1, <2>3
<1>8. GrownBy(prRows, prRows, "review", m.n)
  BY <1>4, SameGrown
<1> QED BY <1>1, <1>2, <1>6, <1>7, <1>8, DeliveryFacts, DeliveryKeeps

\* The plan once the lifecycle row was looked at.
LifePlan(m) ==
    LET asked == planAutomatedPullRequestIntake(m)
    IN  IF PrClosed THEN [asked EXCEPT !.review = FALSE, !.await = FALSE, !.supersede = FALSE]
        ELSE asked

\* What a plan asks for depends on the event, and a closed pull request gets no review.
LEMMA PlanFacts ==
  ASSUME NEW m, NEW plan, plan = LifePlan(m)
  PROVE  /\ plan.review => m.kind = "opened" /\ ~PrClosed
         /\ plan.await => m.kind = "opened" /\ ~PrClosed /\ prFeatures.review = "approval"
         /\ plan.supersede => m.kind = "synchronize" /\ ~PrClosed
BY DEF LifePlan, planAutomatedPullRequestIntake

\* What planned intake makes of the reviews, the approval and what is owed.
PlannedSound(rows, m) ==
    /\ GrownBy(prRows, rows, "review", m.n)
    /\ Held(rows, prApproval'.state)
    /\ prOwed'.head # 0 => OwedConds(rows, prOwed'.head)
    /\ PrClosed => rows = prRows /\ prApproval' = prApproval

\* A push.
LEMMA PlannedPush ==
  ASSUME IntakeInv, NEW m \in prMail, NEW id, insertWebhookEvent(m, id), Accept(m, id),
         NEW plan, plan.supersede, ~plan.await, ~PrClosed,
         NEW rows, rows = ReviewSupersede(prRows, plan, m),
         prApproval' = prApproval \/ moveAwaitingHead(m),
         IF ~EveryPush(plan) \/ m.head <= prOwed.done \/ m.head < prOwed.head THEN UNCHANGED prOwed
         ELSE IF FoundPastCheck(prRows, plan) THEN Forgive
         ELSE prOwed' = [prOwed EXCEPT !.head = m.head]
  PROVE  PlannedSound(rows, m)
<1>1. /\ prRows \in Seq(PrRow) /\ m.n \in Nat /\ RowsSound(prRows)
      /\ prOwed.head # 0 => OwedConds(prRows, prOwed.head)
      /\ Held(prRows, prApproval.state)
      /\ prApproval \in [state : {"none", "awaiting", "approved", "withdrawn"}, head : Nat,
                         workflowStartAdmits : BOOLEAN]
      /\ prOwed \in [head : Nat, done : Nat]
  BY DeliveryFacts
<1>2. prApproval.state # "none" => prFeatures.review = "approval"
  BY DEF IntakeInv, ApprovalSound
<1>3. prApproval'.state = prApproval.state
  BY <1>1 DEF moveAwaitingHead
<1>4. CASE EveryPush(plan)
  <2>1. rows = applyEveryPushReviewSupersede(prRows, m.n)
    BY <1>4 DEF ReviewSupersede
  <2>2. GrownBy(prRows, rows, "review", m.n)
    BY <1>1, <2>1, EveryPushRows
  <2>3. prApproval.state \in {"none", "approved", "withdrawn"}
    BY <1>1, <1>2, <1>4 DEF EveryPush, everyPushReviewAdmitted
  <2>4. prApproval.state = "withdrawn" => Reviews(prRows) # {}
    BY <1>2, <1>4 DEF EveryPush, everyPushReviewAdmitted, reviewPushAdmitted
  <2>5. Held(rows, prApproval'.state)
    <3>1. CASE prApproval.state = "withdrawn"
      <4>1. Held(prRows, "withdrawn") /\ Reviews(prRows) # {}
        BY <1>1, <2>4, <3>1
      <4>2. Held(rows, "withdrawn")
        BY <1>1, <2>2, <4>1, GrownHeld
      <4> QED BY <1>3, <3>1, <4>2
    <3>2. CASE prApproval.state # "withdrawn"
      BY <1>3, <2>3, <3>2 DEF Held
    <3> QED BY <3>1, <3>2
  <2>6. prOwed'.head # 0 => OwedConds(rows, prOwed'.head)
    <3> SUFFICES ASSUME prOwed'.head # 0 PROVE OwedConds(rows, prOwed'.head)
      OBVIOUS
    <3>1. \/ prOwed' = prOwed
          \/ prOwed'.head = 0
          \/ ~FoundPastCheck(prRows, plan)
      BY <1>1 DEF Forgive
    <3>2. OwedConds(prRows, prOwed'.head) \/ ~PastCheck(prRows)
      BY <1>1, <1>4, <3>1 DEF FoundPastCheck, PastCheck
    <3> QED BY <1>1, <2>1, <3>2, EveryPushOwed
  <2> QED BY <2>2, <2>5, <2>6 DEF PlannedSound
<1>5. CASE ~EveryPush(plan)
  <2>1. /\ rows = replaceActiveAutoWorkItem(prRows, "review", DEFERRED_HEAD_SHA, m.n)
        /\ prOwed' = prOwed
    BY <1>5 DEF ReviewSupersede
  <2>2. CASE SupersedeTargets(prRows, "review", {}) = {}
    <3>1. rows = prRows
      BY <2>1, <2>2 DEF replaceActiveAutoWorkItem
    <3> QED BY <1>1, <1>3, <2>1, <3>1, SameGrown DEF PlannedSound
  <2>3. CASE SupersedeTargets(prRows, "review", {}) # {}
    <3>1. PICK at \in Nat : rows = replaceAutoWorkItem(prRows, "review", at, m.n)
      BY <2>1, <2>3 DEF replaceActiveAutoWorkItem, DEFERRED_HEAD_SHA
    <3>2. Reviews(prRows) # {}
      BY <2>3 DEF SupersedeTargets, Reviews
    <3>3. GrownBy(prRows, rows, "review", m.n)
      BY <1>1, <3>1, ReplaceRows
    <3>4. Held(rows, prApproval'.state)
      <4>1. CASE prApproval.state = "withdrawn"
        <5>1. Held(prRows, "withdrawn")
          BY <1>1, <4>1
        <5>2. Held(rows, "withdrawn")
          BY <1>1, <3>2, <3>3, <5>1, GrownHeld
        <5> QED BY <1>3, <4>1, <5>2
      <4>2. CASE prApproval.state # "withdrawn"
        BY <1>1, <1>3, <3>2, <4>2 DEF Held
      <4> QED BY <4>1, <4>2
    <3>5. prOwed.head # 0 => OwedConds(rows, prOwed.head)
      BY <1>1, <3>1, ReplaceOwed
    <3> QED BY <2>1, <3>3, <3>4, <3>5 DEF PlannedSound
  <2> QED BY <2>2, <2>3
<1> QED BY <1>4, <1>5

\* The event that opens the pull request.
LEMMA PlannedOpen ==
  ASSUME IntakeInv, NEW m \in prMail, NEW id, insertWebhookEvent(m, id), Accept(m, id),
         NEW plan, plan = LifePlan(m), ~plan.supersede,
         NEW rows, rows = applyOpenedReviewAdmission(plan, m),
         IF plan.await THEN insertAwaitingApproval(m) ELSE UNCHANGED prApproval,
         UNCHANGED prOwed
  PROVE  PlannedSound(rows, m)
<1>1. /\ prRows \in Seq(PrRow) /\ m.n \in Nat /\ m.head \in Nat /\ RowsSound(prRows)
      /\ prOwed.head # 0 => OwedConds(prRows, prOwed.head)
      /\ Held(prRows, prApproval.state)
      /\ m.kind = "opened" => prApproval.state = "none"
  BY DeliveryFacts
<1>2. CASE plan.review /\ ~plan.await
  <2>1. /\ rows = replaceAutoWorkItem(prRows, "review", m.head, m.n)
        /\ prApproval' = prApproval /\ prApproval.state = "none" /\ ~PrClosed
    BY <1>1, <1>2, PlanFacts DEF applyOpenedReviewAdmission
  <2>2. GrownBy(prRows, rows, "review", m.n)
    BY <1>1, <2>1, ReplaceRows
  <2>3. prOwed.head # 0 => OwedConds(rows, prOwed.head)
    BY <1>1, <2>1, ReplaceOwed
  <2>4. Held(rows, prApproval'.state)
    BY <2>1 DEF Held
  <2> QED BY <2>1, <2>2, <2>3, <2>4 DEF PlannedSound
<1>3. CASE ~(plan.review /\ ~plan.await)
  <2>1. rows = prRows
    BY <1>3 DEF applyOpenedReviewAdmission
  <2>2. Held(rows, prApproval'.state)
    <3>1. CASE plan.await
      BY <1>1, <2>1, <3>1 DEF insertAwaitingApproval, Held
    <3>2. CASE ~plan.await
      BY <1>1, <2>1, <3>2
    <3> QED BY <3>1, <3>2
  <2>3. PrClosed => prApproval' = prApproval
    BY PlanFacts
  <2> QED BY <1>1, <2>1, <2>2, <2>3, SameGrown DEF PlannedSound
<1> QED BY <1>2, <1>3

\* An opened or pushed pull request: the reviews first, then the work beside them.
LEMMA PlannedKeeps ==
  ASSUME IntakeInv, NEW m \in prMail, NEW id, insertWebhookEvent(m, id), Accept(m, id),
         UNCHANGED <<prFeatures, prGithub, prMail>>, m.kind \in {"opened", "synchronize"},
         applyPlannedAutomatedPullRequestIntake(m)
  PROVE  IntakeInv'
<1>1. PICK plan : plan = LifePlan(m)
  OBVIOUS
<1>2. PICK rows : rows = ReviewSupersede(applyOpenedReviewAdmission(plan, m), plan, m)
  OBVIOUS
<1>3. /\ IF plan.await THEN insertAwaitingApproval(m)
         ELSE IF plan.supersede /\ prFeatures.review = "approval" THEN moveAwaitingHead(m)
         ELSE UNCHANGED prApproval
      /\ prRows' = dispatchAutomatedKinds(rows, plan, m)
      /\ IF ~EveryPush(plan) \/ m.head <= prOwed.done \/ m.head < prOwed.head THEN UNCHANGED prOwed
         ELSE IF FoundPastCheck(prRows, plan) THEN Forgive
         ELSE prOwed' = [prOwed EXCEPT !.head = m.head]
      /\ UNCHANGED prLife
  BY <1>1, <1>2 DEF applyPlannedAutomatedPullRequestIntake, LifePlan
<1>4. /\ plan.review => m.kind = "opened" /\ ~PrClosed
      /\ plan.await => m.kind = "opened" /\ ~PrClosed /\ prFeatures.review = "approval"
      /\ plan.supersede => m.kind = "synchronize" /\ ~PrClosed
  BY <1>1, PlanFacts
<1>5. /\ prRows \in Seq(PrRow) /\ m.n \in Nat /\ m.head \in Nat /\ RowsSound(prRows)
      /\ m.head <= prGithub.head /\ prGithub.head \in Nat
      /\ \A kind : NoneFrom(prRows, kind, m.n)
      /\ \A i \in DOMAIN prRows : prRows[i].event \in prEvents.bodies \cup {m.n}
      /\ prOwed.head # 0 => /\ prFeatures.cadence = "every_push"
                            /\ prOwed.done < prOwed.head /\ prOwed.head <= prGithub.head
      /\ prApproval \in [state : {"none", "awaiting", "approved", "withdrawn"}, head : Nat,
                         workflowStartAdmits : BOOLEAN]
      /\ prOwed \in [head : Nat, done : Nat]
      /\ prLife \in [state : PrStates \cup {"none"}, at : Nat]
      /\ PrClosed => Quiet(prRows) /\ prApproval.state # "awaiting"
      /\ m.kind = "opened" => m.n = 1
  BY DeliveryFacts
<1>6. PlannedSound(rows, m)
  <2>1. CASE plan.supersede
    <3>1. ~plan.await /\ ~plan.review /\ ~PrClosed
      BY <1>4, <2>1
    <3>2. rows = ReviewSupersede(prRows, plan, m)
      BY <1>2, <3>1 DEF applyOpenedReviewAdmission
    <3>3. prApproval' = prApproval \/ moveAwaitingHead(m)
      BY <1>3, <3>1
    <3> QED BY <1>3, <2>1, <3>1, <3>2, <3>3, PlannedPush
  <2>2. CASE ~plan.supersede
    <3>1. rows = applyOpenedReviewAdmission(plan, m)
      BY <1>2, <2>2 DEF ReviewSupersede
    <3>2. IF plan.await THEN insertAwaitingApproval(m) ELSE UNCHANGED prApproval
      BY <1>3, <2>2
    <3>3. UNCHANGED prOwed
      BY <1>3, <2>2 DEF EveryPush
    <3> QED BY <1>1, <2>2, <3>1, <3>2, <3>3, PlannedOpen
  <2> QED BY <2>1, <2>2
<1>7. PICK known : known = prEvents.bodies \cup {m.n}
  OBVIOUS
<1>8. /\ rows \in Seq(PrRow) /\ RowsSound(rows)
      /\ \A i \in DOMAIN rows : rows[i].event \in known
      /\ \A kind \in DispatchKinds : NoneFrom(rows, kind, m.n)
  <2>1. m.n \in known /\ \A i \in DOMAIN prRows : prRows[i].event \in known
    BY <1>5, <1>7
  <2>2. GrownBy(prRows, rows, "review", m.n)
    BY <1>6 DEF PlannedSound
  <2> QED BY <1>5, <2>1, <2>2, ReviewsOnly
<1>9. /\ SameReviews(rows, prRows') /\ prRows' \in Seq(PrRow) /\ RowsSound(prRows')
      /\ \A i \in DOMAIN prRows' : prRows'[i].event \in known
  <2>1. m.n \in known /\ m.n \in Nat /\ m.head \in Nat
    BY <1>5, <1>7
  <2> QED BY <1>3, <1>8, <2>1, DispatchRows
<1>10. LifeSound' /\ (PrClosed' <=> PrClosed)
  <2>1. LifeSound'
    BY <1>3, LifeKept
  <2> QED BY <1>3, <2>1 DEF PrClosed
<1>11. /\ prApproval' \in [state : {"none", "awaiting", "approved", "withdrawn"}, head : Nat,
                           workflowStartAdmits : BOOLEAN]
       /\ prApproval'.state # "none" => prApproval.state # "none"
                                          \/ (prFeatures.review = "approval" /\ m.n = 1)
  <2>1. CASE plan.await
    <3>1. prFeatures.review = "approval" /\ m.n = 1 /\ insertAwaitingApproval(m)
      BY <1>3, <1>4, <1>5, <2>1
    <3>2. admissionForApprovalOpen(m.trust).workflowStartAdmits \in BOOLEAN
      BY DEF admissionForApprovalOpen
    <3> QED BY <1>5, <3>1, <3>2 DEF insertAwaitingApproval
  <2>2. CASE ~plan.await
    BY <1>3, <1>5, <2>2 DEF moveAwaitingHead
  <2> QED BY <2>1, <2>2
<1>12. /\ prOwed' \in [head : Nat, done : Nat] /\ prOwed'.done = prOwed.done
       /\ prOwed'.head # 0 => /\ prFeatures.cadence = "every_push"
                              /\ prOwed.done < prOwed'.head /\ prOwed'.head <= prGithub.head
  BY <1>3, <1>5 DEF Forgive, EveryPush
<1>13. /\ GrownBy(prRows, rows, "review", m.n) /\ Held(rows, prApproval'.state)
       /\ prOwed'.head # 0 => OwedConds(rows, prOwed'.head)
       /\ PrClosed' => Quiet(rows) /\ prApproval'.state # "awaiting"
  BY <1>5, <1>6, <1>10 DEF PlannedSound
<1>14. /\ \A i \in DOMAIN prRows' : prRows'[i].event \in prEvents.bodies \cup {m.n}
       /\ prLife' \in [state : PrStates \cup {"none"}, at : Nat]
  BY <1>3, <1>5, <1>7, <1>9
<1> QED BY <1>9, <1>10, <1>11, <1>12, <1>13, <1>14, DeliveryKeeps

\* Every delivery keeps the invariant.
LEMMA DeliveryStep ==
  ASSUME IntakeInv, NEW m \in prMail, NEW id, runDelivery(m, id)
  PROVE  IntakeInv'
<1>1. /\ insertWebhookEvent(m, id) /\ Accept(m, id) /\ applyDelivery(m)
      /\ UNCHANGED <<prFeatures, prGithub, prMail>>
  BY DEF runDelivery
<1>2. m.kind \in Commands \cup {"opened", "synchronize", "closed", "merged", "reopened",
                                 "approved", "workflow_run"}
  BY DEF IntakeInv, IntakeTyped, PrJob
<1>3. CASE m.kind \in {"closed", "merged"}
  <2>1. applyReviewCloseCancelIntake(m)
    BY <1>1, <1>3 DEF applyDelivery
  <2> QED BY <1>1, <1>3, <2>1, CloseKeeps
<1>4. CASE m.kind = "reopened"
  <2>1. Reopen(m)
    BY <1>1, <1>4 DEF applyDelivery
  <2> QED BY <1>1, <1>4, <2>1, ReopenKeeps
<1>5. CASE m.kind \in {"opened", "synchronize"}
  <2>1. applyPlannedAutomatedPullRequestIntake(m)
    BY <1>1, <1>5 DEF applyDelivery
  <2> QED BY <1>1, <1>5, <2>1, PlannedKeeps
<1>6. CASE m.kind \in {"approved", "workflow_run"}
  <2>1. applyReviewApprovedIntake(m)
    BY <1>1, <1>6 DEF applyDelivery
  <2> QED BY <1>1, <1>6, <2>1, ApprovedKeeps
<1>7. CASE m.kind \in {"review", "force"}
  <2>1. handleSlashReview(m)
    BY <1>1, <1>7 DEF applyDelivery
  <2> QED BY <1>1, <1>7, <2>1, SlashReviewKeeps
<1>8. CASE m.kind = "cancel"
  <2>1. handleSlashCancel(m)
    BY <1>1, <1>8 DEF applyDelivery
  <2> QED BY <1>1, <1>8, <2>1, CancelKeeps
<1>9. CASE m.kind \in {"describe", "triage", "verify"}
  <2>1. handleSlashWork(m)
    BY <1>1, <1>9 DEF applyDelivery
  <2> QED BY <1>1, <1>9, <2>1, SlashWorkKeeps
<1> QED BY <1>2, <1>3, <1>4, <1>5, <1>6, <1>7, <1>8, <1>9 DEF Commands

-----------------------------------------------------------------------------
(* GitHub *)

\* One more body, of what the pull request is now.
LEMMA Mailed ==
  ASSUME IntakeAssumption, IntakeInv, NEW kind, NEW head \in Nat, NEW state \in PrStates, NEW at \in Nat, NEW trust,
         SendPrJob(kind, head, state, at, trust), trust = "trusted",
         kind \in Commands \cup {"synchronize", "closed", "merged", "reopened", "approved",
                                 "workflow_run"},
         prGithub' \in [head : Nat, state : PrStates, at : Nat],
         head <= prGithub'.head, at <= prGithub'.at,
         prGithub.head <= prGithub'.head, prGithub.at <= prGithub'.at,
         kind \in {"closed", "merged"} => state = kind, kind = "reopened" => state = "open",
         kind = "merged" => prGithub'.state = "merged" /\ at = prGithub'.at,
         prGithub.state = "merged" => prGithub'.state = "merged" /\ prGithub'.at = prGithub.at
  PROVE  IntakeInv'
<1> DEFINE new == [n |-> Cardinality(prMail) + 1, kind |-> kind, head |-> head,
                   state |-> state, at |-> at, trust |-> trust]
<1>1. /\ prMail' = prMail \cup {new}
      /\ UNCHANGED <<prFeatures, prEvents, prLife, prApproval, prRows, prOwed, prRestarts>>
  BY DEF SendPrJob
<1>2. /\ IntakeTyped /\ MailSound /\ LifeSound /\ ApprovalSound /\ RowsSound(prRows)
      /\ EventsKnown /\ NoReviewWhileClosed /\ DoneSound /\ OwedSound
      /\ prMail \subseteq PrJob /\ IsFiniteSet(prMail) /\ Cardinality(prMail) \in Nat
      /\ prGithub.head \in Nat /\ prGithub.at \in Nat /\ prGithub'.head \in Nat /\ prGithub'.at \in Nat
      /\ prOwed.head \in Nat
  BY FS_CardinalityType DEF IntakeInv, IntakeTyped
<1>3. new \in PrJob /\ new.n = Cardinality(prMail) + 1 /\ new.kind = kind /\ new.at = at
      /\ new.head = head /\ new.state = state
  BY <1>2 DEF PrJob, Commands
<1> HIDE DEF new
<1>4. new \notin prMail
  BY <1>2, <1>3 DEF MailSound
<1>5. IsFiniteSet(prMail') /\ Cardinality(prMail') = Cardinality(prMail) + 1
  BY <1>1, <1>2, <1>4, FS_AddElement
<1>6. IntakeTyped'
  BY <1>1, <1>2, <1>3, <1>5 DEF IntakeTyped
<1>7. MailSound'
  <2>1. ASSUME NEW m \in prMail'
        PROVE  /\ m.n \in 1 .. Cardinality(prMail') /\ m.at <= prGithub'.at
               /\ m.head <= prGithub'.head
               /\ m.kind = "opened" => m.n = 1
               /\ m.kind \in {"closed", "merged"} => m.state = m.kind
               /\ m.kind = "reopened" => m.state = "open"
               /\ m.kind = "merged" => prGithub'.state = "merged" /\ m.at = prGithub'.at
    <3>1. CASE m = new
      BY <1>2, <1>3, <1>5, <3>1 DEF Commands
    <3>2. CASE m \in prMail
      <4>1. m.at \in Nat /\ m.head \in Nat /\ m.n \in Nat
        BY <1>2, <3>2 DEF PrJob
      <4> QED BY <1>2, <1>5, <3>2, <4>1 DEF MailSound
    <3> QED BY <1>1, <3>1, <3>2
  <2>2. ASSUME NEW m \in prMail', NEW k \in prMail', m.n = k.n
        PROVE  m = k
    <3>1. \A x \in prMail : x.n # new.n
      BY <1>2, <1>3 DEF MailSound
    <3> QED BY <1>1, <1>2, <2>2, <3>1 DEF MailSound
  <2>3. prEvents'.bodies \subseteq 1 .. Cardinality(prMail')
    BY <1>1, <1>2, <1>5 DEF MailSound
  <2> QED BY <2>1, <2>2, <2>3 DEF MailSound
<1>8. LifeSound'
  <2>1. new.n \notin prEvents.bodies
    BY <1>2, <1>3 DEF MailSound
  <2>2. LifecycleIsNewest'
    BY <1>1, <1>2, <2>1 DEF LifeSound, LifecycleIsNewest, Rank
  <2> QED BY <1>1, <1>2, <2>2 DEF LifeSound
<1>9. ApprovalSound'
  BY <1>1, <1>2 DEF ApprovalSound, HeldUntilApproved, Reviews
<1>10. RowsSound(prRows)' /\ EventsKnown' /\ NoReviewWhileClosed' /\ DoneSound'
  BY <1>1, <1>2 DEF EventsKnown, NoReviewWhileClosed, PrClosed, DoneSound, Reviews, Live
<1>11. OwedSound'
  <2>1. OwedSound => (prOwed.head # 0 => prOwed.head <= prGithub'.head)
    BY <1>2 DEF OwedSound
  <2>2. PushAnswered' <=> PushAnswered
    BY <1>1 DEF PushAnswered, WillAnswer, Reviews
  <2> QED BY <1>1, <1>2, <2>1, <2>2
        DEF OwedSound, SlashAnswers, HasQueued, HasQueuedSlash, Reviews
<1> QED BY <1>6, <1>7, <1>8, <1>9, <1>10, <1>11 DEF IntakeInv

\* What happens on GitHub makes a body and changes nothing here.
LEMMA GithubSteps ==
  ASSUME IntakeAssumption, IntakeInv
  PROVE  /\ IntakePush => IntakeInv'
         /\ \A s \in {"open", "closed", "merged"}, tick \in {0, 1} : ChangeState(s, tick) => IntakeInv'
         /\ \A k \in PrCommands \cup {"approved", "workflow_run"} : Signal(k) => IntakeInv'
<1>1. prGithub \in [head : Nat, state : PrStates, at : Nat] /\ prGithub.head \in Nat
      /\ prGithub.at \in Nat /\ prGithub.state \in PrStates
  BY DEF IntakeInv, IntakeTyped
<1>2. ASSUME IntakePush PROVE IntakeInv'
  <2>1. /\ prGithub.state = "open" /\ prGithub' = [prGithub EXCEPT !.head = @ + 1]
        /\ SendPrJob("synchronize", prGithub.head + 1, "open", prGithub.at, "trusted")
    BY <1>2 DEF IntakePush
  <2>2. /\ prGithub' \in [head : Nat, state : PrStates, at : Nat]
        /\ prGithub'.head = prGithub.head + 1 /\ prGithub'.at = prGithub.at
        /\ "open" \in PrStates /\ prGithub'.state = "open"
    BY <1>1, <2>1 DEF PrStates
  <2>3. PICK head \in Nat : head = prGithub.head + 1
    BY <1>1
  <2>4. /\ SendPrJob("synchronize", head, "open", prGithub.at, "trusted")
        /\ head <= prGithub'.head /\ prGithub.head <= prGithub'.head
        /\ prGithub.at <= prGithub'.at
    BY <1>1, <2>1, <2>2, <2>3
  <2> QED BY <1>1, <2>1, <2>2, <2>4, Mailed
<1>3. ASSUME NEW s \in {"open", "closed", "merged"}, NEW tick \in {0, 1}, ChangeState(s, tick)
      PROVE  IntakeInv'
  <2> DEFINE kind == IF s = "open" THEN "reopened" ELSE s
  <2>1. /\ prGithub.state # "merged"
        /\ prGithub' = [prGithub EXCEPT !.state = s, !.at = @ + tick]
        /\ SendPrJob(kind, prGithub.head, s, prGithub.at + tick, "trusted")
    BY <1>1, <1>3 DEF ChangeState, PrStates
  <2> PICK at \in Nat : at = prGithub.at + tick
    BY <1>1
  <2>2. /\ prGithub' \in [head : Nat, state : PrStates, at : Nat]
        /\ prGithub'.head = prGithub.head /\ prGithub'.at = at
        /\ prGithub'.state = s /\ s \in PrStates
        /\ prGithub.at <= prGithub'.at /\ prGithub.head <= prGithub'.head
        /\ at <= prGithub'.at /\ prGithub.head <= prGithub'.head
        /\ SendPrJob(kind, prGithub.head, s, at, "trusted")
    <3>1. prGithub' = [prGithub EXCEPT !.state = s, !.at = at]
      BY <2>1
    <3>2. s \in PrStates
      BY DEF PrStates
    <3>3. /\ prGithub' \in [head : Nat, state : PrStates, at : Nat]
          /\ prGithub'.head = prGithub.head /\ prGithub'.at = at /\ prGithub'.state = s
      BY <1>1, <3>1, <3>2
    <3> QED BY <1>1, <2>1, <3>2, <3>3
  <2>3. /\ kind \in {"synchronize", "closed", "merged", "reopened", "approved", "workflow_run"}
        /\ kind \in {"closed", "merged"} => s = kind
        /\ kind = "reopened" => s = "open"
        /\ kind = "merged" => s = "merged"
    OBVIOUS
  <2> HIDE DEF kind
  <2>4. kind \in Commands \cup {"synchronize", "closed", "merged", "reopened", "approved",
                                 "workflow_run"}
    BY <2>3
  <2> QED BY <1>1, <2>1, <2>2, <2>3, <2>4, Mailed
<1>4. ASSUME NEW k \in PrCommands \cup {"approved", "workflow_run"}, Signal(k)
      PROVE  IntakeInv'
  <2>1. k \in Commands \cup {"approved", "workflow_run"}
    BY DEF IntakeAssumption, Commands
  <2>2. prGithub' = prGithub /\ SendPrJob(k, prGithub.head, prGithub.state, prGithub.at, "trusted")
    BY <1>4 DEF Signal
  <2> QED BY <1>1, <2>1, <2>2, Mailed DEF Commands
<1> QED BY <1>2, <1>3, <1>4

-----------------------------------------------------------------------------
(* A running review *)

\* One row before and after a step of its execution.
SameCause(x, y) ==
    /\ y.type = x.type /\ y.src = x.src /\ y.event = x.event /\ y.parent = x.parent
    /\ y.staleHeadRescheduled = x.staleHeadRescheduled

\* No other review runs.
Alone(rows, i) == \A j \in Reviews(rows) : j # i => rows[j].st # "running"

\* The rows with one of them changed.
Put(rows, i, y) == [rows EXCEPT ![i] = y]

\* A row moves on.
Moves(rows, i, y) ==
    /\ y \in PrRow /\ SameCause(rows[i], y)
    /\ y.marks = rows[i].marks /\ y.seen \in {rows[i].seen, rows[i].marks}
    /\ y.run = "none" <=> y.st # "running"
    /\ y.run = "working" => y.seen.replacement = y.marks.replacement
    /\ y.run = "published" => y.marks.replacement = 0 /\ y.seen.replacement = 0
    /\ \/ y.st = rows[i].st
       \/ y.st # "queued" /\ (y.type = "review" => Alone(rows, i))
            /\ (y.marks.replacement # 0 => y.st # "running")

\* One row moved on, and its successors are as they were.
LEMMA ChangedRows ==
  ASSUME NEW rows \in Seq(PrRow), NEW i \in DOMAIN rows, NEW y, RowsSound(rows),
         Moves(rows, i, y), NEW new, new = Put(rows, i, y)
  PROVE  /\ new \in Seq(PrRow) /\ RowsSound(new) /\ DOMAIN new = DOMAIN rows
         /\ Reviews(new) = Reviews(rows) /\ new[i] = y
         /\ \A j \in DOMAIN rows : j # i => new[j] = rows[j]
<1>0. /\ y \in PrRow /\ SameCause(rows[i], y)
      /\ y.marks = rows[i].marks /\ y.seen \in {rows[i].seen, rows[i].marks}
      /\ y.run = "none" <=> y.st # "running"
      /\ y.run = "working" => y.seen.replacement = y.marks.replacement
      /\ y.run = "published" => y.marks.replacement = 0 /\ y.seen.replacement = 0
      /\ \/ y.st = rows[i].st
         \/ y.st # "queued" /\ (y.type = "review" => Alone(rows, i))
              /\ (y.marks.replacement # 0 => y.st # "running")
  BY DEF Moves
<1>1. /\ new \in Seq(PrRow) /\ DOMAIN new = DOMAIN rows /\ new[i] = y
      /\ \A j \in DOMAIN rows : j # i => new[j] = rows[j]
      /\ \A j \in DOMAIN rows : rows[j] \in PrRow /\ j \in Nat /\ RowSound(rows, j)
  BY <1>0, ExceptSeq, RowsTyped DEF RowsSound, Put
<1>2. \A j \in DOMAIN rows : SameCause(rows[j], new[j]) /\ new[j].marks = rows[j].marks
                              /\ new[j].seen \in {rows[j].seen, rows[j].marks}
  BY <1>0, <1>1 DEF SameCause
<1>3. Reviews(new) = Reviews(rows)
  BY <1>1, <1>2 DEF Reviews, SameCause
<1>4. \A marks : MarksSound(rows, marks) => MarksSound(new, marks)
  <2> SUFFICES ASSUME NEW marks, MarksSound(rows, marks), marks.kid # 0
               PROVE  MarksSound(new, marks)
    BY DEF MarksSound
  <2>1. marks.kid \in DOMAIN rows /\ marks.kid \in Reviews(new)
    BY <1>3 DEF MarksSound, Reviews
  <2> QED BY <1>2, <2>1 DEF MarksSound, SameCause
<1>5. ASSUME NEW j \in DOMAIN rows
      PROVE  RowSound(new, j)
  <2> DEFINE row == rows[j]
             later == new[j]
             p == row.parent
             next == row.marks.replacement
  <2>1. /\ SameCause(row, later) /\ later.marks = row.marks /\ later.seen \in {row.seen, row.marks}
        /\ RowSound(rows, j) /\ row.seen.replacement \in Nat /\ next \in Nat /\ p \in Nat
    BY <1>1, <1>2, RowFields
  <2>2. /\ later.run = "none" <=> later.st # "running"
        /\ later.run = "working" => later.seen.replacement = next
        /\ later.run = "published" => next = 0 /\ later.seen.replacement = 0
    BY <1>0, <1>1, <2>1 DEF RowSound
  <2>3. p # 0 => p \in DOMAIN rows
    BY <1>1, <2>1, RowsTyped DEF RowSound
  <2>4. /\ p = 0 => ~later.staleHeadRescheduled
        /\ p # 0 => /\ p < j /\ later.type = "review" /\ new[p].type = "review"
                    /\ IF later.staleHeadRescheduled THEN new[p].marks.replacement = j
                                                     ELSE new[p].marks.kid = j
    BY <1>2, <2>1, <2>3 DEF RowSound, SameCause
  <2>5. MarksSound(new, later.marks) /\ MarksSound(new, later.seen)
    BY <1>4, <2>1 DEF RowSound
  <2>6. /\ later.marks.kid # 0 \/ later.seen.kid # 0 => later.src = "slash"
        /\ later.seen.replacement \in {0, next}
    BY <2>1 DEF RowSound, SameCause
  <2>7. next # 0 => /\ ~later.staleHeadRescheduled /\ next \in Reviews(new)
                    /\ new[next].parent = j /\ new[next].staleHeadRescheduled
                    /\ new[next].src = later.src /\ later.st # "queued"
                    /\ later.st = "running" => new[next].st = "queued"
    <3> SUFFICES ASSUME next # 0
                 PROVE  /\ ~later.staleHeadRescheduled /\ next \in Reviews(new)
                        /\ new[next].parent = j /\ new[next].staleHeadRescheduled
                        /\ new[next].src = later.src /\ later.st # "queued"
                        /\ later.st = "running" => new[next].st = "queued"
      OBVIOUS
    <3>1. /\ ~row.staleHeadRescheduled /\ next \in Reviews(rows) /\ rows[next].parent = j
          /\ rows[next].staleHeadRescheduled /\ rows[next].src = row.src /\ row.st # "queued"
          /\ row.st = "running" => rows[next].st = "queued"
      BY <2>1 DEF RowSound
    <3>2. next \in DOMAIN rows /\ RowSound(rows, next) /\ SameCause(rows[next], new[next])
      BY <1>1, <1>2, <3>1 DEF Reviews
    <3>3. j \in Reviews(rows) /\ next # j
      BY <1>1, <3>1, <3>2 DEF Reviews, RowSound
    <3>4. later.st # "queued"
      BY <1>0, <1>1, <3>1
    <3>5. later.st = "running" => new[next].st = "queued"
      <4>1. CASE j = i
        BY <1>0, <1>1, <3>1, <3>2, <3>3, <4>1
      <4>2. CASE next = i
        <5>1. later = row
          BY <1>1, <3>3, <4>2
        <5>2. y.type = "review"
          BY <1>0, <1>1, <3>1, <4>2 DEF Reviews, SameCause
        <5>3. later.st = "running" => y.st = rows[i].st
          BY <1>0, <3>3, <4>2, <5>1, <5>2 DEF Alone
        <5> QED BY <1>1, <3>1, <4>2, <5>1, <5>3
      <4>3. CASE j # i /\ next # i
        BY <1>1, <3>1, <3>2, <4>3
      <4> QED BY <4>1, <4>2, <4>3
    <3> QED BY <1>3, <2>1, <3>1, <3>2, <3>4, <3>5 DEF SameCause
  <2>8. later.parent = p /\ later.marks.replacement = next
    BY <2>1 DEF SameCause
  <2> HIDE DEF p, next
  <2> QED BY <2>2, <2>4, <2>5, <2>6, <2>7, <2>8 DEF RowSound
<1>6. ASSUME NEW j \in Reviews(new), NEW k \in Reviews(new), new[j].st = "running", new[k].st = "running"
      PROVE  j = k
  <2>1. /\ j \in Reviews(rows) /\ k \in Reviews(rows) /\ j \in DOMAIN rows /\ k \in DOMAIN rows
        /\ rows[j].type = "review" /\ rows[k].type = "review"
    BY <1>3, <1>6 DEF Reviews
  <2>2. CASE y.st = rows[i].st
    BY <1>1, <1>6, <2>1, <2>2 DEF RowsSound
  <2>3. CASE y.st # rows[i].st
    <3>1. y.type = "review" => Alone(rows, i)
      BY <1>0, <2>3
    <3>2. j = i \/ k = i => y.type = "review"
      BY <1>0, <2>1 DEF SameCause
    <3>3. (j # i => rows[j].st = "running") /\ (k # i => rows[k].st = "running")
      BY <1>1, <1>6, <2>1
    <3> QED BY <2>1, <3>1, <3>2, <3>3 DEF Alone, RowsSound
  <2> QED BY <2>2, <2>3
<1>7. \A j, k \in DOMAIN new :
        new[j].parent = 0 /\ new[k].parent = 0 /\ new[j].type = new[k].type
          /\ new[j].event = new[k].event => j = k
  BY <1>1, <1>2 DEF RowsSound, SameCause
<1>8. \A j \in DOMAIN new : RowSound(new, j)
  BY <1>1, <1>5
<1>9. RowsSound(new)
  BY <1>6, <1>7, <1>8 DEF RowsSound
<1> QED BY <1>1, <1>3, <1>9

\* A row that runs gets a successor: a replacement of a stale one, or a follow-up of a stamped one.
Succeeds(rows, i, y, child) ==
    /\ rows[i].st = "running" /\ rows[i].marks.replacement = 0
    /\ y \in PrRow /\ SameCause(rows[i], y) /\ y.st = "running" /\ y.seen = rows[i].seen
    /\ y.run = "checked"
    /\ child \in PrRow /\ child.type = "review" /\ child.event = rows[i].event
    /\ child.parent = i /\ child.st = "queued" /\ child.run = "none" /\ child.seen = NoMarks
    /\ child.marks.replacement = 0 /\ MarksSound(rows, child.marks)
    /\ child.marks.kid # 0 => child.src = "slash"
    /\ \/ /\ child.staleHeadRescheduled /\ ~rows[i].staleHeadRescheduled
          /\ child.src = rows[i].src
          /\ y.marks = [rows[i].marks EXCEPT !.replacement = Len(rows) + 1]
       \/ /\ ~child.staleHeadRescheduled /\ child.src = "auto"
          /\ rows[i].src = "slash" /\ rows[i].marks.kid = 0 /\ rows[i].marks.stamped
          /\ y.marks = [rows[i].marks EXCEPT !.kid = Len(rows) + 1]

\* The rows with one of them changed and its successor added.
WithChild(rows, i, y, child) == Append(Put(rows, i, y), child)

\* What WithChild makes of rows.
Added(rows, new, i, y, child) ==
    /\ Len(new) = Len(rows) + 1 /\ new[Len(rows) + 1] = child /\ new[i] = y
    /\ \A j \in DOMAIN rows : j \in DOMAIN new /\ (j # i => new[j] = rows[j])
    /\ \A j \in DOMAIN new : j \notin DOMAIN rows => j = Len(rows) + 1
    /\ Reviews(new) = Reviews(rows) \cup {Len(rows) + 1}

\* The rows after a successor was added are sound.
LEMMA ChildRows ==
  ASSUME NEW rows \in Seq(PrRow), NEW i \in Reviews(rows), RowsSound(rows),
         NEW y, NEW child, Succeeds(rows, i, y, child),
         NEW new, new = WithChild(rows, i, y, child)
  PROVE  new \in Seq(PrRow) /\ RowsSound(new) /\ Added(rows, new, i, y, child)
<1> DEFINE c == Len(rows) + 1
           mid == Put(rows, i, y)
<1>y. /\ y \in PrRow /\ SameCause(rows[i], y) /\ y.st = "running" /\ y.seen = rows[i].seen
      /\ y.run = "checked" /\ rows[i].st = "running" /\ rows[i].marks.replacement = 0
  BY DEF Succeeds
<1>c. /\ child \in PrRow /\ child.type = "review" /\ child.event = rows[i].event
      /\ child.parent = i /\ child.st = "queued" /\ child.run = "none" /\ child.seen = NoMarks
      /\ child.marks.replacement = 0 /\ MarksSound(rows, child.marks)
      /\ child.marks.kid # 0 => child.src = "slash"
  BY DEF Succeeds
<1>s. child.staleHeadRescheduled =>
        /\ ~rows[i].staleHeadRescheduled /\ child.src = rows[i].src
        /\ y.marks.replacement = c /\ y.marks.kid = rows[i].marks.kid
        /\ y.marks.stamped = rows[i].marks.stamped
  BY RowsTyped, RowFields DEF Succeeds, PrMarks, Reviews
<1>f. ~child.staleHeadRescheduled =>
        /\ child.src = "auto" /\ rows[i].src = "slash" /\ rows[i].marks.kid = 0
        /\ rows[i].marks.stamped
        /\ y.marks.replacement = 0 /\ y.marks.kid = c /\ y.marks.stamped
  BY RowsTyped, RowFields DEF Succeeds, PrMarks, Reviews
<1>1. /\ DOMAIN rows = 1 .. Len(rows) /\ Len(rows) \in Nat /\ i \in DOMAIN rows
      /\ rows[i].type = "review" /\ rows[i].run # "none" /\ RowSound(rows, i)
      /\ \A j \in DOMAIN rows : rows[j] \in PrRow /\ j \in Nat /\ j > 0 /\ j <= Len(rows) /\ RowSound(rows, j)
  BY <1>y, RowsTyped DEF Reviews, RowsSound, RowSound
<1>2. /\ mid \in Seq(PrRow) /\ DOMAIN mid = DOMAIN rows /\ Len(mid) = Len(rows)
      /\ mid[i] = y /\ \A j \in DOMAIN rows : j # i => mid[j] = rows[j]
  BY <1>y, <1>c, <1>1, ExceptSeq DEF Put
<1> HIDE DEF mid
<1>3. /\ new \in Seq(PrRow) /\ Len(new) = c /\ new[c] = child
      /\ \A j \in DOMAIN rows : new[j] = mid[j]
  BY <1>y, <1>c, <1>2, RowsTyped DEF mid, WithChild
<1>4. /\ DOMAIN new = 1 .. c /\ new[i] = y
      /\ \A j \in DOMAIN rows : j \in DOMAIN new /\ (j # i => new[j] = rows[j])
      /\ \A j \in DOMAIN new : j \notin DOMAIN rows => j = c
      /\ c \notin DOMAIN rows /\ c \in DOMAIN new /\ c \in Nat /\ c # 0 /\ c > i
      /\ \A j \in DOMAIN new : j \in Nat /\ new[j] \in PrRow
  <2>1. DOMAIN new = 1 .. c
    BY <1>y, <1>c, <1>1, <1>3, RowsTyped
  <2> QED BY <1>y, <1>c, <1>1, <1>2, <1>3, <2>1
<1>5. \A j \in DOMAIN rows : SameCause(rows[j], new[j]) /\ new[j].seen = rows[j].seen
                              /\ new[j].st = rows[j].st
  BY <1>y, <1>c, <1>4 DEF SameCause
<1>6. Reviews(new) = Reviews(rows) \cup {c}
  BY <1>y, <1>c, <1>3, <1>4, <1>5 DEF Reviews, SameCause
<1>7. ASSUME NEW marks, MarksSound(rows, marks)
      PROVE  MarksSound(new, marks)
  <2> SUFFICES ASSUME marks.kid # 0
               PROVE  MarksSound(new, marks)
    BY DEF MarksSound
  <2>1. /\ marks.kid \in DOMAIN rows /\ marks.kid \in Reviews(new) /\ marks.stamped
        /\ rows[marks.kid].src = "auto" /\ ~rows[marks.kid].staleHeadRescheduled
    BY <1>y, <1>c, <1>6, <1>7 DEF MarksSound, Reviews
  <2> QED BY <1>y, <1>c, <1>5, <2>1 DEF MarksSound, SameCause
<1>8. RowSound(new, c)
  <2>1. IF child.staleHeadRescheduled THEN y.marks.replacement = c ELSE y.marks.kid = c
    BY <1>s, <1>f
  <2>2. y.type = "review"
    BY <1>y, <1>c, <1>1 DEF SameCause
  <2>3. MarksSound(new, child.marks) /\ MarksSound(new, NoMarks)
    BY <1>y, <1>c, <1>7 DEF MarksSound, NoMarks
  <2>4. NoMarks.kid = 0 /\ NoMarks.replacement = 0
    BY DEF NoMarks
  <2>5. new[c] = child /\ new[i] = y /\ i < c /\ i # 0
    BY <1>1, <1>3, <1>4
  <2> HIDE DEF c
  <2> QED BY <1>c, <2>1, <2>2, <2>3, <2>4, <2>5 DEF RowSound
<1>9. RowSound(new, i)
  <2>1. /\ y.seen.replacement = 0 /\ y.src = rows[i].src /\ y.type = "review"
        /\ y.parent = rows[i].parent /\ y.staleHeadRescheduled = rows[i].staleHeadRescheduled
        /\ MarksSound(new, rows[i].marks) /\ MarksSound(new, y.seen)
        /\ rows[i].marks \in PrMarks /\ rows[i].parent \in Nat
        /\ rows[i].seen.kid # 0 => y.src = "slash"
    <3>1. /\ y.src = rows[i].src /\ y.type = "review" /\ y.parent = rows[i].parent
          /\ y.staleHeadRescheduled = rows[i].staleHeadRescheduled
      BY <1>y, <1>c, <1>1 DEF SameCause
    <3>2. rows[i].marks \in PrMarks /\ rows[i].parent \in Nat
      BY <1>y, <1>c, <1>1, RowFields
    <3>3. /\ rows[i].seen.replacement = 0
          /\ MarksSound(rows, rows[i].marks) /\ MarksSound(rows, rows[i].seen)
          /\ rows[i].seen.kid # 0 => rows[i].src = "slash"
      BY <1>y, <1>c, <1>1 DEF RowSound
    <3> QED BY <1>y, <1>c, <1>7, <3>1, <3>2, <3>3
  <2> DEFINE p == rows[i].parent
  <2>2. /\ p = 0 => ~y.staleHeadRescheduled
        /\ p # 0 => /\ p < i /\ y.type = "review" /\ new[p].type = "review"
                    /\ IF y.staleHeadRescheduled THEN new[p].marks.replacement = i
                                                 ELSE new[p].marks.kid = i
    <3>1. p # 0 => p < i /\ p \in DOMAIN rows /\ p # i
      BY <1>y, <1>c, <1>1, <2>1 DEF RowSound
    <3>2. p # 0 => new[p] = rows[p]
      BY <1>y, <1>c, <1>4, <3>1
    <3>3. /\ p = 0 => ~rows[i].staleHeadRescheduled
          /\ p # 0 => /\ p < i /\ rows[p].type = "review"
                      /\ IF rows[i].staleHeadRescheduled THEN rows[p].marks.replacement = i
                                                         ELSE rows[p].marks.kid = i
      BY <1>1 DEF RowSound
    <3> HIDE DEF p
    <3> QED BY <2>1, <3>2, <3>3
  <2>5. new[i] = y /\ y.parent = p /\ new[c] = child
    BY <1>3, <1>4, <2>1
  <2>3. CASE child.staleHeadRescheduled
    <3>1. /\ y.marks.replacement = c /\ y.marks.kid = rows[i].marks.kid
          /\ y.marks.stamped = rows[i].marks.stamped
          /\ ~rows[i].staleHeadRescheduled /\ child.src = rows[i].src
      BY <1>s, <2>3
    <3>2. MarksSound(new, y.marks)
      BY <1>y, <1>c, <2>1, <3>1 DEF MarksSound
    <3>3. y.marks.kid # 0 => y.src = "slash"
      BY <1>y, <1>c, <1>1, <2>1, <3>1 DEF RowSound
    <3>4. c \in Reviews(new)
      BY <1>y, <1>c, <1>6
    <3> HIDE DEF c, p
    <3>5. /\ y.run # "none" /\ y.st = "running" /\ y.seen.replacement = 0
          /\ y.seen.kid # 0 => y.src = "slash"
          /\ new[y.marks.replacement] = child /\ child.parent = i /\ child.st = "queued"
          /\ child.src = y.src /\ child.staleHeadRescheduled /\ ~y.staleHeadRescheduled
          /\ y.marks.replacement \in Reviews(new) /\ y.run = "checked"
      BY <1>y, <1>c, <2>1, <2>3, <2>5, <3>1, <3>4
    <3> QED BY <2>1, <2>2, <2>5, <3>2, <3>3, <3>5 DEF RowSound
  <2>4. CASE ~child.staleHeadRescheduled
    <3>1. /\ y.marks.replacement = 0 /\ y.marks.kid = c /\ y.marks.stamped /\ y.src = "slash"
          /\ child.src = "auto"
      BY <1>f, <2>1, <2>4
    <3>2. MarksSound(new, y.marks)
      <4>1. c \in Reviews(new) /\ new[c].src = "auto" /\ ~new[c].staleHeadRescheduled
        BY <1>y, <1>c, <1>3, <1>6, <2>4, <3>1
      <4> HIDE DEF c
      <4> QED BY <1>y, <1>c, <3>1, <4>1 DEF MarksSound
    <3> HIDE DEF c, p
    <3>3. /\ y.run # "none" /\ y.st = "running" /\ y.seen.replacement = 0 /\ y.run = "checked"
      BY <1>y, <2>1
    <3> QED BY <2>1, <2>2, <2>5, <3>1, <3>2, <3>3 DEF RowSound
  <2> QED BY <1>y, <1>c, <2>3, <2>4
<1>10. ASSUME NEW j \in DOMAIN rows, j # i
       PROVE  RowSound(new, j)
  <2> DEFINE row == rows[j]
             p == row.parent
             next == row.marks.replacement
  <2>1. /\ RowSound(rows, j) /\ new[j] = row /\ row \in PrRow /\ p \in Nat /\ next \in Nat
    BY <1>y, <1>c, <1>1, <1>4, <1>10, RowFields
  <2>2. /\ p = 0 => ~row.staleHeadRescheduled
        /\ p # 0 => /\ p < j /\ row.type = "review" /\ new[p].type = "review"
                    /\ IF row.staleHeadRescheduled THEN new[p].marks.replacement = j
                                                   ELSE new[p].marks.kid = j
    <3>1. p # 0 => p \in DOMAIN rows
      BY <1>y, <1>c, <1>1, <2>1 DEF RowSound
    <3>2. CASE p # i
      BY <1>y, <1>c, <1>4, <2>1, <3>1, <3>2 DEF RowSound
    <3>3. CASE p = i
      <4>1. /\ p # 0 /\ p < j /\ row.type = "review"
            /\ IF row.staleHeadRescheduled THEN rows[i].marks.replacement = j
                                           ELSE rows[i].marks.kid = j
        BY <1>y, <1>c, <1>1, <2>1, <3>3 DEF RowSound
      <4>2. ~row.staleHeadRescheduled /\ rows[i].marks.kid = j /\ rows[i].marks.kid # 0
        BY <1>y, <1>c, <1>1, <4>1
      <4>3. y.marks.kid = j
        BY <1>s, <1>f, <1>1, <4>2
      <4> QED BY <1>y, <1>c, <1>1, <1>4, <3>3, <4>1, <4>2, <4>3 DEF SameCause
    <3> QED BY <1>y, <1>c, <3>2, <3>3
  <2>3. MarksSound(new, row.marks) /\ MarksSound(new, row.seen)
    BY <1>y, <1>c, <1>7, <2>1 DEF RowSound
  <2>4. next # 0 => /\ next \in Reviews(new) /\ new[next].parent = j
                    /\ new[next].staleHeadRescheduled /\ new[next].src = row.src
                    /\ row.st = "running" => new[next].st = "queued"
    <3>1. next # 0 => /\ next \in Reviews(rows) /\ rows[next].parent = j
                      /\ rows[next].staleHeadRescheduled /\ rows[next].src = row.src
                      /\ row.st = "running" => rows[next].st = "queued"
      BY <1>y, <1>c, <2>1 DEF RowSound
    <3>2. next # 0 => next \in DOMAIN rows
      BY <1>y, <1>c, <3>1 DEF Reviews
    <3> QED BY <1>y, <1>c, <1>5, <1>6, <3>1, <3>2 DEF SameCause
  <2>5. /\ row.run = "none" <=> row.st # "running"
        /\ row.marks.kid # 0 \/ row.seen.kid # 0 => row.src = "slash"
        /\ row.seen.replacement \in {0, next}
        /\ next # 0 => ~row.staleHeadRescheduled /\ row.st # "queued"
        /\ row.run = "working" => row.seen.replacement = next
        /\ row.run = "published" => next = 0 /\ row.seen.replacement = 0
    BY <1>y, <1>c, <2>1 DEF RowSound
  <2>6. new[j].parent = p /\ new[j].marks.replacement = next /\ new[j] = row
    BY <1>y, <1>c, <2>1
  <2> HIDE DEF row, p, next
  <2> QED BY <1>y, <1>c, <2>2, <2>3, <2>4, <2>5, <2>6 DEF RowSound
<1>11. ASSUME NEW j \in Reviews(new), NEW k \in Reviews(new), new[j].st = "running", new[k].st = "running"
       PROVE  j = k
  BY <1>y, <1>c, <1>3, <1>5, <1>6, <1>11 DEF RowsSound, Reviews
<1>12. \A j, k \in DOMAIN new :
         new[j].parent = 0 /\ new[k].parent = 0 /\ new[j].type = new[k].type
           /\ new[j].event = new[k].event => j = k
  <2>1. \A j \in DOMAIN new : new[j].parent = 0 => j \in DOMAIN rows
    BY <1>c, <1>1, <1>3, <1>4
  <2>2. \A j, k \in DOMAIN rows :
          rows[j].parent = 0 /\ rows[k].parent = 0 /\ rows[j].type = rows[k].type
            /\ rows[j].event = rows[k].event => j = k
    BY DEF RowsSound
  <2> QED BY <1>5, <2>1, <2>2 DEF SameCause
<1>13. \A j \in DOMAIN new : RowSound(new, j)
  BY <1>y, <1>c, <1>4, <1>8, <1>9, <1>10
<1>14. RowsSound(new)
  BY <1>y, <1>c, <1>11, <1>12, <1>13 DEF RowsSound
<1> QED BY <1>3, <1>4, <1>6, <1>14 DEF Added

\* What is known of a row when its execution takes a step.
LEMMA RunFacts ==
  ASSUME IntakeInv, NEW i \in DOMAIN prRows
  PROVE  /\ prRows \in Seq(PrRow) /\ RowsSound(prRows) /\ RowSound(prRows, i) /\ prRows[i] \in PrRow
         /\ Held(prRows, prApproval.state) /\ Covered(prRows, prOwed.done)
         /\ \A j \in DOMAIN prRows : prRows[j].event \in prEvents.bodies
         /\ PrClosed => Quiet(prRows)
         /\ prOwed \in [head : Nat, done : Nat] /\ prOwed.head \in Nat /\ prOwed.done \in Nat
         /\ prGithub.head \in Nat /\ prRows[i].head \in Nat
         /\ prOwed.head # 0 => /\ prFeatures.cadence = "every_push"
                               /\ prOwed.done < prOwed.head /\ prOwed.head <= prGithub.head
                               /\ OwedConds(prRows, prOwed.head)
<1>1. /\ IntakeTyped /\ ApprovalSound /\ RowsSound(prRows) /\ EventsKnown
      /\ NoReviewWhileClosed /\ OwedSound /\ HeldUntilApproved /\ DoneSound
  BY DEF IntakeInv, ApprovalSound
<1>2. prRows \in Seq(PrRow) /\ prRows[i] \in PrRow /\ RowSound(prRows, i)
  BY <1>1, RowsTyped DEF IntakeTyped, RowsSound
<1>3. prRows[i].head \in Nat
  BY <1>2, RowFields
<1>4. /\ prOwed \in [head : Nat, done : Nat] /\ prOwed.head \in Nat /\ prOwed.done \in Nat
      /\ prGithub.head \in Nat
  BY <1>1 DEF IntakeTyped
<1> QED BY <1>1, <1>2, <1>3, <1>4, IntakeParts DEF EventsKnown

\* What a step of an execution owes: sound rows, nothing live on a closed pull request, and an
\* answer to the newest push.
LEMMA RunKeeps ==
  ASSUME IntakeInv, KeepRest, NEW rows, rows = prRows', rows \in Seq(PrRow), RowsSound(rows),
         \A j \in DOMAIN rows : rows[j].event \in prEvents.bodies,
         PrClosed => Quiet(rows), Held(rows, prApproval.state),
         prOwed' \in [head : Nat, done : Nat], Covered(rows, prOwed'.done),
         prOwed'.head # 0 => /\ prFeatures.cadence = "every_push"
                             /\ prOwed'.done < prOwed'.head /\ prOwed'.head <= prGithub.head
                             /\ OwedConds(rows, prOwed'.head)
  PROVE  IntakeInv'
<1>1. /\ IntakeTyped /\ MailSound /\ LifeSound /\ ApprovalSound /\ NoReviewWhileClosed
      /\ UNCHANGED <<prFeatures, prGithub, prMail, prEvents, prLife, prApproval>>
  BY DEF IntakeInv, KeepRest
<1>2. IntakeTyped'
  BY <1>1 DEF IntakeTyped
<1>3. MailSound' /\ LifeSound'
  BY <1>1 DEF MailSound, LifeSound, LifecycleIsNewest, Rank
<1>4. ApprovalSound'
  BY <1>1 DEF ApprovalSound, HeldUntilApproved, Held
<1>5. NoReviewWhileClosed'
  BY <1>1 DEF NoReviewWhileClosed, PrClosed, Quiet
<1>6. RowsSound(prRows)' /\ EventsKnown'
  BY <1>1 DEF EventsKnown
<1>7. DoneSound'
  BY DEF DoneSound, Covered
<1>8. OwedSound'
  <2> SUFFICES ASSUME prOwed'.head # 0 PROVE OwedSound'
    BY DEF OwedSound
  <2>1. \A j : WillAnswer(prRows[j])' <=> Answers(prRows'[j], prOwed'.head)
    BY DEF WillAnswer, Answers
  <2>2. PushAnswered'
    BY <2>1 DEF OwedConds, PushAnswered
  <2> QED BY <1>1, <2>2 DEF OwedSound, OwedConds
<1> QED BY <1>2, <1>3, <1>4, <1>5, <1>6, <1>7, <1>8 DEF IntakeInv

\* While one review runs, only what it leaves behind matters to a push that is owed one.
LEMMA AloneOwed ==
  ASSUME NEW rows \in Seq(PrRow), NEW i, NEW head, RowsSound(rows), Alone(rows, i),
         rows[i].src = "slash" => SlashAnswers(rows, i), \E k \in Reviews(rows) : Answers(rows[k], head)
  PROVE  OwedConds(rows, head)
<1>1. ASSUME NEW j \in Reviews(rows), j # i
      PROVE  SlashAnswers(rows, j)
  <2>1. rows[j].run = "none"
    BY <1>1 DEF Alone, RowsSound, RowSound, Reviews
  <2> QED BY <2>1 DEF SlashAnswers
<1> QED BY <1>1 DEF OwedConds

\* A row moved on: what is left to show is what it makes of the newest push.
LEMMA MovedKeeps ==
  ASSUME IntakeInv, KeepRest, NEW i \in DOMAIN prRows, NEW y \in PrRow,
         SameCause(prRows[i], y), Live(y) => Live(prRows[i]),
         NEW new, new = prRows', new \in Seq(PrRow), RowsSound(new), DOMAIN new = DOMAIN prRows,
         Reviews(new) = Reviews(prRows), new[i] = y,
         \A j \in DOMAIN prRows : j # i => new[j] = prRows[j],
         prOwed' \in [head : Nat, done : Nat], prOwed.done <= prOwed'.done,
         y.type = "review" => /\ y.run = "published" => y.head <= prOwed'.done
                              /\ y.run = "checked" => y.head <= prOwed'.done \/ y.marks.replacement # 0,
         prOwed'.head # 0 => prOwed' = prOwed /\ OwedConds(new, prOwed'.head)
  PROVE  IntakeInv'
<1>1. /\ Held(prRows, prApproval.state) /\ Covered(prRows, prOwed.done)
      /\ \A j \in DOMAIN prRows : prRows[j].event \in prEvents.bodies /\ prRows[j] \in PrRow
                                   /\ prRows[j].head \in Nat
      /\ PrClosed => Quiet(prRows)
      /\ prOwed.done \in Nat /\ prOwed'.done \in Nat
      /\ prOwed.head # 0 => /\ prFeatures.cadence = "every_push"
                            /\ prOwed.done < prOwed.head /\ prOwed.head <= prGithub.head
  BY RunFacts
<1>2. \A j \in DOMAIN new : new[j].event \in prEvents.bodies
  BY <1>1 DEF SameCause
<1>3. PrClosed => Quiet(new)
  BY <1>1 DEF Quiet, Reviews
<1>4. \A j \in Reviews(new) : new[j].src = prRows[j].src
  BY DEF SameCause, Reviews
<1>5. Held(new, prApproval.state)
  BY <1>1, <1>4 DEF Held
<1>6. Covered(new, prOwed'.done)
  <2> SUFFICES ASSUME NEW j \in Reviews(new)
               PROVE  /\ new[j].run = "published" => new[j].head <= prOwed'.done
                      /\ new[j].run = "checked" => new[j].head <= prOwed'.done \/ new[j].marks.replacement # 0
    BY DEF Covered
  <2>1. CASE j = i
    BY <2>1 DEF Reviews
  <2>2. CASE j # i
    <3>1. new[j] = prRows[j] /\ j \in Reviews(prRows) /\ prRows[j].head \in Nat
      BY <1>1, <2>2 DEF Reviews
    <3>2. prRows[j].head <= prOwed.done => prRows[j].head <= prOwed'.done
      BY <1>1, <3>1
    <3> QED BY <1>1, <3>1, <3>2 DEF Covered
  <2> QED BY <2>1, <2>2
<1> QED BY <1>1, <1>2, <1>3, <1>5, <1>6, RunKeeps

\* A claimed review works on the newest head, so it answers what is owed.
LEMMA ClaimKeeps ==
  ASSUME IntakeInv, NEW i \in DOMAIN prRows, ClaimRow(i)
  PROVE  IntakeInv'
<1> DEFINE y == [prRows[i] EXCEPT !.st = "running", !.seen = prRows[i].marks,
                   !.run = IF prRows[i].type = "review" THEN "working" ELSE "checked",
                   !.head = IF @ = DEFERRED_HEAD_SHA THEN prGithub.head ELSE @]
<1>1. /\ prRows[i].st = "queued" /\ KeepRest /\ prOwed' = prOwed
      /\ \A j \in DOMAIN prRows : prRows[j].type = prRows[i].type => prRows[j].st # "running"
  BY DEF ClaimRow
<1>2. /\ prRows \in Seq(PrRow) /\ RowsSound(prRows) /\ RowSound(prRows, i) /\ prRows[i] \in PrRow
      /\ prOwed \in [head : Nat, done : Nat] /\ prOwed.done \in Nat
      /\ prGithub.head \in Nat /\ prRows[i].head \in Nat
      /\ prOwed.head # 0 => OwedConds(prRows, prOwed.head)
      /\ prRows[i].marks \in PrMarks
  BY RunFacts, RowFields
<1>3. prRows' = [prRows EXCEPT ![i] = y]
  BY <1>2 DEF ClaimRow
<1>4. /\ y \in PrRow /\ SameCause(prRows[i], y) /\ y.marks = prRows[i].marks
      /\ y.seen = prRows[i].marks /\ y.st = "running"
      /\ y.run = IF prRows[i].type = "review" THEN "working" ELSE "checked"
  BY <1>2 DEF PrRow, SameCause
<1> HIDE DEF y
<1>5. PICK new : new = prRows'
  OBVIOUS
<1>6. /\ y.type = "review" => Alone(prRows, i)
      /\ y.marks.replacement = 0
  BY <1>1, <1>2, <1>4 DEF Alone, Reviews, SameCause, RowSound
<1>7. /\ new \in Seq(PrRow) /\ RowsSound(new) /\ DOMAIN new = DOMAIN prRows
      /\ Reviews(new) = Reviews(prRows) /\ new[i] = y
      /\ \A j \in DOMAIN prRows : j # i => new[j] = prRows[j]
  <2>1. /\ y.run = "none" <=> y.st # "running"
        /\ y.run = "working" => y.seen.replacement = y.marks.replacement
        /\ y.run # "published"
        /\ y.st # "queued" /\ (y.type = "review" => Alone(prRows, i))
             /\ (y.marks.replacement # 0 => y.st # "running")
    BY <1>4, <1>6
  <2>2. y.seen \in {prRows[i].seen, prRows[i].marks} /\ new = Put(prRows, i, y)
    BY <1>3, <1>4, <1>5 DEF Put
  <2>3. Moves(prRows, i, y)
    BY <1>4, <2>1, <2>2 DEF Moves
  <2> QED BY <1>2, <2>2, <2>3, ChangedRows
<1>8. prOwed.head # 0 => OwedConds(new, prOwed.head)
  <2> SUFFICES ASSUME prOwed.head # 0 PROVE OwedConds(new, prOwed.head)
    OBVIOUS
  <2>1. CASE y.type = "review"
    <3>1. Alone(new, i) /\ i \in Reviews(new) /\ y.run = "working"
      BY <1>4, <1>6, <1>7, <2>1 DEF Alone, Reviews, SameCause
    <3>2. SlashAnswers(new, i) /\ Answers(new[i], prOwed.head)
      BY <1>4, <1>7, <3>1 DEF SlashAnswers, Answers
    <3> QED BY <1>7, <3>1, <3>2, AloneOwed
  <2>2. CASE y.type # "review"
    <3>1. SameReviews(prRows, new)
      BY <1>4, <1>7, <2>2 DEF SameReviews, Reviews, SameCause
    <3> QED BY <1>2, <3>1, ReviewsCarry
  <2> QED BY <2>1, <2>2
<1>9. Live(prRows[i])
  BY <1>1 DEF Live
<1>10. y.type = "review" => y.run = "working"
  BY <1>4 DEF SameCause
<1>11. prOwed' \in [head : Nat, done : Nat] /\ prOwed.done <= prOwed'.done
  BY <1>1, <1>2
<1> QED BY <1>1, <1>2, <1>4, <1>5, <1>7, <1>8, <1>9, <1>10, <1>11, MovedKeeps

\* What a running review is.
LEMMA WorkingFacts ==
  ASSUME IntakeInv, NEW i \in DOMAIN prRows, Working(i)
  PROVE  /\ i \in Reviews(prRows) /\ prRows[i].type = "review" /\ prRows[i].st = "running"
         /\ Live(prRows[i]) /\ Alone(prRows, i) /\ prRows[i].run # "none" /\ ~PrClosed
<1>1. /\ i \in Reviews(prRows) /\ prRows[i].st = "running" /\ prRows[i].type = "review"
      /\ Live(prRows[i])
  BY DEF Working, Reviews, Live
<1>2. RowsSound(prRows) /\ RowSound(prRows, i) /\ (PrClosed => Quiet(prRows))
  BY RunFacts
<1> QED BY <1>1, <1>2 DEF Alone, RowsSound, RowSound, Quiet

\* A restarted review begins again with the marker as it is now.
LEMMA RestartKeeps ==
  ASSUME IntakeInv, NEW i \in DOMAIN prRows, RestartRow(i)
  PROVE  IntakeInv'
<1> DEFINE y == [prRows[i] EXCEPT !.seen = prRows[i].marks, !.run = "working"]
<1>1. Working(i) /\ KeepRest /\ prOwed' = prOwed
  BY DEF RestartRow
<1>2. /\ prRows \in Seq(PrRow) /\ RowsSound(prRows) /\ prRows[i] \in PrRow
      /\ prOwed \in [head : Nat, done : Nat] /\ prOwed.done \in Nat
      /\ prRows[i].marks \in PrMarks
  BY RunFacts, RowFields
<1>3. /\ i \in Reviews(prRows) /\ prRows[i].type = "review" /\ prRows[i].st = "running"
      /\ Live(prRows[i]) /\ Alone(prRows, i)
  BY <1>1, WorkingFacts
<1>4. prRows' = [prRows EXCEPT ![i] = y]
  BY <1>2 DEF RestartRow
<1>5. /\ y \in PrRow /\ SameCause(prRows[i], y) /\ y.marks = prRows[i].marks
      /\ y.seen = prRows[i].marks /\ y.st = "running" /\ y.run = "working"
  BY <1>2, <1>3 DEF PrRow, SameCause
<1> HIDE DEF y
<1>6. PICK new : new = prRows'
  OBVIOUS
<1>7. /\ new \in Seq(PrRow) /\ RowsSound(new) /\ DOMAIN new = DOMAIN prRows
      /\ Reviews(new) = Reviews(prRows) /\ new[i] = y
      /\ \A j \in DOMAIN prRows : j # i => new[j] = prRows[j]
  <2>1. /\ y.run = "none" <=> y.st # "running"
        /\ y.run = "working" => y.seen.replacement = y.marks.replacement
        /\ y.run # "published" /\ y.st = prRows[i].st
    BY <1>3, <1>5
  <2>2. y.seen \in {prRows[i].seen, prRows[i].marks} /\ new = Put(prRows, i, y)
    BY <1>4, <1>5, <1>6 DEF Put
  <2>3. Moves(prRows, i, y)
    BY <1>5, <2>1, <2>2 DEF Moves
  <2> QED BY <1>2, <2>2, <2>3, ChangedRows
<1>8. OwedConds(new, prOwed.head)
  <2>1. Alone(new, i) /\ i \in Reviews(new)
    BY <1>3, <1>7 DEF Alone, Reviews
  <2>2. SlashAnswers(new, i) /\ Answers(new[i], prOwed.head)
    BY <1>5, <1>7 DEF SlashAnswers, Answers
  <2> QED BY <1>7, <2>1, <2>2, AloneOwed
<1>9. prOwed' \in [head : Nat, done : Nat] /\ prOwed.done <= prOwed'.done
  BY <1>1, <1>2
<1>10. y.run # "published" /\ y.run # "checked"
  BY <1>5
<1> QED BY <1>1, <1>3, <1>5, <1>6, <1>7, <1>8, <1>9, <1>10, MovedKeeps

\* The review that is published covers every push GitHub has seen.
LEMMA PublishKeeps ==
  ASSUME IntakeInv, NEW i \in DOMAIN prRows, PublishReview(i)
  PROVE  IntakeInv'
<1> DEFINE y == [prRows[i] EXCEPT !.run = "published"]
<1>1. /\ Working(i) /\ KeepRest /\ prRows[i].run = "working" /\ ~ResumesReplacement(i)
      /\ prRows[i].head = prGithub.head
      /\ prOwed' = [head |-> IF prRows[i].head >= prOwed.head THEN 0 ELSE prOwed.head,
                    done |-> IF prRows[i].head > prOwed.done THEN prRows[i].head ELSE prOwed.done]
  BY DEF PublishReview
<1>2. /\ prRows \in Seq(PrRow) /\ RowsSound(prRows) /\ prRows[i] \in PrRow /\ RowSound(prRows, i)
      /\ prOwed.head \in Nat /\ prOwed.done \in Nat /\ prRows[i].head \in Nat
      /\ prOwed.head # 0 => prOwed.head <= prGithub.head
  BY RunFacts
<1>3. /\ i \in Reviews(prRows) /\ prRows[i].type = "review" /\ prRows[i].st = "running"
      /\ Live(prRows[i])
  BY <1>1, WorkingFacts
<1>4. prRows' = [prRows EXCEPT ![i] = y]
  BY <1>2 DEF PublishReview
<1>5. /\ y \in PrRow /\ SameCause(prRows[i], y) /\ y.marks = prRows[i].marks
      /\ y.seen = prRows[i].seen /\ y.st = "running" /\ y.run = "published"
      /\ y.head = prRows[i].head
  BY <1>2, <1>3 DEF PrRow, SameCause
<1> HIDE DEF y
<1>6. PICK new : new = prRows'
  OBVIOUS
<1>7. /\ new \in Seq(PrRow) /\ RowsSound(new) /\ DOMAIN new = DOMAIN prRows
      /\ Reviews(new) = Reviews(prRows) /\ new[i] = y
      /\ \A j \in DOMAIN prRows : j # i => new[j] = prRows[j]
  <2>1. y.marks.replacement = 0 /\ y.seen.replacement = 0
    BY <1>1, <1>2, <1>5 DEF ResumesReplacement, RowSound
  <2>2. /\ y.run = "none" <=> y.st # "running"
        /\ y.run # "working" /\ y.st = prRows[i].st
    BY <1>3, <1>5
  <2>3. y.seen \in {prRows[i].seen, prRows[i].marks} /\ new = Put(prRows, i, y)
    BY <1>4, <1>5, <1>6 DEF Put
  <2>4. Moves(prRows, i, y)
    BY <1>5, <2>1, <2>2, <2>3 DEF Moves
  <2> QED BY <1>2, <2>3, <2>4, ChangedRows
<1>8. /\ prOwed' \in [head : Nat, done : Nat] /\ prOwed.done <= prOwed'.done
      /\ prOwed'.head = 0 /\ prRows[i].head <= prOwed'.done
  BY <1>1, <1>2
<1>9. y.run # "checked" /\ y.head <= prOwed'.done
  BY <1>5, <1>8
<1> QED BY <1>1, <1>3, <1>5, <1>6, <1>7, <1>8, <1>9, MovedKeeps

\* A row that ends: its replacement, if it has one, is queued.
LEMMA CompleteKeeps ==
  ASSUME IntakeInv, NEW i \in DOMAIN prRows, CompleteRow(i)
  PROVE  IntakeInv'
<1> DEFINE y == [prRows[i] EXCEPT !.st = "completed", !.run = "none"]
<1>1. prRows[i].st = "running" /\ prRows[i].run = "checked" /\ KeepRest /\ prOwed' = prOwed
  BY DEF CompleteRow
<1>2. /\ prRows \in Seq(PrRow) /\ RowsSound(prRows) /\ prRows[i] \in PrRow /\ RowSound(prRows, i)
      /\ prOwed \in [head : Nat, done : Nat] /\ prOwed.done \in Nat /\ prOwed.head \in Nat
      /\ prRows[i].head \in Nat /\ Covered(prRows, prOwed.done)
      /\ prOwed.head # 0 => prOwed.done < prOwed.head /\ OwedConds(prRows, prOwed.head)
  BY RunFacts
<1>3. prRows' = [prRows EXCEPT ![i] = y]
  BY <1>2 DEF CompleteRow
<1>4. /\ y \in PrRow /\ SameCause(prRows[i], y) /\ y.marks = prRows[i].marks
      /\ y.seen = prRows[i].seen /\ y.st = "completed" /\ y.run = "none"
  BY <1>2 DEF PrRow, SameCause
<1> HIDE DEF y
<1>5. PICK new : new = prRows'
  OBVIOUS
<1>6. y.type = "review" => Alone(prRows, i) /\ i \in Reviews(prRows)
  BY <1>1, <1>2, <1>4 DEF Alone, Reviews, RowsSound, SameCause
<1>7. /\ new \in Seq(PrRow) /\ RowsSound(new) /\ DOMAIN new = DOMAIN prRows
      /\ Reviews(new) = Reviews(prRows) /\ new[i] = y
      /\ \A j \in DOMAIN prRows : j # i => new[j] = prRows[j]
  <2>1. /\ y.run = "none" <=> y.st # "running"
        /\ y.run # "published" /\ y.run # "working"
        /\ y.st # "queued" /\ (y.type = "review" => Alone(prRows, i))
             /\ (y.marks.replacement # 0 => y.st # "running")
    BY <1>4, <1>6
  <2>2. y.seen \in {prRows[i].seen, prRows[i].marks} /\ new = Put(prRows, i, y)
    BY <1>3, <1>4, <1>5 DEF Put
  <2>3. Moves(prRows, i, y)
    BY <1>4, <2>1, <2>2 DEF Moves
  <2> QED BY <1>2, <2>2, <2>3, ChangedRows
<1>8. prOwed.head # 0 => OwedConds(new, prOwed.head)
  <2> SUFFICES ASSUME prOwed.head # 0 PROVE OwedConds(new, prOwed.head)
    OBVIOUS
  <2>1. CASE y.type = "review"
    <3>1. Alone(new, i) /\ SlashAnswers(new, i)
      <4>1. Alone(new, i)
        BY <1>6, <1>7, <2>1 DEF Alone, Reviews
      <4>2. new[i].run = "none"
        BY <1>4, <1>7
      <4> QED BY <4>1, <4>2 DEF SlashAnswers
    <3>2. PICK k \in Reviews(prRows) : Answers(prRows[k], prOwed.head)
      BY <1>2 DEF OwedConds
    <3>3. CASE k # i
      <4>1. k \in Reviews(new) /\ Answers(new[k], prOwed.head)
        BY <1>7, <3>2, <3>3 DEF Reviews
      <4> QED BY <1>7, <3>1, <4>1, AloneOwed
    <3>4. CASE k = i
      <4> DEFINE next == prRows[i].marks.replacement
      <4>1. prRows[i].head >= prOwed.head
        BY <1>1, <3>2, <3>4 DEF Answers
      <4>2. next # 0
        BY <1>1, <1>2, <1>6, <2>1, <4>1 DEF Covered
      <4>3. next \in Reviews(prRows) /\ prRows[next].st = "queued" /\ next # i
        BY <1>1, <1>2, <4>2 DEF RowSound
      <4>4. next \in Reviews(new) /\ Answers(new[next], prOwed.head)
        BY <1>7, <4>3 DEF Reviews, Answers
      <4> QED BY <1>7, <3>1, <4>4, AloneOwed
    <3> QED BY <3>3, <3>4
  <2>2. CASE y.type # "review"
    <3>1. SameReviews(prRows, new)
      BY <1>4, <1>7, <2>2 DEF SameReviews, Reviews, SameCause
    <3> QED BY <1>2, <3>1, ReviewsCarry
  <2> QED BY <2>1, <2>2
<1>9. ~Live(y) /\ y.run # "published" /\ y.run # "checked"
  BY <1>4 DEF Live
<1>10. prOwed' \in [head : Nat, done : Nat] /\ prOwed.done <= prOwed'.done
  BY <1>1, <1>2
<1> QED BY <1>1, <1>2, <1>4, <1>5, <1>7, <1>8, <1>9, <1>10, MovedKeeps

\* A replacement that goes stale again fails, and what it stood for is forgiven.
LEMMA ExhaustKeeps ==
  ASSUME IntakeInv, NEW i \in DOMAIN prRows, ExhaustReplacement(i)
  PROVE  IntakeInv'
<1> DEFINE y == [prRows[i] EXCEPT !.st = "failed", !.run = "none"]
<1>1. Working(i) /\ KeepRest /\ Forgive
  BY DEF ExhaustReplacement
<1>2. /\ prRows \in Seq(PrRow) /\ RowsSound(prRows) /\ prRows[i] \in PrRow
      /\ prOwed \in [head : Nat, done : Nat] /\ prOwed.done \in Nat
  BY RunFacts
<1>3. prRows[i].type = "review" /\ Alone(prRows, i)
  BY <1>1, WorkingFacts
<1>4. prRows' = [prRows EXCEPT ![i] = y]
  BY <1>2 DEF ExhaustReplacement
<1>5. /\ y \in PrRow /\ SameCause(prRows[i], y) /\ y.marks = prRows[i].marks
      /\ y.seen = prRows[i].seen /\ y.st = "failed" /\ y.run = "none"
  BY <1>2 DEF PrRow, SameCause
<1> HIDE DEF y
<1>6. PICK new : new = prRows'
  OBVIOUS
<1>7. /\ new \in Seq(PrRow) /\ RowsSound(new) /\ DOMAIN new = DOMAIN prRows
      /\ Reviews(new) = Reviews(prRows) /\ new[i] = y
      /\ \A j \in DOMAIN prRows : j # i => new[j] = prRows[j]
  <2>1. /\ y.run = "none" <=> y.st # "running"
        /\ y.run # "published" /\ y.run # "working"
        /\ y.st # "queued" /\ (y.type = "review" => Alone(prRows, i))
             /\ (y.marks.replacement # 0 => y.st # "running")
    BY <1>3, <1>5
  <2>2. y.seen \in {prRows[i].seen, prRows[i].marks} /\ new = Put(prRows, i, y)
    BY <1>4, <1>5, <1>6 DEF Put
  <2>3. Moves(prRows, i, y)
    BY <1>5, <2>1, <2>2 DEF Moves
  <2> QED BY <1>2, <2>2, <2>3, ChangedRows
<1>8. ~Live(y) /\ y.run # "published" /\ y.run # "checked"
  BY <1>5 DEF Live
<1>9. /\ prOwed' \in [head : Nat, done : Nat] /\ prOwed.done <= prOwed'.done
      /\ prOwed'.head = 0
  BY <1>1, <1>2 DEF Forgive
<1> QED BY <1>1, <1>5, <1>6, <1>7, <1>8, <1>9, MovedKeeps

\* What a successor that was just queued leaves as it was.
LEMMA ChildKeeps ==
  ASSUME NEW rows \in Seq(PrRow), NEW i \in Reviews(rows), NEW y, NEW child,
         Succeeds(rows, i, y, child), NEW new, Added(rows, new, i, y, child)
  PROVE  /\ \A known : (\A j \in DOMAIN rows : rows[j].event \in known)
                          => \A j \in DOMAIN new : new[j].event \in known
         /\ \A state : Held(rows, state) => Held(new, state)
         /\ \A done : Covered(rows, done) /\ (y.head <= done \/ y.marks.replacement # 0)
                         => Covered(new, done)
<1> DEFINE c == Len(rows) + 1
<1>0. /\ new[c] = child /\ new[i] = y
      /\ \A j \in DOMAIN rows : j \in DOMAIN new /\ (j # i => new[j] = rows[j])
      /\ \A j \in DOMAIN new : j \notin DOMAIN rows => j = c
      /\ Reviews(new) = Reviews(rows) \cup {c}
      /\ SameCause(rows[i], y) /\ y.run = "checked"
      /\ child.event = rows[i].event /\ child.run = "none"
  BY DEF Added, Succeeds
<1>1. /\ i \in DOMAIN rows /\ \A j \in DOMAIN rows : j \in Nat /\ j < c
      /\ c \in Nat /\ \A j \in Reviews(rows) : j \in DOMAIN rows
  BY RowsTyped DEF Reviews
<1>2. \A j \in DOMAIN rows : new[j].src = rows[j].src /\ new[j].event = rows[j].event
  BY <1>0, <1>1 DEF SameCause
<1>3. \A known : (\A j \in DOMAIN rows : rows[j].event \in known)
                   => \A j \in DOMAIN new : new[j].event \in known
  BY <1>0, <1>1, <1>2
<1>4. \A state : Held(rows, state) => Held(new, state)
  <2>1. ASSUME \A j \in Reviews(rows) : \E k \in Reviews(rows) : k <= j /\ rows[k].src = "slash",
               NEW j \in Reviews(new)
        PROVE  \E k \in Reviews(new) : k <= j /\ new[k].src = "slash"
    <3>1. CASE j \in Reviews(rows)
      <4>1. PICK k \in Reviews(rows) : k <= j /\ rows[k].src = "slash"
        BY <1>0, <2>1, <3>1
      <4> QED BY <1>0, <1>1, <1>2, <4>1
    <3>2. CASE j = c
      <4>1. PICK k \in Reviews(rows) : k <= i /\ rows[k].src = "slash"
        BY <1>0, <2>1
      <4>2. k <= c
        BY <1>0, <1>1, <4>1
      <4> QED BY <1>0, <1>1, <1>2, <3>2, <4>1, <4>2
    <3> QED BY <1>0, <3>1, <3>2
  <2>2. Reviews(rows) # {}
    OBVIOUS
  <2> QED BY <1>0, <2>1, <2>2 DEF Held
<1>5. ASSUME NEW done, Covered(rows, done), y.head <= done \/ y.marks.replacement # 0
      PROVE  Covered(new, done)
  <2> SUFFICES ASSUME NEW j \in Reviews(new)
               PROVE  /\ new[j].run = "published" => new[j].head <= done
                      /\ new[j].run = "checked" => new[j].head <= done \/ new[j].marks.replacement # 0
    BY DEF Covered
  <2>1. CASE j = c
    BY <1>0, <2>1
  <2>2. CASE j = i
    BY <1>0, <1>5, <2>2
  <2>3. CASE j # i /\ j \in Reviews(rows)
    BY <1>0, <1>1, <1>5, <2>3 DEF Covered
  <2> QED BY <1>0, <2>1, <2>2, <2>3
<1> QED BY <1>3, <1>4, <1>5

\* A review found stale leaves its pushes to the replacement it queues.
LEMMA StaleKeeps ==
  ASSUME IntakeInv, NEW i \in DOMAIN prRows, StaleHead(i)
  PROVE  IntakeInv'
<1> DEFINE id == ReplacementId(i)
           next == prRows[i].marks.replacement
           y == [prRows[i] EXCEPT !.marks = [prRows[i].marks EXCEPT !.replacement = id],
                                  !.run = "checked"]
           child == [NewRow("review", prRows[i].src, DEFERRED_HEAD_SHA, prRows[i].event)
                       EXCEPT !.parent = i, !.staleHeadRescheduled = TRUE,
                              !.marks = [prRows[i].seen EXCEPT !.replacement = 0]]
           parent == [prRows EXCEPT ![i].marks.replacement = id, ![i].run = "checked"]
<1>1. /\ Working(i) /\ KeepRest /\ prOwed' = prOwed /\ prRows[i].run = "working"
      /\ ~prRows[i].staleHeadRescheduled
      /\ prRows' = IF id > Len(prRows) THEN Append(parent, child) ELSE parent
  BY DEF StaleHead, createReviewRescheduleWorkItem
<1>2. /\ prRows \in Seq(PrRow) /\ RowsSound(prRows) /\ prRows[i] \in PrRow /\ RowSound(prRows, i)
      /\ prOwed \in [head : Nat, done : Nat] /\ prOwed.done \in Nat /\ prOwed.head \in Nat
      /\ Held(prRows, prApproval.state) /\ Covered(prRows, prOwed.done)
      /\ \A j \in DOMAIN prRows : prRows[j].event \in prEvents.bodies
      /\ prOwed.head # 0 => /\ prFeatures.cadence = "every_push"
                            /\ prOwed.done < prOwed.head /\ prOwed.head <= prGithub.head
      /\ prRows[i].marks \in PrMarks /\ prRows[i].seen \in PrMarks /\ next \in Nat
      /\ prRows[i].event \in Nat /\ prRows[i].src \in {"auto", "slash"}
      /\ Len(prRows) \in Nat /\ DOMAIN prRows = 1 .. Len(prRows) /\ i \in Nat
  BY RunFacts, RowFields, RowsTyped
<1>3. /\ i \in Reviews(prRows) /\ prRows[i].type = "review" /\ prRows[i].st = "running"
      /\ Live(prRows[i]) /\ Alone(prRows, i) /\ ~PrClosed
  BY <1>1, WorkingFacts
<1>4. parent = Put(prRows, i, y)
  BY <1>2 DEF Put, PrRow, PrMarks
<1>5. PICK new : new = prRows'
  OBVIOUS
<1>6. CASE next # 0
  <2>1. id = next /\ next \in Reviews(prRows) /\ next \in DOMAIN prRows
        /\ prRows[next].st = "queued"
    BY <1>2, <1>3, <1>6 DEF ReplacementId, RowSound, Reviews
  <2>2. new = Put(prRows, i, y)
    BY <1>1, <1>2, <1>4, <1>5, <2>1
  <2>3. /\ y \in PrRow /\ SameCause(prRows[i], y) /\ y.marks = prRows[i].marks
        /\ y.seen = prRows[i].seen /\ y.st = "running" /\ y.run = "checked"
    <3>1. [prRows[i].marks EXCEPT !.replacement = id] = prRows[i].marks
      BY <1>2, <2>1 DEF PrMarks
    <3> QED BY <1>2, <1>3, <3>1 DEF PrRow, SameCause
  <2> HIDE DEF y, id, child, parent
  <2>4. Moves(prRows, i, y)
    BY <1>3, <2>3 DEF Moves
  <2>5. /\ new \in Seq(PrRow) /\ RowsSound(new) /\ DOMAIN new = DOMAIN prRows
        /\ Reviews(new) = Reviews(prRows) /\ new[i] = y
        /\ \A j \in DOMAIN prRows : j # i => new[j] = prRows[j]
    <3>1. prRows \in Seq(PrRow) /\ RowsSound(prRows)
      BY <1>2
    <3> QED BY <2>2, <2>4, <3>1, ChangedRows
  <2>6. OwedConds(new, prOwed.head)
    <3>1. Alone(new, i)
      BY <1>3, <2>5 DEF Alone, Reviews
    <3>2. next # i /\ new[next].st = "queued" /\ next \in Reviews(new)
      BY <1>3, <2>1, <2>5
    <3>3. SlashAnswers(new, i)
      BY <1>6, <2>3, <2>5, <3>2 DEF SlashAnswers, HasQueued
    <3>4. Answers(new[next], prOwed.head)
      BY <3>2 DEF Answers
    <3> QED BY <2>5, <3>1, <3>2, <3>3, <3>4, AloneOwed
  <2>7. prOwed' \in [head : Nat, done : Nat] /\ prOwed.done <= prOwed'.done
    BY <1>1, <1>2
  <2>8. y.run # "published" /\ y.marks.replacement # 0
    BY <1>6, <2>3
  <2> QED BY <1>1, <1>3, <1>5, <2>3, <2>5, <2>6, <2>7, <2>8, MovedKeeps
<1>7. CASE next = 0
  <2>1. id = Len(prRows) + 1 /\ id > Len(prRows) /\ id \in Nat /\ id # 0
    BY <1>2, <1>7 DEF ReplacementId
  <2> HIDE DEF id
  <2>2. new = WithChild(prRows, i, y, child)
    BY <1>1, <1>4, <1>5, <2>1 DEF WithChild
  <2>3. /\ y \in PrRow /\ SameCause(prRows[i], y) /\ y.seen = prRows[i].seen
        /\ y.st = "running" /\ y.run = "checked"
        /\ y.marks = [prRows[i].marks EXCEPT !.replacement = id]
        /\ y.marks.replacement # 0
    <3>1. [prRows[i].marks EXCEPT !.replacement = id] \in PrMarks
      BY <1>2, <2>1 DEF PrMarks
    <3>2. [prRows[i].marks EXCEPT !.replacement = id].replacement = id
      BY <1>2, <2>1 DEF PrMarks
    <3> QED BY <1>2, <1>3, <2>1, <3>1, <3>2 DEF PrRow, SameCause
  <2>4. /\ child \in PrRow /\ child.type = "review" /\ child.event = prRows[i].event
        /\ child.parent = i /\ child.st = "queued" /\ child.run = "none" /\ child.seen = NoMarks
        /\ child.marks = [prRows[i].seen EXCEPT !.replacement = 0]
        /\ child.staleHeadRescheduled /\ child.src = prRows[i].src
    <3>1. [prRows[i].seen EXCEPT !.replacement = 0] \in PrMarks /\ NoMarks \in PrMarks
      BY <1>2 DEF PrMarks, NoMarks
    <3> QED BY <1>2, <3>1 DEF NewRow, PrRow, DEFERRED_HEAD_SHA
  <2>5. /\ child.marks.replacement = 0 /\ child.marks.kid = prRows[i].seen.kid
        /\ child.marks.stamped = prRows[i].seen.stamped
    BY <1>2, <2>4 DEF PrMarks
  <2> HIDE DEF y, id, child, parent
  <2>6. MarksSound(prRows, child.marks) /\ (child.marks.kid # 0 => child.src = "slash")
    BY <1>2, <2>4, <2>5 DEF RowSound, MarksSound
  <2>7. /\ new \in Seq(PrRow) /\ RowsSound(new)
        /\ Added(prRows, new, i, y, child) /\ Succeeds(prRows, i, y, child)
    <3>1. prRows \in Seq(PrRow) /\ RowsSound(prRows)
      BY <1>2
    <3>2. Succeeds(prRows, i, y, child)
      BY <1>1, <1>3, <1>7, <2>1, <2>3, <2>4, <2>5, <2>6 DEF Succeeds
    <3> QED BY <1>3, <2>2, <3>1, <3>2, ChildRows
  <2>10. /\ new[Len(prRows) + 1] = child /\ new[i] = y
         /\ \A j \in DOMAIN prRows : j # i => new[j] = prRows[j]
         /\ Reviews(new) = Reviews(prRows) \cup {Len(prRows) + 1}
    BY <2>7 DEF Added
  <2>8. OwedConds(new, prOwed.head)
    <3>1. Alone(new, i)
      BY <1>3, <2>4, <2>10 DEF Alone, Reviews
    <3>2. SlashAnswers(new, i)
      BY <2>3, <2>4, <2>10 DEF SlashAnswers, HasQueued
    <3>3. Answers(new[Len(prRows) + 1], prOwed.head)
      BY <2>4, <2>10 DEF Answers
    <3> QED BY <2>7, <2>10, <3>1, <3>2, <3>3, AloneOwed
  <2>9. /\ \A j \in DOMAIN new : new[j].event \in prEvents.bodies
        /\ Held(new, prApproval.state)
        /\ Covered(new, prOwed.done)
    <3>2. y.head <= prOwed.done \/ y.marks.replacement # 0
      BY <2>3
    <3>4. /\ \A known : (\A j \in DOMAIN prRows : prRows[j].event \in known)
                            => \A j \in DOMAIN new : new[j].event \in known
          /\ \A state : Held(prRows, state) => Held(new, state)
          /\ \A done : Covered(prRows, done) /\ (y.head <= done \/ y.marks.replacement # 0)
                           => Covered(new, done)
      <4>1. prRows \in Seq(PrRow)
        BY <1>2
      <4> QED BY <1>3, <2>7, <4>1, ChildKeeps
    <3> QED BY <1>2, <3>2, <3>4
  <2> QED BY <1>1, <1>2, <1>3, <1>5, <2>7, <2>8, <2>9, RunKeeps
<1> QED BY <1>6, <1>7

\* After a publication: a marker that is read makes a follow-up, and one that is not was not needed.
LEMMA FollowUpKeeps ==
  ASSUME IntakeInv, NEW i \in DOMAIN prRows, schedulePushFollowUp(i)
  PROVE  IntakeInv'
<1>1. /\ Working(i) /\ KeepRest /\ prOwed' = prOwed /\ prRows[i].run = "published"
      /\ prRows' = IF FollowUpDue(i) THEN createPushFollowUpWorkItem(i)
                   ELSE [prRows EXCEPT ![i].run = "checked"]
  BY DEF schedulePushFollowUp
<1>2. /\ prRows \in Seq(PrRow) /\ RowsSound(prRows) /\ prRows[i] \in PrRow /\ RowSound(prRows, i)
      /\ prOwed \in [head : Nat, done : Nat] /\ prOwed.done \in Nat /\ prOwed.head \in Nat
      /\ Held(prRows, prApproval.state) /\ Covered(prRows, prOwed.done)
      /\ \A j \in DOMAIN prRows : prRows[j].event \in prEvents.bodies
      /\ prOwed.head # 0 => /\ prFeatures.cadence = "every_push"
                            /\ prOwed.done < prOwed.head /\ prOwed.head <= prGithub.head
                            /\ OwedConds(prRows, prOwed.head)
      /\ prGithub.head \in Nat /\ prRows[i].head \in Nat
  BY RunFacts
<1>3. /\ i \in Reviews(prRows) /\ prRows[i].type = "review" /\ prRows[i].st = "running"
      /\ Live(prRows[i]) /\ Alone(prRows, i) /\ ~PrClosed
  BY <1>1, WorkingFacts
<1>4. /\ prRows[i].marks.replacement = 0 /\ prRows[i].seen.replacement = 0
      /\ prRows[i].head <= prOwed.done
      /\ MarksSound(prRows, prRows[i].marks)
      /\ prRows[i].marks.kid # 0 => prRows[i].src = "slash"
  BY <1>1, <1>2, <1>3 DEF RowSound, Covered
<1>5. /\ prRows[i].marks \in PrMarks /\ prRows[i].event \in Nat
      /\ prRows[i].src \in {"auto", "slash"} /\ prRows[i].marks.kid \in Nat
      /\ Len(prRows) \in Nat /\ DOMAIN prRows = 1 .. Len(prRows) /\ i \in Nat
  BY <1>2, RowFields, RowsTyped
<1>6. prOwed' \in [head : Nat, done : Nat] /\ prOwed.done <= prOwed'.done
  BY <1>1, <1>2
<1>7. PICK new : new = prRows'
  OBVIOUS
<1>8. prOwed.head # 0 /\ prRows[i].src = "slash" => FollowUpDue(i)
  <2> SUFFICES ASSUME prOwed.head # 0, prRows[i].src = "slash" PROVE FollowUpDue(i)
    OBVIOUS
  <2>1. prRows[i].marks.stamped
    BY <1>1, <1>2, <1>3 DEF OwedConds, SlashAnswers
  <2>2. prRows[i].head # prGithub.head
    BY <1>2, <1>4
  <2> QED BY <1>2, <1>3, <1>4, <2>1, <2>2 DEF FollowUpDue
<1>9. CASE ~FollowUpDue(i)
  <2> DEFINE y == [prRows[i] EXCEPT !.run = "checked"]
  <2>1. new = Put(prRows, i, y)
    BY <1>1, <1>2, <1>7, <1>9 DEF Put
  <2>2. /\ y \in PrRow /\ SameCause(prRows[i], y) /\ y.marks = prRows[i].marks
        /\ y.seen = prRows[i].seen /\ y.st = "running" /\ y.run = "checked"
        /\ y.head = prRows[i].head
    BY <1>2, <1>3 DEF PrRow, SameCause
  <2> HIDE DEF y
  <2>3. Moves(prRows, i, y)
    BY <1>3, <2>2 DEF Moves
  <2>4. /\ new \in Seq(PrRow) /\ RowsSound(new) /\ DOMAIN new = DOMAIN prRows
        /\ Reviews(new) = Reviews(prRows) /\ new[i] = y
        /\ \A j \in DOMAIN prRows : j # i => new[j] = prRows[j]
    <3>1. prRows \in Seq(PrRow) /\ RowsSound(prRows)
      BY <1>2
    <3> QED BY <2>1, <2>3, <3>1, ChangedRows
  <2>5. prOwed.head # 0 => OwedConds(new, prOwed.head)
    <3> SUFFICES ASSUME prOwed.head # 0 PROVE OwedConds(new, prOwed.head)
      OBVIOUS
    <3>1. Alone(new, i)
      BY <1>3, <2>4 DEF Alone, Reviews
    <3>2. prRows[i].src # "slash"
      BY <1>8, <1>9
    <3>3. new[i].src # "slash"
      BY <2>2, <2>4, <3>2 DEF SameCause
    <3>4. PICK k \in Reviews(prRows) : Answers(prRows[k], prOwed.head)
      BY <1>2 DEF OwedConds
    <3>5. k # i
      BY <1>1, <1>2, <1>3, <1>4, <3>2, <3>4 DEF Answers
    <3>6. k \in Reviews(new) /\ Answers(new[k], prOwed.head)
      BY <2>4, <3>4, <3>5 DEF Reviews
    <3> QED BY <2>4, <3>1, <3>3, <3>6, AloneOwed
  <2>6. y.run # "published" /\ y.head <= prOwed'.done
    BY <1>1, <1>4, <2>2
  <2>7. prOwed'.head # 0 => prOwed' = prOwed /\ OwedConds(new, prOwed'.head)
    BY <1>1, <2>5
  <2> QED BY <1>1, <1>3, <1>6, <1>7, <2>2, <2>4, <2>6, <2>7, MovedKeeps
<1>10. ASSUME FollowUpDue(i)
       PROVE  /\ prRows[i].src = "slash" /\ prRows[i].marks.stamped
              /\ prRows' = createPushFollowUpWorkItem(i)
  BY <1>1, <1>10 DEF FollowUpDue
<1> DEFINE kid == IF prRows[i].marks.kid # 0 THEN prRows[i].marks.kid ELSE Len(prRows) + 1
           y == [prRows[i] EXCEPT !.marks = [prRows[i].marks EXCEPT !.kid = kid], !.run = "checked"]
           parent == [prRows EXCEPT ![i].marks.kid = kid, ![i].run = "checked"]
           child == pushFollowUpChildPayload(i)
<1>11. parent = Put(prRows, i, y)
  BY <1>2, <1>5 DEF Put, PrRow, PrMarks
<1>12. FollowUpDue(i) => prRows' = IF kid > Len(prRows) THEN Append(parent, child)
                                   ELSE [parent EXCEPT ![kid].head = DEFERRED_HEAD_SHA, ![kid].src = "auto"]
  BY <1>10 DEF createPushFollowUpWorkItem
<1> HIDE DEF parent, child
<1>13. CASE FollowUpDue(i) /\ prRows[i].marks.kid # 0
  <2>1. /\ kid = prRows[i].marks.kid /\ kid \in DOMAIN prRows /\ kid \in Reviews(prRows)
        /\ prRows[kid].src = "auto" /\ kid # i /\ prRows[kid] \in PrRow /\ ~(kid > Len(prRows))
    BY <1>2, <1>4, <1>5, <1>10, <1>13, RowsTyped DEF MarksSound, Reviews
  <2>2. /\ y \in PrRow /\ SameCause(prRows[i], y) /\ y.marks = prRows[i].marks
        /\ y.seen = prRows[i].seen /\ y.st = "running" /\ y.run = "checked"
        /\ y.head = prRows[i].head
    <3>1. [prRows[i].marks EXCEPT !.kid = kid] = prRows[i].marks
      BY <1>5, <2>1 DEF PrMarks
    <3> QED BY <1>2, <1>3, <3>1 DEF PrRow, SameCause
  <2> HIDE DEF y, kid
  <2>3. PICK mid : mid = Put(prRows, i, y)
    OBVIOUS
  <2>4. Moves(prRows, i, y)
    BY <1>3, <2>2 DEF Moves
  <2>5. /\ mid \in Seq(PrRow) /\ RowsSound(mid) /\ DOMAIN mid = DOMAIN prRows
        /\ Reviews(mid) = Reviews(prRows) /\ mid[i] = y
        /\ \A j \in DOMAIN prRows : j # i => mid[j] = prRows[j]
    <3>1. prRows \in Seq(PrRow) /\ RowsSound(prRows)
      BY <1>2
    <3> QED BY <2>3, <2>4, <3>1, ChangedRows
  <2> DEFINE z == [prRows[kid] EXCEPT !.head = DEFERRED_HEAD_SHA, !.src = "auto"]
  <2>6. /\ z \in PrRow /\ SameCause(prRows[kid], z) /\ z.marks = prRows[kid].marks
        /\ z.seen = prRows[kid].seen /\ z.st = prRows[kid].st /\ z.run = prRows[kid].run
    BY <2>1 DEF PrRow, SameCause, DEFERRED_HEAD_SHA
  <2>7. new = Put(mid, kid, z)
    <3>1. new = [mid EXCEPT ![kid].head = DEFERRED_HEAD_SHA, ![kid].src = "auto"]
      BY <1>7, <1>11, <1>12, <1>13, <2>1, <2>3
    <3> QED BY <2>1, <2>5, <3>1 DEF Put, PrRow
  <2> HIDE DEF z
  <2>8. z.run = "none" /\ z.st # "running"
    BY <1>2, <1>3, <2>1, <2>6 DEF Alone, RowsSound, RowSound
  <2>9. Moves(mid, kid, z) /\ kid \in DOMAIN mid
    BY <2>1, <2>5, <2>6, <2>8 DEF Moves
  <2>10. /\ new \in Seq(PrRow) /\ RowsSound(new) /\ DOMAIN new = DOMAIN mid
         /\ Reviews(new) = Reviews(mid) /\ new[kid] = z
         /\ \A j \in DOMAIN mid : j # kid => new[j] = mid[j]
    BY <2>5, <2>7, <2>9, ChangedRows
  <2>11. /\ DOMAIN new = DOMAIN prRows /\ Reviews(new) = Reviews(prRows) /\ new[i] = y
         /\ \A j \in DOMAIN prRows : SameCause(prRows[j], new[j])
         /\ \A j \in DOMAIN prRows : j # i => new[j].run = prRows[j].run /\ new[j].st = prRows[j].st
         /\ \A j \in DOMAIN prRows : j # i /\ j # kid => new[j] = prRows[j]
    BY <2>1, <2>2, <2>5, <2>6, <2>10 DEF SameCause
  <2>12. Held(new, prApproval.state)
    <3>1. \A j \in Reviews(new) : new[j].src = prRows[j].src
      BY <2>11 DEF SameCause, Reviews
    <3> QED BY <1>2, <2>11, <3>1 DEF Held
  <2>13. Covered(new, prOwed.done)
    <3>1. ASSUME NEW j \in Reviews(new)
          PROVE  /\ new[j].run = "published" => new[j].head <= prOwed.done
                 /\ new[j].run = "checked" => new[j].head <= prOwed.done \/ new[j].marks.replacement # 0
      <4>1. CASE j = i
        BY <1>4, <2>2, <2>11, <4>1
      <4>2. CASE j # i
        <5>1. new[j].run = "none"
          BY <1>2, <1>3, <2>11, <4>2 DEF Alone, RowsSound, RowSound, Reviews
        <5> QED BY <5>1
      <4> QED BY <4>1, <4>2
    <3> QED BY <3>1 DEF Covered
  <2>14. prOwed.head # 0 => OwedConds(new, prOwed.head)
    <3> SUFFICES ASSUME prOwed.head # 0 PROVE OwedConds(new, prOwed.head)
      OBVIOUS
    <3>1. HasQueued(prRows)
      BY <1>1, <1>2, <1>3, <1>10, <1>13 DEF OwedConds, SlashAnswers
    <3>2. PICK q \in Reviews(prRows) : prRows[q].st = "queued"
      BY <3>1 DEF HasQueued
    <3>3. q \in Reviews(new) /\ new[q].st = "queued"
      BY <1>3, <2>11, <3>2 DEF Reviews
    <3>4. Alone(new, i)
      BY <1>3, <2>11 DEF Alone, Reviews
    <3>5. SlashAnswers(new, i)
      BY <1>13, <2>2, <2>11, <3>3 DEF SlashAnswers, HasQueued
    <3>6. Answers(new[q], prOwed.head)
      BY <3>3 DEF Answers
    <3> QED BY <2>10, <3>3, <3>4, <3>5, <3>6, AloneOwed
  <2>15. \A j \in DOMAIN new : new[j].event \in prEvents.bodies
    BY <1>2, <2>11 DEF SameCause
  <2>16. /\ prOwed'.done = prOwed.done /\ prOwed'.head = prOwed.head
    BY <1>1
  <2> QED BY <1>1, <1>2, <1>3, <1>6, <1>7, <2>10, <2>12, <2>13, <2>14, <2>15, <2>16, RunKeeps
<1>14. CASE FollowUpDue(i) /\ prRows[i].marks.kid = 0
  <2>1. kid = Len(prRows) + 1 /\ kid > Len(prRows) /\ kid \in Nat /\ kid # 0
    BY <1>5, <1>14
  <2> HIDE DEF kid
  <2>2. new = WithChild(prRows, i, y, child)
    BY <1>7, <1>11, <1>12, <1>14, <2>1 DEF WithChild
  <2>3. /\ y \in PrRow /\ SameCause(prRows[i], y) /\ y.seen = prRows[i].seen
        /\ y.st = "running" /\ y.run = "checked" /\ y.head = prRows[i].head
        /\ y.marks = [prRows[i].marks EXCEPT !.kid = kid] /\ y.marks.kid # 0
    <3>1. [prRows[i].marks EXCEPT !.kid = kid] \in PrMarks
      BY <1>5, <2>1 DEF PrMarks
    <3>2. [prRows[i].marks EXCEPT !.kid = kid].kid = kid
      BY <1>5, <2>1 DEF PrMarks
    <3> QED BY <1>2, <1>3, <2>1, <3>1, <3>2 DEF PrRow, SameCause
  <2>4. /\ child \in PrRow /\ child.type = "review" /\ child.event = prRows[i].event
        /\ child.parent = i /\ child.st = "queued" /\ child.run = "none" /\ child.seen = NoMarks
        /\ child.marks = NoMarks /\ ~child.staleHeadRescheduled /\ child.src = "auto"
    <3>1. NoMarks \in PrMarks
      BY DEF PrMarks, NoMarks
    <3> QED BY <1>5, <3>1 DEF child, pushFollowUpChildPayload, NewRow, PrRow, DEFERRED_HEAD_SHA
  <2>5. child.marks.replacement = 0 /\ child.marks.kid = 0 /\ MarksSound(prRows, child.marks)
    BY <2>4 DEF NoMarks, MarksSound
  <2> HIDE DEF y
  <2>6. /\ new \in Seq(PrRow) /\ RowsSound(new)
        /\ Added(prRows, new, i, y, child) /\ Succeeds(prRows, i, y, child)
    <3>1. prRows \in Seq(PrRow) /\ RowsSound(prRows)
      BY <1>2
    <3>2. prRows[i].src = "slash" /\ prRows[i].marks.stamped
      BY <1>10, <1>14
    <3>3. Succeeds(prRows, i, y, child)
      BY <1>3, <1>4, <1>14, <2>1, <2>3, <2>4, <2>5, <3>2 DEF Succeeds
    <3> QED BY <1>3, <2>2, <3>1, <3>3, ChildRows
  <2>7. /\ new[Len(prRows) + 1] = child /\ new[i] = y
        /\ \A j \in DOMAIN prRows : j # i => new[j] = prRows[j]
        /\ Reviews(new) = Reviews(prRows) \cup {Len(prRows) + 1}
    BY <2>6 DEF Added
  <2>8. OwedConds(new, prOwed.head)
    <3>1. Alone(new, i)
      BY <1>3, <2>4, <2>7 DEF Alone, Reviews
    <3>2. SlashAnswers(new, i)
      BY <2>3, <2>4, <2>7 DEF SlashAnswers, HasQueued
    <3>3. Answers(new[Len(prRows) + 1], prOwed.head)
      BY <2>4, <2>7 DEF Answers
    <3> QED BY <2>6, <2>7, <3>1, <3>2, <3>3, AloneOwed
  <2>9. /\ \A j \in DOMAIN new : new[j].event \in prEvents.bodies
        /\ Held(new, prApproval.state)
        /\ Covered(new, prOwed.done)
    <3>1. y.head <= prOwed.done
      BY <1>4, <2>3
    <3>2. /\ \A known : (\A j \in DOMAIN prRows : prRows[j].event \in known)
                            => \A j \in DOMAIN new : new[j].event \in known
          /\ \A state : Held(prRows, state) => Held(new, state)
          /\ \A done : Covered(prRows, done) /\ (y.head <= done \/ y.marks.replacement # 0)
                           => Covered(new, done)
      <4>1. prRows \in Seq(PrRow)
        BY <1>2
      <4> QED BY <1>3, <2>6, <4>1, ChildKeeps
    <3> QED BY <1>2, <3>1, <3>2
  <2>10. /\ prOwed'.done = prOwed.done /\ prOwed'.head = prOwed.head
    BY <1>1
  <2> QED BY <1>1, <1>2, <1>3, <1>6, <1>7, <2>6, <2>8, <2>9, <2>10, RunKeeps
<1> QED BY <1>9, <1>13, <1>14

-----------------------------------------------------------------------------
(* The theorem *)

\* The pull request was opened and nothing was delivered.
LEMMA IntakeStarts ==
  ASSUME IntakeAssumption, IntakeInit
  PROVE  IntakeInv
<1> PICK trust \in AuthorTrusts :
      /\ prFeatures \in FeatureSets
      /\ prGithub = [head |-> 1, state |-> "open", at |-> 1]
      /\ prMail = {[n |-> 1, kind |-> "opened", head |-> 1, state |-> "open", at |-> 1, trust |-> trust]}
      /\ prEvents = [ids |-> {}, bodies |-> {}]
      /\ prLife = NoLife /\ prApproval = NoApproval
      /\ prRows = <<>> /\ prOwed = [head |-> 0, done |-> 0] /\ prRestarts = 0
  BY DEF IntakeInit
<1> DEFINE first == [n |-> 1, kind |-> "opened", head |-> 1, state |-> "open", at |-> 1, trust |-> trust]
<1>1. trust \in {"trusted", "awaiting_maintainer_approval", "awaiting_approval"}
  BY DEF IntakeAssumption
<1>2. IsFiniteSet({first}) /\ Cardinality({first}) = 1
  BY FS_Singleton
<1>3. first \in PrJob
  BY <1>1 DEF PrJob, PrStates
<1>4. prRows \in Seq(PrRow) /\ DOMAIN prRows = {} /\ Reviews(prRows) = {}
  BY DEF Reviews
<1>5. IntakeTyped
  <2>1. prRows \in Seq(PrRow) /\ prMail \subseteq PrJob /\ IsFiniteSet(prMail)
    BY <1>2, <1>3, <1>4
  <2>2. /\ prLife \in [state : PrStates \cup {"none"}, at : Nat]
        /\ prGithub \in [head : Nat, state : PrStates, at : Nat]
        /\ prApproval \in [state : {"none", "awaiting", "approved", "withdrawn"}, head : Nat,
                           workflowStartAdmits : BOOLEAN]
        /\ prOwed \in [head : Nat, done : Nat]
    BY DEF NoLife, NoApproval, PrStates
  <2> QED BY <2>1, <2>2 DEF IntakeTyped
<1>6. MailSound
  BY <1>2 DEF MailSound
<1>7. LifeSound
  BY DEF LifeSound, LifecycleIsNewest, NoLife
<1>8. ApprovalSound /\ NoReviewWhileClosed
  BY DEF ApprovalSound, HeldUntilApproved, NoApproval, NoReviewWhileClosed, PrClosed, NoLife
<1>9. RowsSound(prRows) /\ EventsKnown /\ DoneSound
  BY <1>4 DEF RowsSound, EventsKnown, DoneSound
<1>10. OwedSound
  BY DEF OwedSound
<1> QED BY <1>5, <1>6, <1>7, <1>8, <1>9, <1>10 DEF IntakeInv

\* Every step keeps the invariant.
LEMMA IntakeMoves ==
  ASSUME IntakeAssumption, IntakeInv, [IntakeNext]_intakeVars
  PROVE  IntakeInv'
<1>1. CASE UNCHANGED intakeVars
  BY <1>1 DEF intakeVars, IntakeInv, IntakeTyped, MailSound, LifeSound, LifecycleIsNewest, Rank,
              ApprovalSound, HeldUntilApproved, EventsKnown, NoReviewWhileClosed, PrClosed,
              DoneSound, OwedSound, PushAnswered, WillAnswer
<1>2. CASE IntakePush
  BY <1>2, GithubSteps
<1>3. ASSUME NEW s \in {"open", "closed", "merged"}, NEW tick \in {0, 1}, ChangeState(s, tick)
      PROVE  IntakeInv'
  BY <1>3, GithubSteps
<1>4. ASSUME NEW k \in PrCommands \cup {"approved", "workflow_run"}, Signal(k)
      PROVE  IntakeInv'
  BY <1>4, GithubSteps
<1>5. ASSUME NEW m \in prMail, NEW copy \in {0, 1}, runDelivery(m, <<m.n, copy>>)
      PROVE  IntakeInv'
  <2>1. PICK id : id = <<m.n, copy>>
    OBVIOUS
  <2> QED BY <1>5, <2>1, DeliveryStep
<1>6. ASSUME NEW i \in DOMAIN prRows,
             \/ ClaimRow(i) \/ RestartRow(i) \/ StaleHead(i) \/ PublishReview(i)
             \/ schedulePushFollowUp(i) \/ CompleteRow(i) \/ ExhaustReplacement(i)
      PROVE  IntakeInv'
  BY <1>6, ClaimKeeps, RestartKeeps, StaleKeeps, PublishKeeps, FollowUpKeeps, CompleteKeeps,
     ExhaustKeeps
<1> QED BY <1>1, <1>2, <1>3, <1>4, <1>5, <1>6 DEF IntakeNext

\* What the invariant says of the rows is what the run asks of them.
LEMMA IntakePromises ==
  ASSUME IntakeInv
  PROVE  IntakeSound
<1>1. /\ IntakeTyped /\ LifeSound /\ ApprovalSound /\ RowsSound(prRows) /\ NoReviewWhileClosed
      /\ OwedSound /\ prRows \in Seq(PrRow)
  BY DEF IntakeInv, IntakeTyped
<1>2. /\ DOMAIN prRows = 1 .. Len(prRows) /\ Len(prRows) \in Nat
      /\ \A i \in DOMAIN prRows : prRows[i] \in PrRow /\ RowSound(prRows, i)
      /\ Reviews(prRows) \subseteq DOMAIN prRows
  BY <1>1, RowsTyped DEF RowsSound
<1>3. \A i \in DOMAIN prRows : prRows[i].marks.kid \in 0 .. Len(prRows)
                               /\ prRows[i].marks.replacement \in 0 .. Len(prRows)
  <2> SUFFICES ASSUME NEW i \in DOMAIN prRows
               PROVE  prRows[i].marks.kid \in 0 .. Len(prRows)
                      /\ prRows[i].marks.replacement \in 0 .. Len(prRows)
    OBVIOUS
  <2>1. /\ prRows[i].marks.kid \in {0} \cup Reviews(prRows)
        /\ prRows[i].marks.replacement \in {0} \cup Reviews(prRows)
    BY <1>2 DEF RowSound, MarksSound
  <2> QED BY <1>2, <2>1
<1>4. IntakeTypeOK
  <2>1. \A i \in DOMAIN prRows :
          /\ prRows[i].type \in {"review", "triage", "description", "verification"}
          /\ prRows[i].src \in {"auto", "slash"}
          /\ prRows[i].st \in {"queued", "running", "completed", "failed", "cancelled", "superseded"}
          /\ prRows[i].run \in {"none", "working", "published", "checked"}
    BY <1>2 DEF PrRow
  <2> QED BY <1>1, <1>3, <2>1 DEF IntakeTypeOK, IntakeTyped, PrStates
<1>5. OneRowPerCause
  <2> SUFFICES ASSUME NEW i \in DOMAIN prRows, NEW j \in DOMAIN prRows,
                      prRows[i].type = prRows[j].type, prRows[i].event = prRows[j].event,
                      prRows[i].parent = prRows[j].parent,
                      prRows[i].staleHeadRescheduled = prRows[j].staleHeadRescheduled
               PROVE  i = j
    BY DEF OneRowPerCause
  <2>1. CASE prRows[i].parent = 0
    BY <1>1, <2>1 DEF RowsSound
  <2>2. CASE prRows[i].parent # 0
    BY <1>2, <2>2 DEF RowSound
  <2> QED BY <2>1, <2>2
<1>6. LifecycleIsNewest /\ HeldUntilApproved /\ PushAnswered
  BY <1>1 DEF LifeSound, ApprovalSound, OwedSound, PushAnswered
<1> QED BY <1>1, <1>4, <1>5, <1>6 DEF IntakeSound

\* What the intake transactions of delivery.ts and the rescheduling of reviewReschedule.ts promise
\* of a pull request whatever the order, loss and repetition of its deliveries, through worker
\* deaths, replaced heads and pushes at any moment.
THEOREM IntakeIsSound == IntakeSpec => []IntakeSound
<1>1. IntakeInit => IntakeInv
  BY IntakeAssumption, IntakeStarts
<1>2. IntakeInv /\ [IntakeNext]_intakeVars => IntakeInv'
  BY IntakeAssumption, IntakeMoves
<1>3. IntakeInv => IntakeSound
  BY IntakePromises
<1> QED BY <1>1, <1>2, <1>3, PTL DEF IntakeSpec

=============================================================================
