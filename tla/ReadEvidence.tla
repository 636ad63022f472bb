---------------------------- MODULE ReadEvidence ----------------------------
(***************************************************************************)
(* What a review was shown is what it may cite.  An agent reads a file of  *)
(* the pinned checkout through Code Mode (src/src/agent/tools,             *)
(* src/src/agent/execution/marshal.ts): long lines are clamped, the answer *)
(* is cut to a byte budget and cut again on its way to the guest; what     *)
(* arrived is recorded in the evidence ledger                              *)
(* (src/src/review/findings/evidenceLedger.ts), a finding is accepted when *)
(* the ledger covers its lines, and a later attempt rereads the saved      *)
(* ranges before it trusts a cached report.                                *)
(*                                                                         *)
(* A text is the sequence of the lengths of its lines as split at          *)
(* newlines, so a trailing newline is a last line of length 0.  A hash of  *)
(* lines is the sequence of their lengths: at one place of one head a      *)
(* line is determined by how much of it there is.                          *)
(***************************************************************************)
EXTENDS Integers, FiniteSets, Sequences, SequencesExt, TLC

CONSTANTS Texts,            \* the texts the file may have, at any head
          LineMax,          \* LOCAL_WORKSPACE_READ_MAX_LINE_CHARACTERS
          MarkLen,          \* length of the note that replaces a longer line
          ReadBudget,       \* LOCAL_WORKSPACE_READ_RESPONSE_BYTES
          GuestBudget,      \* CODE_MODE_SERIALIZE_MAX_STRING_BYTES
          SpillThreshold,   \* LOCAL_WORKSPACE_READ_SPILL_THRESHOLD_BYTES
          MaxFileReads      \* bound: reads of the agent

ASSUME ReadEvidenceAssumption ==
    /\ Texts \subseteq Seq(Nat)
    /\ {LineMax, MarkLen, ReadBudget, GuestBudget, SpillThreshold, MaxFileReads}
          \subseteq Nat
    /\ GuestBudget <= ReadBudget /\ ReadBudget <= SpillThreshold

VARIABLES reText,      \* the checkout's file at the reviewed head, <<>> before
          reWhole,     \* lines the guest was shown whole
          reReads,     \* reads so far
          reLedger,    \* recorded reads: [s, e, desc]
          reReport,    \* the cached report: its finding and saved descriptor
          reAttempt    \* the later attempt: its file and what became of it

evidenceVars == <<reText, reWhole, reReads, reLedger, reReport, reAttempt>>

Lines(t) == IF Len(t) > 1 /\ t[Len(t)] = 0 THEN SubSeq(t, 1, Len(t) - 1) ELSE t

NoCachedReport == [kind |-> "none"]
NoAttempt == [kind |-> "none"]

ReadEvidenceTypeOK ==
    /\ reText \in Texts \cup {<<>>}
    /\ reWhole \subseteq 1 .. Len(reText)
    /\ reReads \in 0 .. MaxFileReads
    /\ \A r \in reLedger : /\ 1 <= r.s /\ r.s <= r.e
                           /\ r.desc \in Seq(Nat)
    /\ reReport = NoCachedReport \/ reReport.kind = "report"
    /\ reAttempt = NoAttempt \/ reAttempt.result \in {"hit", "miss"}

ReadEvidenceInit ==
    /\ reText = <<>> /\ reWhole = {} /\ reReads = 0 /\ reLedger = {}
    /\ reReport = NoCachedReport /\ reAttempt = NoAttempt

-----------------------------------------------------------------------------
(* Budgeted reading                                                        *)

Bytes(t) == FoldLeft(+, 0, t) + Len(t) - 1

(* The byte at which line i of a text starts.                              *)
StartByte(t, i) == FoldLeft(+, 0, SubSeq(t, 1, i - 1)) + i - 1

(* capTextOutput: the first max bytes, cut anywhere in a line.             *)
capTextOutput(t, max) ==
    IF Bytes(t) <= max THEN t
    ELSE LET begun == {i \in DOMAIN t : StartByte(t, i) <= max}
         IN  [i \in 1 .. Cardinality(begun) |->
                IF t[i] <= max - StartByte(t, i) THEN t[i]
                ELSE max - StartByte(t, i)]

endLineForText(t) == IF t = <<0>> THEN 0 ELSE Len(Lines(t))

(* clampLongLines: a line above the cap is replaced by a note.             *)
Clamped(lines) == {i \in DOMAIN lines : lines[i] > LineMax}

clampLongLines(lines) ==
    [i \in DOMAIN lines |-> IF lines[i] > LineMax THEN MarkLen ELSE lines[i]]

Empty == [content |-> <<0>>, s |-> 0, e |-> 0, truncated |-> FALSE,
          overBudget |-> FALSE, clamped |-> {}]

(* readTextWithOutputBudget without a window: the whole body, capped.      *)
readWhole(t, max) ==
    LET lines == Lines(t)
        body == clampLongLines(lines) \o (IF lines = t THEN <<>> ELSE <<0>>)
        content == capTextOutput(body, max)
    IN  [content |-> content, s |-> 1, e |-> endLineForText(content),
         truncated |-> content # body, overBudget |-> content # body,
         clamped |-> {i \in Clamped(lines) : i <= endLineForText(content)}]

(* ... and with one: the selected lines, capped.  A window that ends       *)
(* before the file does is reported as truncated.                          *)
readWindow(t, max, start, count) ==
    LET lines == Lines(t)
        last == IF count = 0 \/ start + count - 1 > Len(lines) THEN Len(lines)
                ELSE start + count - 1
        selected == SubSeq(clampLongLines(lines), start, last)
        content == capTextOutput(selected, max)
        end == IF content # selected THEN start + endLineForText(content) - 1
               ELSE last
    IN  [content |-> content, s |-> start, e |-> end,
         truncated |-> content # selected \/ last < Len(lines),
         overBudget |-> content # selected,
         clamped |-> {i \in Clamped(lines) : start <= i /\ i <= end}]

(* start and count are 0 when the caller leaves them out.                  *)
readTextWithOutputBudget(t, max, start, count) ==
    IF t = <<0>> THEN Empty
    ELSE IF start = 0 /\ count = 0 THEN readWhole(t, max)
    ELSE IF start > Len(Lines(t)) THEN Empty
    ELSE readWindow(t, max, IF start = 0 THEN 1 ELSE start, count)

(* A read over the budget of a file above the threshold is spilled: the    *)
(* guest gets the tail and no lines to cite.                               *)
Spilled(t, r) == r.overBudget /\ Bytes(t) > SpillThreshold

-----------------------------------------------------------------------------
(* Marshalling and the ledger                                              *)

(* boundJsonValue: the content is cut to the guest's string budget.        *)
boundJsonValue(r) ==
    LET content == capTextOutput(r.content, GuestBudget)
    IN  [r EXCEPT !.content = content] @@ [cut |-> content # r.content]

CutLine_Kept(g, computedEnd) == {}

(* The line the marshaller cut is not evidence.                            *)
CutLine(g, computedEnd) == IF g.cut THEN {computedEnd} ELSE {}

(* segmentsExcluding: the maximal runs of lines outside the excluded set.  *)
segmentsExcluding(s, e, excluded) ==
    {<<a, b>> \in (s .. e) \X (s .. e) :
        /\ a <= b
        /\ \A i \in a .. b : i \notin excluded
        /\ a = s \/ (a - 1) \in excluded
        /\ b = e \/ (b + 1) \in excluded}

Hash(content, from, to) == SubSeq(content, from, to)

(* recordDeliveredFileRead.                                                *)
recordDeliveredFileRead(content, s, e, clamped) ==
    {[s |-> seg[1], e |-> seg[2],
      desc |-> Hash(content, seg[1] - s + 1, seg[2] - s + 1)] :
        seg \in segmentsExcluding(s, e, clamped)}

(* recordMarshalledEvidence: no line past the delivered content counts.    *)
recordMarshalledEvidence(g) ==
    LET computedEnd == g.s + Len(g.content) - 1
        end == IF g.e < computedEnd THEN g.e ELSE computedEnd
    IN  IF g.content = <<0>> THEN {}
        ELSE recordDeliveredFileRead(g.content, g.s, end,
                                     g.clamped \cup CutLine(g, computedEnd))

ShownWhole(g) == {g.s + i - 1 : i \in {j \in DOMAIN g.content :
                     /\ g.s + j - 1 <= Len(Lines(reText))
                     /\ g.s + j - 1 \notin Clamped(Lines(reText))
                     /\ g.content[j] = Lines(reText)[g.s + j - 1]}}

(* The checkout is pinned to the reviewed head.                            *)
pinCheckout(text) == /\ reText = <<>>
                     /\ reText' = text
                     /\ UNCHANGED <<reWhole, reReads, reLedger, reReport, reAttempt>>

(* readWorkspaceFile through the capability bridge.                        *)
readWorkspaceFile(start, count) ==
    /\ reText # <<>> /\ reAttempt = NoAttempt
    /\ reReads < MaxFileReads
    /\ reReads' = reReads + 1
    /\ LET r == readTextWithOutputBudget(reText, ReadBudget, start, count)
           g == boundJsonValue(r)
       IN  IF r.s = 0 \/ Spilled(reText, r)
           THEN UNCHANGED <<reWhole, reLedger>>
           ELSE /\ reLedger' = reLedger \cup recordMarshalledEvidence(g)
                /\ reWhole' = reWhole \cup ShownWhole(g)
    /\ UNCHANGED <<reText, reReport, reAttempt>>

-----------------------------------------------------------------------------
(* Findings and recovery                                                   *)

covers(ledger, s, e) == \E r \in ledger : r.s <= s /\ r.e >= e

(* A finding with evidence is accepted; its report is cached with the      *)
(* descriptor of a read that covers it.                                    *)
assertFindingsHaveEvidence(s, e) ==
    /\ reReport = NoCachedReport /\ reAttempt = NoAttempt
    /\ covers(reLedger, s, e)
    /\ \E r \in reLedger :
          /\ r.s <= s /\ r.e >= e
          /\ reReport' = [kind |-> "report", s |-> s, e |-> e, desc |-> r]
    /\ UNCHANGED <<reText, reWhole, reReads, reLedger, reAttempt>>

(* createGovernedReviewEvidenceReader: the exact window again; a refused   *)
(* or truncated answer is a miss.                                          *)
governedRead(t, d) ==
    readTextWithOutputBudget(t, ReadBudget, d.s, d.e - d.s + 1)

HashMatches(fresh, d) ==
    LET count == d.e - d.s + 1 IN
    /\ Len(fresh.content) >= count
    /\ Len(fresh.content) > count =>
          Len(fresh.content) = count + 1 /\ fresh.content[count + 1] = 0
    /\ Hash(fresh.content, 1, count) = d.desc

(* revalidateEvidenceDescriptors.                                          *)
Revalidates(t, d) ==
    LET fresh == governedRead(t, d) IN
    /\ ~fresh.truncated
    /\ fresh.s = d.s /\ fresh.e = d.e
    /\ fresh.content # <<0>>
    /\ fresh.clamped = {}
    /\ HashMatches(fresh, d)

(* The reader is bound to the attempt's head; a descriptor of another head *)
(* is a miss.                                                              *)
HeadAgrees_Ignored(moved) == TRUE

HeadAgrees(moved) == ~moved

(* A later attempt of the work item, at the bound head or (a replacement)  *)
(* at another one, finds the cached report.                                *)
RecoverReport(moved, text) ==
    /\ reReport # NoCachedReport /\ reAttempt = NoAttempt
    /\ moved \/ text = reText
    /\ LET ok == HeadAgrees(moved) /\ Revalidates(text, reReport.desc)
       IN  reAttempt' = [kind |-> "attempt", moved |-> moved, text |-> text,
                         result |-> IF ok THEN "hit" ELSE "miss"]
    /\ UNCHANGED <<reText, reWhole, reReads, reLedger, reReport>>

LineNumbers == 1 .. Len(Lines(reText))

ReadEvidenceNext ==
    \/ \E text \in Texts : pinCheckout(text)
    \/ \E start \in {0} \cup 1 .. Len(Lines(reText)) + 1,
          count \in 0 .. Len(Lines(reText)) : readWorkspaceFile(start, count)
    \/ \E s, e \in LineNumbers : s <= e /\ assertFindingsHaveEvidence(s, e)
    \/ \E moved \in BOOLEAN, text \in Texts : RecoverReport(moved, text)

ReadEvidenceSpec == ReadEvidenceInit /\ [][ReadEvidenceNext]_evidenceVars

-----------------------------------------------------------------------------
(* Properties                                                              *)

(* Every line the ledger covers was shown to the guest whole: not clamped, *)
(* not cut by either budget, not past the end of what arrived              *)
(* (recordMarshalledEvidence, readTextWithOutputBudget).                   *)
EvidenceShownWhole ==
    \A r \in reLedger : \A i \in r.s .. r.e : i \in reWhole

(* A cached report is accepted by a later attempt of the same head only,   *)
(* and the lines it cites read there as they did when they were cited      *)
(* (revalidateEvidenceDescriptors).                                        *)
RecoveredStillReads ==
    reAttempt # NoAttempt /\ reAttempt.result = "hit" =>
        /\ ~reAttempt.moved
        /\ \A i \in reReport.s .. reReport.e :
              /\ i <= Len(Lines(reAttempt.text))
              /\ Lines(reAttempt.text)[i] = Lines(reText)[i]

(* What the evidence ledger promises: lines that may be cited were shown   *)
(* whole, and a later attempt trusts a report only if they still read so.  *)
EvidenceSound == ReadEvidenceTypeOK /\ EvidenceShownWhole /\ RecoveredStillReads

=============================================================================
