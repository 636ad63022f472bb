----------------------------- MODULE TraceQueue -----------------------------
(***************************************************************************)
(* The trace recorder of traces/recorder.ts: spans of the executions of a  *)
(* worker are shortened until they fit an event, queued within a bounded   *)
(* main queue or a smaller reserve, handed to the client by a periodic     *)
(* flush, and drained at shutdown.                                         *)
(*                                                                         *)
(* An event is the sizes of its parts.  The flush timer may fire several   *)
(* times while the client's flush hangs; each turn then waits on the       *)
(* promise in `this.flushing` and goes on by itself when it settles, so    *)
(* that two batches can be in flight.                                      *)
(***************************************************************************)
EXTENDS Naturals, Sequences, FiniteSets, SequencesExt

CONSTANTS
    TracedExecutions,       \* executions that record spans
    Drafts,           \* the spans they may record, as part sizes
    EventBytes,       \* TRACE_EVENT_BYTES
    MainEvents,       \* MAX_QUEUED
    MainBytes,        \* MAX_QUEUED_BYTES
    ReserveEvents,    \* RESERVE_QUEUED
    ReserveBytes,     \* RESERVE_QUEUED_BYTES
    MarkerBytes,      \* size of the truncation marker
    ElidedBytes,      \* bound of a shortened part
    SpanBytes,        \* size of an execution span
    MaxTraceEvents,   \* spans recorded in all
    MaxFlushWaiters   \* flush turns waiting at once

ASSUME TraceAssumption ==
    /\ {EventBytes, MainEvents, MainBytes, ReserveEvents, ReserveBytes, MarkerBytes,
        ElidedBytes, SpanBytes, MaxTraceEvents, MaxFlushWaiters} \subseteq Nat

VARIABLES
    tqQueue,     \* this.queue
    tqSent,      \* the events handed to the client, in order
    tqHeld,      \* queued, queuedBytes, reserveQueued, reserveBytes
    tqBatches,   \* batches whose flush has not settled
    tqFlushing,  \* the batch `this.flushing` stands for; 0 when undefined
    tqWaiters,   \* per waiting flush turn: the batch it awaits
    tqExec,      \* per execution: its counters and the spans it recorded
    tqClosed,    \* this.closed
    tqDrain,     \* where drain() is
    tqAwaits     \* the batch drain() awaits; 0 when none

traceVars == <<tqQueue, tqSent, tqHeld, tqBatches, tqFlushing, tqWaiters, tqExec,
               tqClosed, tqDrain, tqAwaits>>

Parts == {"meta", "error", "input", "hostCalls", "tools", "inputState", "outputState",
          "choices"}
ContentParts == Parts \ {"meta", "error"}
Forms == {"whole", "truncated", "metadata"}
NoCounts == [dropped |-> 0, degraded |-> 0, truncated |-> 0]
NoneHeld == [queued |-> 0, queuedBytes |-> 0, reserveQueued |-> 0, reserveBytes |-> 0]

TraceTypeOK ==
    /\ \A k \in DOMAIN tqQueue : tqQueue[k].exec \in TracedExecutions /\ tqQueue[k].form \in Forms
    /\ tqHeld \in [DOMAIN NoneHeld -> Nat]
    /\ \A b \in tqBatches : b.id \in Nat \ {0} /\ {b.held, b.size} \subseteq [DOMAIN NoneHeld -> Nat]
    /\ tqFlushing \in Nat
    /\ tqWaiters \in Seq(Nat)
    /\ \A e \in TracedExecutions : tqExec[e].counts \in [DOMAIN NoCounts -> Nat]
                             /\ tqExec[e].emitted \in Nat /\ tqExec[e].ended \in BOOLEAN
    /\ tqClosed \in BOOLEAN
    /\ tqDrain \in {"none", "waiting", "flushing", "shutdown", "done", "timeout"}
    /\ tqAwaits \in Nat

TraceInit ==
    /\ tqQueue = <<>> /\ tqSent = <<>> /\ tqHeld = NoneHeld
    /\ tqBatches = {} /\ tqFlushing = 0 /\ tqWaiters = <<>>
    /\ tqExec = [e \in TracedExecutions |-> [counts |-> NoCounts, emitted |-> 0, ended |-> FALSE]]
    /\ tqClosed = FALSE /\ tqDrain = "none" /\ tqAwaits = 0

-----------------------------------------------------------------------------
(* Shortening. *)

eventBytes(p) == FoldFunction(LAMBDA m, n : m + n, 0, p)

(* The cuts in the order fitProperties tries them, each with what is left  *)
(* of the part: a bounded excerpt, or the marker.                          *)
Cuts == << [part |-> "input", kind |-> "elide"], [part |-> "input", kind |-> "mark"],
           [part |-> "hostCalls", kind |-> "elide"], [part |-> "hostCalls", kind |-> "mark"],
           [part |-> "tools", kind |-> "mark"],
           [part |-> "inputState", kind |-> "mark"],
           [part |-> "outputState", kind |-> "mark"],
           [part |-> "choices", kind |-> "elide"] >>

elided(n) == IF n > ElidedBytes THEN ElidedBytes ELSE n

cutPart(p, c) ==
    IF p[c.part] = 0 THEN p
    ELSE [p EXCEPT ![c.part] = IF c.kind = "mark" THEN MarkerBytes ELSE elided(@)]

(* The properties after as many cuts as it takes to fit; they may still be *)
(* too large.                                                              *)
fitProperties(p) ==
    FoldLeft(LAMBDA q, c : IF eventBytes(q) <= EventBytes THEN q ELSE cutPart(q, c), p, Cuts)

(* Content is dropped and long strings become the marker; an error object  *)
(* is not a string and stays.                                              *)
metadataOnly(p) ==
    [x \in Parts |-> CASE x \in ContentParts -> 0
                       [] x = "meta" -> elided(p[x])
                       [] OTHER -> p[x]]

-----------------------------------------------------------------------------
(* TraceRecorder.emit *)

(* What a draft is stored as.  A full main queue sends an event, without   *)
(* its content, to the reserve; an execution span goes there unchanged.    *)
StoredSpan(e, full, span) ==
    LET fitted == fitProperties(full)
        fits == eventBytes(fitted) <= EventBytes
        first == IF fits THEN fitted ELSE metadataOnly(full)
        reserve == \/ tqHeld.queued >= MainEvents
                   \/ tqHeld.queuedBytes + eventBytes(first) > MainBytes
        degrade == reserve /\ fits /\ ~span
        kept == IF degrade THEN metadataOnly(first) ELSE first
    IN  [exec |-> e, span |-> span, bytes |-> eventBytes(kept), reserve |-> reserve,
         form |-> IF ~fits \/ degrade THEN "metadata"
                  ELSE IF fitted = full THEN "whole" ELSE "truncated",
         counts |-> IF span THEN tqExec[e].counts ELSE NoCounts,
         before |-> tqExec[e].emitted]

SpanDropped(s) ==
    \/ s.bytes > EventBytes
    \/ s.reserve /\ (tqHeld.reserveQueued >= ReserveEvents
                      \/ tqHeld.reserveBytes + s.bytes > ReserveBytes)

holding(s) == IF s.reserve THEN [NoneHeld EXCEPT !.reserveQueued = 1, !.reserveBytes = s.bytes]
              ELSE [NoneHeld EXCEPT !.queued = 1, !.queuedBytes = s.bytes]

plus(a, b) == [f \in DOMAIN a |-> a[f] + b[f]]
minus(a, b) == [f \in DOMAIN a |-> a[f] - b[f]]

(* The execution's counters.  A truncated event that the reserve strips is *)
(* counted once, as degraded.                                              *)
counted_Dropped(c, s) ==
    IF SpanDropped(s) THEN [c EXCEPT !.dropped = @ + 1]
    ELSE IF s.form = "truncated" THEN [c EXCEPT !.truncated = @ + 1]
    ELSE c

counted(c, s) ==
    IF SpanDropped(s) THEN [c EXCEPT !.dropped = @ + 1]
    ELSE IF s.form = "metadata" THEN [c EXCEPT !.degraded = @ + 1]
    ELSE IF s.form = "truncated" THEN [c EXCEPT !.truncated = @ + 1]
    ELSE c

emit(e, full, span) ==
    LET s == StoredSpan(e, full, span)
    IN  IF tqClosed THEN UNCHANGED <<tqQueue, tqHeld, tqExec>>
        ELSE /\ tqExec' = [tqExec EXCEPT ![e] = [counts |-> counted(@.counts, s),
                                                 emitted |-> @.emitted + 1,
                                                 ended |-> @.ended \/ span]]
             /\ IF SpanDropped(s) THEN UNCHANGED <<tqQueue, tqHeld>>
                ELSE tqQueue' = Append(tqQueue, s) /\ tqHeld' = plus(tqHeld, holding(s))

SpansRecorded == FoldFunction(LAMBDA x, n : x.emitted + n, 0, tqExec)

(* A span of the execution's sessions, or recordExecutionSpan.             *)
RecordSpan(e, draft) ==
    /\ SpansRecorded < MaxTraceEvents
    /\ emit(e, draft, FALSE)
    /\ UNCHANGED <<tqSent, tqBatches, tqFlushing, tqWaiters, tqClosed, tqDrain, tqAwaits>>

(* startWorkTrace's finally, or closeOwnedExecution: the execution span    *)
(* carries the counters and no content.                                    *)
executionDraft == [x \in Parts |-> IF x = "meta" THEN SpanBytes ELSE 0]

EndExecution(e) ==
    /\ ~tqExec[e].ended /\ SpansRecorded < MaxTraceEvents
    /\ emit(e, executionDraft, TRUE)
    /\ UNCHANGED <<tqSent, tqBatches, tqFlushing, tqWaiters, tqClosed, tqDrain, tqAwaits>>

-----------------------------------------------------------------------------
(* TraceRecorder.flush *)

HoldingOf(q) == FoldFunction(LAMBDA s, h : plus(holding(s), h), NoneHeld, q)

(* What the batch no longer holds when its flush starts: nothing; its      *)
(* bytes stay counted until the flush settles.                             *)
ReleasedAtStart_All(q) == HoldingOf(q)

ReleasedAtStart(q) == NoneHeld

(* flushBatch: the whole queue becomes a batch in flight.                  *)
flushBatch ==
    LET id == 1 + (IF tqBatches = {} THEN 0 ELSE Max({b.id : b \in tqBatches}))
        freed == ReleasedAtStart(tqQueue)
    IN  /\ tqSent' = tqSent \o tqQueue /\ tqQueue' = <<>>
        /\ tqBatches' = tqBatches \cup
             {[id |-> id, held |-> minus(HoldingOf(tqQueue), freed),
               size |-> HoldingOf(tqQueue)]}
        /\ tqHeld' = minus(tqHeld, freed)
        /\ tqFlushing' = id

(* The timer's turn: it starts a batch, or waits for the one in flight.    *)
FlushTurn ==
    /\ tqDrain = "none"
    /\ \/ /\ tqFlushing = 0 /\ tqQueue # <<>>
          /\ flushBatch /\ UNCHANGED tqWaiters
       \/ /\ tqFlushing # 0 /\ Len(tqWaiters) < MaxFlushWaiters
          /\ tqWaiters' = Append(tqWaiters, tqFlushing)
          /\ UNCHANGED <<tqQueue, tqSent, tqHeld, tqBatches, tqFlushing>>
    /\ UNCHANGED <<tqExec, tqClosed, tqDrain, tqAwaits>>

(* Mutant: the room is given back on the failure and again in the finally. *)
FlushSettles_FreesTwice(b) ==
    /\ tqBatches' = tqBatches \ {b}
    /\ tqHeld' = minus(tqHeld, plus(b.held, b.held))
    /\ tqFlushing' = IF tqFlushing = b.id THEN 0 ELSE tqFlushing
    /\ UNCHANGED <<tqQueue, tqSent, tqWaiters, tqExec, tqClosed, tqDrain, tqAwaits>>

(* The client's flush of a batch settles, sent or failed: the finally      *)
(* block gives its room back.                                              *)
FlushSettles(b) ==
    /\ tqBatches' = tqBatches \ {b}
    /\ tqHeld' = minus(tqHeld, b.held)
    /\ tqFlushing' = IF tqFlushing = b.id THEN 0 ELSE tqFlushing
    /\ UNCHANGED <<tqQueue, tqSent, tqWaiters, tqExec, tqClosed, tqDrain, tqAwaits>>

(* A waiting turn goes on once the batch it awaited has settled, whatever  *)
(* another turn has started meanwhile.                                     *)
WaiterResumes ==
    \E k \in DOMAIN tqWaiters :
        /\ \A b \in tqBatches : b.id # tqWaiters[k]
        /\ tqWaiters' = RemoveAt(tqWaiters, k)
        /\ IF tqQueue = <<>> THEN UNCHANGED <<tqQueue, tqSent, tqHeld, tqBatches, tqFlushing>>
           ELSE flushBatch
        /\ UNCHANGED <<tqExec, tqClosed, tqDrain, tqAwaits>>

-----------------------------------------------------------------------------
(* TraceRecorder.drain *)

ClosedByDrain_Never == tqClosed

ClosedByDrain == TRUE

BeginDrain ==
    /\ tqDrain = "none"
    /\ tqClosed' = ClosedByDrain /\ tqDrain' = "waiting" /\ tqAwaits' = tqFlushing
    /\ UNCHANGED <<tqQueue, tqSent, tqHeld, tqBatches, tqFlushing, tqWaiters, tqExec>>

(* It awaits `this.flushing`, then flushes until the queue is empty, then  *)
(* shuts the client down within what is left of its time.  Nothing is      *)
(* queued any more, so a flush it starts finds no other in flight.         *)
DrainStep ==
    /\ \A b \in tqBatches : b.id # tqAwaits
    /\ UNCHANGED <<tqWaiters, tqExec, tqClosed>>
    /\ \/ /\ tqDrain \in {"waiting", "flushing"} /\ tqQueue # <<>> /\ tqFlushing = 0
          /\ flushBatch /\ tqDrain' = "flushing" /\ tqAwaits' = tqFlushing'
       \/ /\ tqDrain \in {"waiting", "flushing"} /\ tqQueue = <<>>
          /\ tqDrain' = "shutdown" /\ tqAwaits' = 0
          /\ UNCHANGED <<tqQueue, tqSent, tqHeld, tqBatches, tqFlushing>>
       \/ /\ tqDrain = "shutdown" /\ tqBatches = {}
          /\ tqDrain' = "done"
          /\ UNCHANGED <<tqQueue, tqSent, tqHeld, tqBatches, tqFlushing, tqAwaits>>

DeadlineArmed_Shutdown == tqDrain = "shutdown"

DeadlineArmed == tqDrain \in {"waiting", "flushing", "shutdown"}

DrainDeadline ==
    /\ DeadlineArmed
    /\ tqDrain' = "timeout"
    /\ UNCHANGED <<tqQueue, tqSent, tqHeld, tqBatches, tqFlushing, tqWaiters, tqExec, tqClosed,
                   tqAwaits>>

-----------------------------------------------------------------------------
TraceNext ==
    \/ \E e \in TracedExecutions, d \in Drafts : RecordSpan(e, d)
    \/ \E e \in TracedExecutions : EndExecution(e)
    \/ FlushTurn
    \/ \E b \in tqBatches : FlushSettles(b)
    \/ WaiterResumes
    \/ BeginDrain \/ DrainStep \/ DrainDeadline

(* The event loop goes on and timers fire; PostHog need never answer.      *)
TraceFair == WF_traceVars(DrainStep) /\ WF_traceVars(DrainDeadline)

TraceSpec == TraceInit /\ [][TraceNext]_traceVars /\ TraceFair

-----------------------------------------------------------------------------
AllEvents == tqSent \o tqQueue

EarlierOf(k, form) ==
    Cardinality({j \in 1 .. (k - 1) : AllEvents[j].exec = AllEvents[k].exec
                                      /\ AllEvents[j].form = form})

(* An execution span tells the truth about its trace: of the events the    *)
(* execution recorded before it, as many are missing, without content and  *)
(* shortened as its counters say, whatever the queues and the flushes did  *)
(* meanwhile.                                                              *)
CountsHonest ==
    \A k \in DOMAIN AllEvents :
        AllEvents[k].span =>
            LET c == AllEvents[k].counts
                whole == EarlierOf(k, "whole")
            IN  /\ c.degraded = EarlierOf(k, "metadata")
                /\ c.truncated = EarlierOf(k, "truncated")
                /\ c.dropped + c.degraded + c.truncated + whole = AllEvents[k].before

(* What the recorder and the client hold together stays within the main    *)
(* queue and the reserve, also while several flushes hang.                 *)
HeldWithinBounds ==
    LET unsettled == FoldSet(LAMBDA b, h : plus(b.size, h), HoldingOf(tqQueue), tqBatches)
    IN  /\ unsettled.queued <= MainEvents /\ unsettled.queuedBytes <= MainBytes
        /\ unsettled.reserveQueued <= ReserveEvents /\ unsettled.reserveBytes <= ReserveBytes

(* A drain that ends in time has handed every event to the client.         *)
DrainedMeansHanded == tqDrain = "done" => tqQueue = <<>>

(* A drain ends, even when the client's flush never does.                  *)
DrainEnds == tqDrain = "waiting" ~> tqDrain \in {"done", "timeout"}

(* What the recorder promises: its counts are what was shortened, its      *)
(* queues stay within their bounds, and a drain leaves nothing behind.     *)
TraceSound == TraceTypeOK /\ CountsHonest /\ HeldWithinBounds /\ DrainedMeansHanded

=============================================================================
