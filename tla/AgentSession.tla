---------------------------- MODULE AgentSession ----------------------------
(***************************************************************************)
(* One model session (agent/runtime): sends that share a transcript, the   *)
(* turn loop with its tool budget, retries and compaction, the idle timer  *)
(* that races the loop, aborts, and the trace's spans.                     *)
(*                                                                         *)
(* The provider and the loop library are external: a stream answers, calls *)
(* tools, fails or hangs.  A loop that lost the race against the idle      *)
(* timer is only signalled; it returns later, while the caller may already *)
(* have started its next send on the same transcript.                      *)
(***************************************************************************)
EXTENDS Integers, Sequences, FiniteSets, SequencesExt

CONSTANTS
  MaxSends,           \* sends of one session (bound)
  MaxMishaps,         \* provider mishaps other than retryable errors (bound)
  SessionSignals,     \* who may stop the session: "abort", "host"
  Reservations,       \* whether sends reserve a terminal tool
  MaxToolRounds,      \* opts.maxToolRounds
  TurnRetryMax,       \* SESSION_TURN_RETRY_MAX
  OverflowCompactMax, \* SESSION_OVERFLOW_COMPACT_MAX
  KeepRecent,         \* messages COMPACTION_KEEP_RECENT_TOKENS leaves room for
  StopAt              \* SPECIALIST_EXECUTE_STOP_AT; 0 for the other roles

ASSUME SessionAssumption ==
  /\ MaxSends \in Nat \ {0} /\ MaxMishaps \in Nat /\ MaxToolRounds \in Nat \ {0}
  /\ TurnRetryMax \in Nat /\ OverflowCompactMax \in Nat
  /\ SessionSignals \subseteq {"abort", "host"} /\ Reservations \subseteq BOOLEAN
  /\ KeepRecent \in Nat \ {0} /\ StopAt \in Nat

VARIABLES
  asTranscript, \* sessionMessages after the system prompt
  asSend,       \* the send in progress, or the last one
  asAbandoned,  \* loops whose send has ended before they did
  asMishaps,    \* provider mishaps so far
  asStreak,     \* consecutive equal execute results
  asSignals,    \* {"abort", "host", "disposed"} raised so far
  asSpans,      \* tool call -> how often its span was emitted
  asGeneration  \* the send whose generation span is open, 0 for none

sessionVars ==
  <<asTranscript, asSend, asAbandoned, asMishaps, asStreak, asSignals, asSpans, asGeneration>>

Explore == "explore"   \* any tool that is not the reserved one
Submit  == "submit"    \* opts.reservedTerminalTool
SessionTools == {Explore, Submit}

(* Messages: a prompt carries its send, a call and its result their id.    *)
Message(kind, id) == [kind |-> kind, id |-> id]
Assistants == {"call", "text", "length", "retryable", "overflow", "fatal", "aborted"}
Errors == {"retryable", "overflow", "fatal"}

NewBudget == [rounds |-> 0, attempts |-> 0, successes |-> 0, stopped |-> FALSE]

NoSend ==
  [no |-> 0, at |-> "idle", end |-> "none", reserved |-> FALSE, budget |-> NewBudget,
   explored |-> 0, offered |-> FALSE, invalid |-> FALSE, refused |-> FALSE,
   error |-> FALSE, thrown |-> FALSE, rejected |-> FALSE, repeated |-> FALSE,
   retries |-> 0, compacts |-> 0, turn |-> 0, start |-> 0, produced |-> <<>>,
   running |-> {}, results |-> {}, disturbed |-> FALSE]

SessionInit ==
  /\ asTranscript = <<>> /\ asSend = NoSend /\ asAbandoned = {} /\ asMishaps = 0 /\ asStreak = 0
  /\ asSignals = {} /\ asSpans = <<>> /\ asGeneration = 0

Aborted == asSignals # {}
CallId(send) == MaxToolRounds * 10 * send.no + send.turn

-----------------------------------------------------------------------------
(* Tool budget of one send.  A turn's results are the pairs <<tool, ok>>.  *)

SubmitSucceeded(results) == <<Submit, TRUE>> \in results
SubmitTried(results) == \E r \in results : r[1] = Submit
Explored(results) == \E r \in results : r[1] = Explore

finishTurn_NoReserve(send, results) ==
  IF SubmitTried(results) THEN TRUE ELSE send.budget.rounds + 1 >= MaxToolRounds

(* finishTurn is asked before the turn is counted: it ends the loop.       *)
finishTurn(send, results) ==
  LET b == send.budget IN
  IF send.reserved /\ SubmitSucceeded(results) THEN TRUE
  ELSE IF send.reserved /\ SubmitTried(results) THEN b.successes > 0 \/ b.attempts + 1 >= 2
  ELSE /\ b.stopped \/ b.rounds + 1 >= MaxToolRounds
       /\ ~(send.reserved /\ b.successes = 0 /\ b.rounds < MaxToolRounds)

beforeToolCall_Open(send, tool) ==
  ~(send.reserved /\ tool = Submit) \/ send.budget.successes = 0

(* beforeToolCall: may this call execute?  Without a reserved tool nothing *)
(* is blocked; a call the phase does not allow is refused the same way.    *)
beforeToolCall(send, tool) ==
  ~send.reserved
    \/ IF tool = Submit THEN send.budget.successes = 0 /\ send.budget.attempts < 2
                        ELSE send.budget.rounds < MaxToolRounds

observeTurn(send, results) ==
  LET b == send.budget
      explores == IF Explored(results) THEN 1 ELSE 0
      counted == b.rounds + 1 IN
  IF send.reserved /\ SubmitTried(results)
    THEN [rounds |-> b.rounds + explores,
          attempts |-> b.attempts + 1,
          successes |-> b.successes + (IF SubmitSucceeded(results) THEN 1 ELSE 0),
          stopped |-> \/ b.stopped
                      \/ ~SubmitSucceeded(results) /\ (b.successes > 0 \/ b.attempts + 1 >= 2)]
    ELSE [b EXCEPT !.rounds = counted,
                   !.stopped = \/ @
                               \/ /\ counted >= MaxToolRounds
                                  /\ \/ ~send.reserved \/ b.successes > 0
                                     \/ counted > MaxToolRounds]

-----------------------------------------------------------------------------
(* The transcript. *)

lastAssistant(messages) ==
  LET at == {i \in DOMAIN messages : messages[i].kind \in Assistants} IN
  IF at = {} THEN "none" ELSE messages[CHOOSE i \in at : \A j \in at : j <= i].kind

dropTrailingErrorAssistant(messages) ==
  IF messages # <<>> /\ Last(messages).kind \in Errors THEN Front(messages) ELSE messages

placeUserMessage_Trusting(messages, prompt, insertAt) == messages

(* The prompt stands at insertAt unless it already stands before it.       *)
placeUserMessage(messages, prompt, insertAt) ==
  LET known == {i \in DOMAIN messages : messages[i] = prompt} IN
  CASE known = {} -> InsertAt(messages, insertAt + 1, prompt)
    [] \E i \in known : i <= insertAt + 1 -> messages
    [] OTHER -> LET without == Remove(messages, prompt) IN
                InsertAt(without, IF insertAt > Len(without) THEN Len(without) + 1
                                                             ELSE insertAt + 1, prompt)

(* Everything from where the loop began gives way to what it produced.     *)
absorbProducedMessages(messages, produced, prompt, start) ==
  LET insertAt == IF start < Len(messages) THEN start ELSE Len(messages) IN
  placeUserMessage(IF produced = <<>> THEN messages
                   ELSE SubSeq(messages, 1, insertAt) \o produced, prompt, insertAt)

findSafeCutIndex_Recent(messages) ==
  IF Len(messages) <= KeepRecent THEN 0 ELSE Len(messages) - KeepRecent

(* How many messages are summarised: the tail kept is the recent one,      *)
(* widened backwards until it does not begin with a tool's result.         *)
findSafeCutIndex(messages) ==
  LET recent == IF Len(messages) <= KeepRecent THEN 0 ELSE Len(messages) - KeepRecent
      cuts == {c \in 0..recent : c = 0 \/ messages[c + 1].kind # "result"}
  IN  CHOOSE c \in cuts : \A d \in cuts : d <= c

compactAgentMessages(messages, cut) ==
  <<Message("summary", 0)>> \o SubSeq(messages, cut + 1, Len(messages))

-----------------------------------------------------------------------------
(* Ends of a loop and of a send. *)

PromptOf(no) == Message("prompt", no)

(* The order in which send checks what happened.                           *)
SendOutcome(send) ==
  LET stopped == send.budget.stopped \/ send.repeated IN
  IF "abort" \in asSignals THEN "session_aborted"
  ELSE IF send.rejected THEN "prompt_idle_timeout"
  ELSE IF send.invalid THEN "protocol_invalid"
  ELSE IF Aborted /\ ~send.budget.stopped THEN "session_aborted"
  ELSE IF send.refused THEN "refusal"
  ELSE IF (send.error \/ send.thrown) /\ ~stopped THEN "request_failed"
  ELSE IF send.budget.stopped THEN "tool_budget"
  ELSE IF lastAssistant(asTranscript') = "length" THEN "output_limit"
  ELSE "completed"

Succeeded == {"tool_budget", "output_limit", "completed"}

(* One generation span is open at a time: the model is streaming.          *)
closeGeneration == asGeneration' = 0
openGeneration(no) == asGeneration' = IF "disposed" \in asSignals THEN 0 ELSE no

(* trace.endSend closes a generation the loop left open.                   *)
EndSend(send) ==
  /\ asSend' = [NoSend EXCEPT !.no = send.no, !.end = SendOutcome(send),
                              !.reserved = send.reserved, !.budget = send.budget,
                              !.explored = send.explored, !.offered = send.offered,
                              !.repeated = send.repeated]
  /\ closeGeneration

(* The loop returned: its messages are absorbed and the host looks on.     *)
LoopReturns(send) ==
  /\ asTranscript' = absorbProducedMessages(asTranscript, send.produced, PromptOf(send.no), send.start)
  /\ asSend' = [send EXCEPT !.at = "recover", !.running = {}, !.results = {}]
  /\ closeGeneration

(* turn_end pushes the assistant message before the loop has returned.     *)
PushAssistant(messages, message) ==
  IF Contains(messages, message) THEN messages ELSE Append(messages, message)

-----------------------------------------------------------------------------
(* Steps of the caller. *)

(* piSession.send on a live session.                                       *)
Send(reserved) ==
  /\ asSend.at = "idle" /\ asSend.no < MaxSends /\ "disposed" \notin asSignals
  /\ LET no == asSend.no + 1
         fresh == [NoSend EXCEPT !.no = no, !.at = "model", !.reserved = reserved,
                                 !.start = Len(asTranscript),
                                 !.produced = <<PromptOf(no)>>]
     IN  IF "abort" \in asSignals
           THEN /\ asSend' = [NoSend EXCEPT !.no = no, !.end = "session_aborted"]
                /\ UNCHANGED asGeneration
           ELSE asSend' = fresh /\ openGeneration(no)
  /\ UNCHANGED <<asMishaps, asTranscript, asAbandoned, asStreak, asSignals, asSpans>>

(* abort() by the caller, or the host's signal: every loop is signalled.   *)
abort(signal) ==
  /\ signal \notin asSignals /\ "disposed" \notin asSignals
  /\ asSignals' = asSignals \cup {signal}
  /\ UNCHANGED <<asMishaps, asTranscript, asSend, asAbandoned, asStreak, asSpans, asGeneration>>

DisposedSpans_Kept(spans) == spans

(* trace.dispose closes every span that is still open.                     *)
DisposedSpans(spans) == [c \in DOMAIN spans |-> IF spans[c] = 0 THEN 1 ELSE spans[c]]

dispose ==
  /\ "disposed" \notin asSignals
  /\ asSignals' = asSignals \cup {"disposed"}
  /\ asSpans' = DisposedSpans(asSpans)
  /\ closeGeneration
  /\ UNCHANGED <<asMishaps, asTranscript, asSend, asAbandoned, asStreak>>

-----------------------------------------------------------------------------
(* Steps of the loop and of the provider. *)

Opened(spans, call) == IF "disposed" \in asSignals THEN spans ELSE spans @@ (call :> 0)
Closed(spans, calls) ==
  IF "disposed" \in asSignals THEN spans
  ELSE [c \in DOMAIN spans |-> IF c \in calls THEN spans[c] + 1 ELSE spans[c]]

Mishap(happens) ==
  IF happens THEN asMishaps < MaxMishaps /\ asMishaps' = asMishaps + 1 ELSE UNCHANGED asMishaps

(* The loop goes on: a window compaction may come first (prepareNextTurn); *)
(* it works on the loop's own copy and leaves the session's messages.      *)
NextTurn(send) ==
  /\ asSend' = [send EXCEPT !.at = "model", !.turn = @ + 1, !.running = {}, !.results = {},
                            !.offered = send.budget.rounds >= MaxToolRounds]
  /\ openGeneration(send.no)

(* finishTurn, then turn_end: the turn is judged before it is counted.     *)
TurnFinished(send, results, streak) ==
  LET call == Message("call", CallId(send))
      counted == [send EXCEPT
        !.budget = observeTurn(send, results),
        !.error = FALSE,
        !.repeated = @ \/ (StopAt > 0 /\ streak >= StopAt),
        !.produced = @ \o <<call, Message("result", CallId(send))>>]
      ends == finishTurn(send, results) \/ counted.repeated \/ SubmitSucceeded(results)
  IN  /\ asStreak' = streak
      /\ IF ends
           THEN LoopReturns(counted)
           ELSE /\ NextTurn(counted)
                /\ asTranscript' = PushAssistant(asTranscript, call)

(* The model calls tools.  Calls the budget blocks answer with an error.   *)
SessionModelCalls(calls) ==
  /\ asSend.at = "model" /\ ~Aborted
  /\ LET allowed == {t \in calls : beforeToolCall(asSend, t)}
         refusedCalls == {<<t, FALSE>> : t \in calls \ allowed}
         send == [asSend EXCEPT
           !.running = allowed, !.results = refusedCalls, !.at = "tools",
           !.explored = @ + (IF Explore \in allowed THEN 1 ELSE 0)]
     IN  IF allowed = {}
           THEN TurnFinished(send, refusedCalls, asStreak) /\ UNCHANGED asSpans
           ELSE /\ asSend' = send
                /\ asSpans' = Opened(asSpans, CallId(asSend))
                /\ closeGeneration
                /\ UNCHANGED <<asTranscript, asStreak>>
  /\ UNCHANGED <<asMishaps, asAbandoned, asSignals>>

(* One assistant message with a duplicated call id: blocked and ended.     *)
ModelDuplicatesId ==
  /\ asSend.at = "model" /\ ~Aborted
  /\ Mishap(TRUE)
  /\ LoopReturns([asSend EXCEPT !.invalid = TRUE,
                                !.budget = observeTurn(asSend, {<<Explore, FALSE>>}),
                                !.produced = @ \o <<Message("call", CallId(asSend)),
                                                    Message("result", CallId(asSend))>>])
  /\ UNCHANGED <<asAbandoned, asStreak, asSignals, asSpans>>

(* createSpecialistExecuteRepeat: equal results in a row of one script.    *)
observeExecute(running, same) ==
  IF StopAt = 0 \/ Explore \notin running THEN asStreak
  ELSE IF same THEN asStreak + 1 ELSE 1

(* The tools of a turn settle; an execute that repeats itself counts.      *)
ToolsEnd(succeeded, same) ==
  /\ asSend.at = "tools" /\ ~Aborted
  /\ succeeded \subseteq asSend.running
  /\ LET results == asSend.results \cup {<<t, t \in succeeded>> : t \in asSend.running}
     IN  TurnFinished(asSend, results, observeExecute(asSend.running, same))
  /\ asSpans' = Closed(asSpans, {CallId(asSend)})
  /\ UNCHANGED <<asMishaps, asAbandoned, asSignals>>

(* The model answers in text, at its output limit, or refuses.             *)
ModelAnswers(kind, refusal) ==
  /\ asSend.at = "model" /\ ~Aborted
  /\ Mishap(refusal \/ kind = "length")
  /\ LoopReturns([asSend EXCEPT !.error = FALSE, !.refused = @ \/ refusal,
                                !.produced = Append(@, Message(kind, asSend.no))])
  /\ UNCHANGED <<asAbandoned, asStreak, asSignals, asSpans>>

(* The stream ends in an error message (sessionStream encodes a throw so). *)
ModelFails(kind) ==
  /\ asSend.at = "model" /\ ~Aborted
  /\ Mishap(kind # "retryable")
  /\ LoopReturns([asSend EXCEPT !.error = TRUE,
                                !.produced = Append(@, Message(kind, asSend.no))])
  /\ UNCHANGED <<asAbandoned, asStreak, asSignals, asSpans>>

(* The stream itself throws: nothing is absorbed.                          *)
LoopThrows ==
  /\ asSend.at = "model" /\ ~Aborted
  /\ Mishap(TRUE)
  /\ asSend' = [asSend EXCEPT !.at = "recover", !.thrown = TRUE]
  /\ UNCHANGED <<asTranscript, asAbandoned, asStreak, asSignals, asSpans, asGeneration>>

(* A signalled loop returns: its stream is aborted, or its tools have      *)
(* settled and the next stream is.                                         *)
LoopAborted ==
  /\ asSend.at \in {"model", "tools"} /\ Aborted
  /\ LET id == CallId(asSend)
         settled == IF asSend.at = "tools" THEN <<Message("call", id), Message("result", id)>> ELSE <<>>
     IN  LoopReturns([asSend EXCEPT !.produced = @ \o settled \o <<Message("aborted", 0)>>])
  /\ asSpans' = Closed(asSpans, IF asSend.at = "tools" THEN {CallId(asSend)} ELSE {})
  /\ UNCHANGED <<asMishaps, asAbandoned, asStreak, asSignals>>

-----------------------------------------------------------------------------
(* The host around the loop. *)

(* rejectForIdle: the race is lost, the loop signalled and left behind.    *)
(* Between loops the timer still ticks and only leaves its mark.           *)
IdleAt(places) ==
  /\ asSend.at \in places /\ ~asSend.rejected
  /\ LET send == [asSend EXCEPT !.rejected = TRUE] IN
     IF asSend.at = "recover"
       THEN /\ asSend' = send
            /\ UNCHANGED <<asTranscript, asAbandoned, asGeneration>>
       ELSE /\ asAbandoned' = asAbandoned \cup
                 {[no |-> send.no, at |-> send.at, turn |-> send.turn,
                   start |-> send.start, produced |-> send.produced]}
            /\ asTranscript' = asTranscript
            /\ EndSend(send)
  /\ UNCHANGED <<asMishaps, asStreak, asSignals, asSpans>>

rejectForIdle_StreamOnly == IdleAt({"model", "recover"})

rejectForIdle == IdleAt({"model", "tools", "recover"})

(* An abandoned loop comes back and is absorbed into the transcript the    *)
(* caller may be using again; its message_end closes whatever generation   *)
(* is open, and a tool that was running settles its span.                  *)
AbandonedReturns(loop) ==
  /\ loop \in asAbandoned
  /\ asAbandoned' = asAbandoned \ {loop}
  /\ LET id == CallId(loop)
         settled == IF loop.at = "tools" THEN <<Message("call", id), Message("result", id)>> ELSE <<>>
     IN  asTranscript' = absorbProducedMessages(asTranscript,
                           loop.produced \o settled \o <<Message("aborted", 0)>>,
                           PromptOf(loop.no), loop.start)
  /\ asSpans' = Closed(asSpans, IF loop.at = "tools" THEN {CallId(loop)} ELSE {})
  /\ closeGeneration
  /\ asSend' = [asSend EXCEPT !.disturbed = asSend.at # "idle"]
  /\ UNCHANGED <<asMishaps, asStreak, asSignals>>

shouldContinue(send) ==
  "abort" \notin asSignals /\ ~send.rejected /\ ~send.invalid /\ ~send.budget.stopped

Retryable(send) == lastAssistant(asTranscript) = "retryable" /\ send.retries < TurnRetryMax
Overflown(send) == lastAssistant(asTranscript) = "overflow" /\ send.compacts < OverflowCompactMax

(* A loop continues on the repaired transcript (runAgentLoopContinue).     *)
ContinueLoop(send, messages) ==
  /\ asTranscript' = messages
  /\ asSend' = [send EXCEPT !.at = "model", !.turn = @ + 1, !.produced = <<>>,
                            !.thrown = FALSE, !.start = Len(messages)]
  /\ openGeneration(send.no)

Conclude(messages) == asTranscript' = messages /\ EndSend(asSend)

(* runSessionTurn after a loop: recover an overflow by compaction (which   *)
(* may fail), retry a provider error, or let send judge what happened.     *)
Recover(summarised) ==
  /\ asSend.at = "recover"
  /\ LET kept == dropTrailingErrorAssistant(asTranscript)
         cut == findSafeCutIndex(kept)
     IN  IF ~shouldContinue(asSend) \/ asSend.refused THEN Conclude(asTranscript)
         ELSE IF Overflown(asSend)
           THEN IF summarised /\ cut > 0 /\ ~Aborted
                THEN ContinueLoop([asSend EXCEPT !.compacts = @ + 1],
                                  compactAgentMessages(kept, cut))
                ELSE Conclude(kept)
         ELSE IF Retryable(asSend)
           THEN IF Aborted THEN Conclude(kept)
                ELSE ContinueLoop([asSend EXCEPT !.retries = @ + 1], kept)
         ELSE Conclude(asTranscript)
  /\ UNCHANGED <<asMishaps, asAbandoned, asStreak, asSignals, asSpans>>

LoopStep ==
  \/ \E calls \in SUBSET SessionTools : calls # {} /\ SessionModelCalls(calls)
  \/ ModelDuplicatesId
  \/ \E succeeded \in SUBSET SessionTools, same \in BOOLEAN : ToolsEnd(succeeded, same)
  \/ \E kind \in {"text", "length"}, refusal \in BOOLEAN : ModelAnswers(kind, refusal)
  \/ \E kind \in Errors : ModelFails(kind)
  \/ LoopThrows

HostStep == rejectForIdle \/ LoopAborted \/ \E summarised \in BOOLEAN : Recover(summarised)

SessionNext ==
  \/ \E reserved \in Reservations : Send(reserved)
  \/ \E signal \in SessionSignals : abort(signal)
  \/ dispose
  \/ LoopStep
  \/ HostStep
  \/ \E loop \in asAbandoned : AbandonedReturns(loop)

(* Only the host is fair: the idle timer fires when nothing happens, a     *)
(* signalled loop returns, and the recovery code runs.  The provider and   *)
(* the tools owe nothing.                                                  *)
SessionSpec == SessionInit /\ [][SessionNext]_sessionVars /\ WF_sessionVars(HostStep)

-----------------------------------------------------------------------------
(* Properties *)

\* The transcript holds messages, and the send its budget within the code's limits.
SessionTypeOK ==
  /\ \A i \in DOMAIN asTranscript : asTranscript[i].kind \in Assistants \cup {"prompt", "result", "summary"}
  /\ asSend.no \in 0 .. MaxSends /\ asSend.at \in {"idle", "model", "tools", "recover"}
  /\ asSend.budget.rounds \in Nat
  /\ asSend.retries \in 0 .. TurnRetryMax /\ asSend.compacts \in 0 .. OverflowCompactMax
  /\ asMishaps \in 0 .. MaxMishaps /\ asStreak \in Nat
  /\ asSignals \subseteq {"abort", "host", "disposed"}
  /\ \A c \in DOMAIN asSpans : asSpans[c] \in Nat
  /\ asGeneration \in 0 .. MaxSends

(* createTurnToolBudget: no send executes exploring tools in more turns    *)
(* than maxToolRounds, across retries and compactions of that send.        *)
ExploredWithinBudget == asSend.explored <= MaxToolRounds

(* The reserved terminal tool keeps a turn of its own: a send that spent   *)
(* its exploring rounds and ends normally tried the reserved tool, or gave *)
(* the model a turn after the last round (unless repetition stopped it).   *)
ReservedTurnOffered ==
  (/\ asSend.end \in Succeeded /\ asSend.reserved /\ ~asSend.repeated
   /\ asSend.budget.rounds >= MaxToolRounds)
    => asSend.budget.attempts >= 1 \/ asSend.offered

(* A send that reports success leaves its prompt in the transcript, before *)
(* its last answer, even when a compaction summarised the prompt away      *)
(* (unless an abandoned loop of an earlier send was absorbed meanwhile).   *)
PromptKept ==
  [][\A no \in 1..MaxSends :
       (/\ asSend.no = no /\ asSend.at = "recover" /\ ~asSend.disturbed
        /\ asSend'.at = "idle" /\ asSend'.end \in Succeeded)
         => \E i \in DOMAIN asTranscript' :
              asTranscript'[i] = PromptOf(no) /\ i < Len(asTranscript')]_sessionVars

(* findSafeCutIndex and absorbProducedMessages never leave a tool result   *)
(* without the call it answers right before it: providers refuse such a    *)
(* transcript.                                                             *)
ResultsFollowCalls ==
  \A i \in DOMAIN asTranscript : asTranscript[i].kind = "result" =>
    i > 1 /\ asTranscript[i - 1] = Message("call", asTranscript[i].id)

(* sessionTrace: every tool span is emitted at most once, whoever ends the *)
(* tool, and once the session is disposed none is left open, not even by a *)
(* loop that returns later.                                                *)
SpansClosedOnce ==
  /\ \A c \in DOMAIN asSpans : asSpans[c] <= 1
  /\ "disposed" \in asSignals => asGeneration = 0 /\ \A c \in DOMAIN asSpans : asSpans[c] = 1

(* Whatever the provider does, also when it hangs, fails for ever or keeps *)
(* calling tools, every send ends.                                         *)
SendEnds == \A no \in 1..MaxSends : (asSend.no = no) ~> (asSend.no = no /\ asSend.at = "idle")

\* What a session promises its sends: exploration within the budget and a turn left for
\* the answer, every prompt in the transcript, every result after its call, every span
\* closed once.
SessionSound ==
  /\ [](/\ SessionTypeOK
        /\ ExploredWithinBudget /\ ReservedTurnOffered
        /\ ResultsFollowCalls /\ SpansClosedOnce)
  /\ PromptKept

=============================================================================
