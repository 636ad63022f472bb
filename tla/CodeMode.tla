------------------------------ MODULE CodeMode ------------------------------
(***************************************************************************)
(* Code Mode: scripts that a model writes run in a QuickJS cell, in a      *)
(* worker thread leased from a small pool, and call the workspace tools    *)
(* through a bridge on the host (src/src/agent/codemode, agent/execution). *)
(* Scripts of one agent session share an explicit state; a cancelled or    *)
(* timed-out script retires the session's generation so that it cannot     *)
(* write that state any more.                                              *)
(*                                                                         *)
(* Scripts of one session normally follow one another.  They overlap when  *)
(* a turn loop that was given up (idle timeout) still runs its tool call   *)
(* beside the retry's, so the model lets any two overlap.                  *)
(***************************************************************************)
EXTENDS Integers, Sequences, FiniteSets

CONSTANTS Scripts,           \* calls of the execute tool
          SessionOf,         \* the agent session a script belongs to
          PoolSize,          \* CODE_MODE_EXECUTOR_POOL_SIZE
          QueueLength,       \* CODE_MODE_EXECUTOR_QUEUE_LENGTH
          HostInFlight,      \* CODE_MODE_HOST_IN_FLIGHT
          MaxToolCalls,      \* CODE_MODE_MAX_TOOL_CALLS
          CallsOf,           \* bound: host calls a script's guest tries to make
          CancelledScripts   \* bound: scripts whose host signal may fire

ASSUME CodeModeAssumption ==
    /\ SessionOf \in [Scripts -> STRING]
    /\ {PoolSize, HostInFlight, MaxToolCalls} \subseteq Nat \ {0}
    /\ QueueLength \in Nat
    /\ CallsOf \in [Scripts -> Nat]
    /\ CancelledScripts \subseteq Scripts

CodeSessions == {SessionOf[s] : s \in Scripts}
GuestCalls == UNION {1 .. CallsOf[s] : s \in Scripts}

VARIABLES cmActive,    \* leases the pool counts
          cmWaiters,   \* scripts waiting for a lease, in order
          cmStore,     \* the explicit state of each session
          cmScript,    \* where each script is
          cmCalls,     \* where each of its host calls is
          cmBridge     \* its capability bridge: admitted, in flight, waiting

codeModeVars == <<cmActive, cmWaiters, cmStore, cmScript, cmCalls, cmBridge>>

(* A store: which scripts' updates its data holds, under which generation  *)
(* and revision, and whether it admits host calls.                         *)
SessionStore == [generation : Nat, revision : Nat,
                 data : SUBSET Scripts, admissionOpen : BOOLEAN]

(* pc: idle, waiting for an executor, running a cell, closing its worker,  *)
(* done.  base and cell are what the cell was given and what it returned.  *)
ScriptAt == [pc : {"idle", "waiting", "cell", "closing", "done"},
             generation : Nat, revision : Nat, base : SUBSET Scripts,
             cancelled : BOOLEAN, timedOut : BOOLEAN,
             cell : {"none", "ok"} \cup
                    {"CANCELLED", "TIMEOUT", "LIMIT_EXCEEDED",
                     "EXECUTION_ERROR", "EXECUTION_BUDGET_EXCEEDED"},
             result : {"none", "ok", "CANCELLED", "TIMEOUT", "LIMIT_EXCEEDED",
                       "EXECUTION_ERROR", "EXECUTION_BUDGET_EXCEEDED"}]

CallStages == {"none", "posted", "queued", "executing", "halted", "answered"}

CodeModeTypeOK ==
    /\ cmActive \in 0 .. PoolSize
    /\ cmWaiters \in Seq(Scripts)
    /\ cmStore \in [CodeSessions -> SessionStore]
    /\ cmScript \in [Scripts -> ScriptAt]
    /\ cmCalls \in [Scripts -> [GuestCalls -> CallStages]]
    /\ cmBridge \in [Scripts -> [admitted : Nat, inFlight : Nat,
                                 waiters : Seq(GuestCalls)]]

CodeModeInit ==
    /\ cmActive = 0
    /\ cmWaiters = <<>>
    /\ cmStore = [n \in CodeSessions |->
                    [generation |-> 1, revision |-> 0, data |-> {},
                     admissionOpen |-> TRUE]]
    /\ cmScript = [s \in Scripts |->
                    [pc |-> "idle", generation |-> 0, revision |-> 0,
                     base |-> {}, cancelled |-> FALSE, timedOut |-> FALSE,
                     cell |-> "none", result |-> "none"]]
    /\ cmCalls = [s \in Scripts |-> [c \in GuestCalls |-> "none"]]
    /\ cmBridge = [s \in Scripts |->
                    [admitted |-> 0, inFlight |-> 0, waiters |-> <<>>]]

-----------------------------------------------------------------------------
(* The session store                                                       *)

StoreOf(s) == cmStore[SessionOf[s]]

(* isCurrent: the generation the script started under still admits calls.  *)
isCurrent(s) == /\ StoreOf(s).generation = cmScript[s].generation
                /\ StoreOf(s).admissionOpen

invalidate(store) == [store EXCEPT !.admissionOpen = FALSE,
                                   !.generation = @ + 1]

Committable_NoRevision(s) == StoreOf(s).generation = cmScript[s].generation

Committable_NoGeneration(s) == StoreOf(s).revision = cmScript[s].revision

Committable(s) == /\ StoreOf(s).generation = cmScript[s].generation
                  /\ StoreOf(s).revision = cmScript[s].revision

(* commit replaces the data by what the cell made of the data it was given *)
committed(s) == [StoreOf(s) EXCEPT !.data = cmScript[s].base \cup {s},
                                   !.revision = @ + 1]

-----------------------------------------------------------------------------
(* The executor pool                                                       *)

Without(waiters, s) == SelectSeq(waiters, LAMBDA w : w # s)

(* A cell starts on the state the session has when its lease arrives, not  *)
(* when the script took its revision.                                      *)
StartCell(record, store) == [record EXCEPT !.pc = "cell", !.base = store.data]

(* releaseSlot hands the lease to the first waiter, or gives it back.      *)
releaseSlot(scripts) ==
    IF cmWaiters # <<>>
    THEN /\ cmWaiters' = Tail(cmWaiters)
         /\ cmScript' = [scripts EXCEPT
                           ![Head(cmWaiters)] = StartCell(@, StoreOf(Head(cmWaiters)))]
         /\ UNCHANGED cmActive
    ELSE /\ cmActive' = cmActive - 1
         /\ cmScript' = scripts
         /\ UNCHANGED cmWaiters

Ended(record, result) == [record EXCEPT !.pc = "done", !.result = result]

(* acquireExecutor: a free executor, a place in the queue, or the refusal  *)
(* of a full one.                                                          *)
acquireExecutor(s, record) ==
    \/ /\ cmActive < PoolSize
       /\ cmActive' = cmActive + 1
       /\ cmScript' = [cmScript EXCEPT ![s] = StartCell(record, StoreOf(s))]
       /\ UNCHANGED cmWaiters
    \/ /\ cmActive >= PoolSize
       /\ Len(cmWaiters) < QueueLength
       /\ cmWaiters' = Append(cmWaiters, s)
       /\ cmScript' = [cmScript EXCEPT ![s] = [record EXCEPT !.pc = "waiting"]]
       /\ UNCHANGED cmActive
    \/ /\ cmActive >= PoolSize
       /\ Len(cmWaiters) >= QueueLength
       /\ cmScript' = [cmScript EXCEPT ![s] = Ended(record, "LIMIT_EXCEEDED")]
       /\ UNCHANGED <<cmActive, cmWaiters>>

LeavesQueue_Stays(s) == UNCHANGED cmWaiters

(* What the queue forgets when a waiter gives up: its own place.           *)
LeavesQueue(s) == cmWaiters' = Without(cmWaiters, s)

(* Ten seconds without a lease.                                            *)
PoolWaitTimesOut(s) ==
    /\ cmScript[s].pc = "waiting"
    /\ LeavesQueue(s)
    /\ cmScript' = [cmScript EXCEPT ![s] = Ended(@, "TIMEOUT")]
    /\ UNCHANGED <<cmActive, cmStore, cmCalls, cmBridge>>

-----------------------------------------------------------------------------
(* runCodeModeScript                                                       *)

StartScript(s) ==
    /\ cmScript[s].pc = "idle"
    /\ IF cmScript[s].cancelled
       THEN /\ cmStore' = [cmStore EXCEPT ![SessionOf[s]] = invalidate(@)]
            /\ cmScript' = [cmScript EXCEPT ![s] = Ended(@, "CANCELLED")]
            /\ UNCHANGED <<cmActive, cmWaiters>>
       ELSE /\ cmStore' = [cmStore EXCEPT ![SessionOf[s]].admissionOpen = TRUE]
            /\ acquireExecutor(s, [cmScript[s] EXCEPT
                                     !.generation = StoreOf(s).generation,
                                     !.revision = StoreOf(s).revision])
    /\ UNCHANGED <<cmCalls, cmBridge>>

(* Bridge waiters are rejected by the host's signal and stay in the array, *)
(* where a release may still shift them: nobody is left to wake.           *)
RejectedByHost(calls) ==
    [c \in GuestCalls |-> IF calls[c] = "queued" THEN "halted" ELSE calls[c]]

AbortsCell_PostOnly(record) == record

(* runInWorker's onAbort: the worker is told, and the completion fails     *)
(* without waiting for it.                                                 *)
AbortsCell(record) == [record EXCEPT !.pc = "closing", !.cell = "CANCELLED"]

(* The host's signal or the wall clock fires: the session's generation is  *)
(* retired, a waiter leaves the queue, and a cell's completion fails with  *)
(* hostCancelHalt, whichever of the two fired.                             *)
SignalFires(s, record) ==
    /\ cmStore' = [cmStore EXCEPT ![SessionOf[s]] = invalidate(@)]
    /\ \/ /\ record.pc = "waiting"
          /\ LeavesQueue(s)
          /\ cmScript' = [cmScript EXCEPT ![s] = Ended(record, "CANCELLED")]
       \/ /\ record.pc = "cell"
          /\ cmScript' = [cmScript EXCEPT ![s] = AbortsCell(record)]
          /\ UNCHANGED cmWaiters
       \/ /\ record.pc = "closing"
          /\ cmScript' = [cmScript EXCEPT ![s] = record]
          /\ UNCHANGED cmWaiters
    /\ UNCHANGED <<cmActive, cmBridge>>

Fired(s) == cmScript[s].cancelled \/ cmScript[s].timedOut

HostCancels(s) ==
    /\ s \in CancelledScripts
    /\ ~cmScript[s].cancelled
    /\ IF cmScript[s].pc = "idle"
       THEN /\ cmScript' = [cmScript EXCEPT ![s].cancelled = TRUE]
            /\ UNCHANGED <<cmActive, cmWaiters, cmStore, cmCalls, cmBridge>>
       ELSE /\ ~Fired(s)
            /\ SignalFires(s, [cmScript[s] EXCEPT !.cancelled = TRUE])
            /\ cmCalls' = [cmCalls EXCEPT ![s] = RejectedByHost(@)]

(* The 15 second wall clock.  The bridge does not listen to it.            *)
WallClockFires(s) ==
    /\ cmScript[s].pc \in {"waiting", "cell", "closing"}
    /\ ~Fired(s)
    /\ SignalFires(s, [cmScript[s] EXCEPT !.timedOut = TRUE])
    /\ UNCHANGED cmCalls

(* What the caller is told of a cell that did not succeed.                 *)
FailureOf(s) ==
    IF cmScript[s].cancelled THEN "CANCELLED" ELSE cmScript[s].cell

(* worker.terminate() has returned: commit or report, and free the lease.  *)
WorkerClosed(s) ==
    /\ cmScript[s].pc = "closing"
    /\ LET record == cmScript[s]
       IN  \/ /\ record.cell # "ok"
              /\ releaseSlot([cmScript EXCEPT ![s] = Ended(record, FailureOf(s))])
              /\ UNCHANGED cmStore
           \/ /\ record.cell = "ok"
              /\ ~Committable(s)
              /\ releaseSlot([cmScript EXCEPT
                   ![s] = Ended(record, IF record.cancelled
                                        THEN "CANCELLED" ELSE "EXECUTION_ERROR")])
              /\ UNCHANGED cmStore
           \/ /\ record.cell = "ok"
              /\ Committable(s)
              /\ cmStore' = [cmStore EXCEPT ![SessionOf[s]] = committed(s)]
              /\ releaseSlot([cmScript EXCEPT ![s] = Ended(record, "ok")])
    /\ UNCHANGED <<cmCalls, cmBridge>>

-----------------------------------------------------------------------------
(* The guest, in its worker                                                *)

(* The guest calls a tool: a message for the host.  What it does with the  *)
(* answer is its own business and changes nothing here.                    *)
GuestCallsTool(s, c) ==
    /\ cmScript[s].pc = "cell"
    /\ c <= CallsOf[s]
    /\ cmCalls[s][c] = "none"
    /\ \A d \in GuestCalls : d < c => cmCalls[s][d] # "none"
    /\ cmCalls' = [cmCalls EXCEPT ![s][c] = "posted"]
    /\ UNCHANGED <<cmActive, cmWaiters, cmStore, cmScript, cmBridge>>

(* How a guest that was not halted ends: its value, or a failure (syntax,  *)
(* heap, allocation, interrupt budget), one code standing for them all.    *)
GuestOutcomes == {"ok", "EXECUTION_BUDGET_EXCEEDED"}

(* A halt travels to the worker as itself and ends the cell whatever the   *)
(* script does with its promise.                                           *)
Halts(s) == \E c \in GuestCalls : cmCalls[s][c] = "halted"

CellOutcome(s, guest) == IF Halts(s) THEN "LIMIT_EXCEEDED" ELSE guest

(* The "done" message; messages of one worker arrive in order, so every    *)
(* call it posted before has arrived.                                      *)
CellDone(s) ==
    /\ cmScript[s].pc = "cell"
    /\ \A c \in GuestCalls : cmCalls[s][c] # "posted"
    /\ \E guest \in GuestOutcomes :
          cmScript' = [cmScript EXCEPT ![s].pc = "closing",
                                       ![s].cell = CellOutcome(s, guest)]
    /\ UNCHANGED <<cmActive, cmWaiters, cmStore, cmCalls, cmBridge>>

(* The worker dies before it answers.                                      *)
WorkerExits(s) ==
    /\ cmScript[s].pc = "cell"
    /\ cmScript' = [cmScript EXCEPT ![s].pc = "closing",
                                    ![s].cell = "EXECUTION_ERROR"]
    /\ UNCHANGED <<cmActive, cmWaiters, cmStore, cmCalls, cmBridge>>

-----------------------------------------------------------------------------
(* The capability bridge, on the host                                      *)

(* A posted call arrives: refused when its generation is retired or the    *)
(* host gave up, halted over the budget, else admitted; it executes when   *)
(* fewer than HostInFlight do and waits otherwise.                         *)
invoke(s, c) ==
    /\ cmScript[s].pc \in {"cell", "closing"}
    /\ cmCalls[s][c] = "posted"
    /\ \/ /\ ~isCurrent(s)
          /\ cmCalls' = [cmCalls EXCEPT ![s][c] = "answered"]
          /\ UNCHANGED cmBridge
       \/ /\ isCurrent(s)
          /\ cmBridge[s].admitted >= MaxToolCalls
          /\ cmCalls' = [cmCalls EXCEPT ![s][c] = "halted"]
          /\ UNCHANGED cmBridge
       \/ /\ isCurrent(s)
          /\ cmBridge[s].admitted < MaxToolCalls
          /\ IF cmBridge[s].inFlight >= HostInFlight
             THEN /\ cmBridge' = [cmBridge EXCEPT ![s].admitted = @ + 1,
                                                  ![s].waiters = Append(@, c)]
                  /\ cmCalls' = [cmCalls EXCEPT ![s][c] = "queued"]
             ELSE /\ cmBridge' = [cmBridge EXCEPT ![s].admitted = @ + 1,
                                                  ![s].inFlight = @ + 1]
                  /\ cmCalls' = [cmCalls EXCEPT ![s][c] = "executing"]
    /\ UNCHANGED <<cmActive, cmWaiters, cmStore, cmScript>>

releaseInFlight_NoWake(bridge, calls) == [bridge EXCEPT !.inFlight = @ - 1]

(* releaseInFlight: the first waiter is shifted; a live one takes the      *)
(* place before anything else runs.                                        *)
releaseInFlight(bridge, calls) ==
    IF bridge.waiters = <<>>
    THEN [bridge EXCEPT !.inFlight = @ - 1]
    ELSE [bridge EXCEPT !.waiters = Tail(@),
                        !.inFlight = IF calls[Head(bridge.waiters)] = "queued"
                                     THEN @ ELSE @ - 1]

Woken(bridge, calls) ==
    [c \in GuestCalls |->
        IF bridge.waiters # <<>> /\ c = Head(bridge.waiters)
             /\ calls[c] = "queued"
        THEN "executing" ELSE calls[c]]

(* The executor returns or throws; the answer is posted either way.  It    *)
(* may outlive its cell and its script.                                    *)
ToolReturns(s, c) ==
    /\ cmCalls[s][c] = "executing"
    /\ cmBridge' = [cmBridge EXCEPT ![s] = releaseInFlight(@, cmCalls[s])]
    /\ cmCalls' = [cmCalls EXCEPT
                     ![s] = [Woken(cmBridge[s], @) EXCEPT ![c] = "answered"]]
    /\ UNCHANGED <<cmActive, cmWaiters, cmStore, cmScript>>

-----------------------------------------------------------------------------
ScriptStep(s) ==
    \/ StartScript(s)
    \/ PoolWaitTimesOut(s)
    \/ HostCancels(s)
    \/ WallClockFires(s)
    \/ WorkerClosed(s)
    \/ CellDone(s)
    \/ WorkerExits(s)
    \/ \E c \in GuestCalls :
          GuestCallsTool(s, c) \/ invoke(s, c) \/ ToolReturns(s, c)

CodeModeNext == \E s \in Scripts : ScriptStep(s)

CodeModeSpec == CodeModeInit /\ [][CodeModeNext]_codeModeVars

(* The timers of the host run, and a terminated worker is reported.        *)
CodeModeFair ==
    \A s \in Scripts : /\ WF_codeModeVars(PoolWaitTimesOut(s))
                       /\ WF_codeModeVars(WallClockFires(s))
                       /\ WF_codeModeVars(WorkerClosed(s))

-----------------------------------------------------------------------------
(* Properties                                                              *)

(* The pool counts exactly the leases in use, hands none to a waiter that  *)
(* gave up, and keeps nobody waiting beside a free executor, whatever      *)
(* timeouts, aborts and hand-overs interleave (pool.ts).                   *)
SlotsExact ==
    /\ cmActive = Cardinality({s \in Scripts :
                                 cmScript[s].pc \in {"cell", "closing"}})
    /\ cmWaiters # <<>> => cmActive = PoolSize
    /\ {cmWaiters[i] : i \in DOMAIN cmWaiters}
         = {s \in Scripts : cmScript[s].pc = "waiting"}

(* A script is told it succeeded exactly when the session's state holds    *)
(* its update, and keeps holding it: no other script of the session, no    *)
(* abort between its last message and the commit, makes the two differ     *)
(* (runScript.ts, sessionStore.ts).                                        *)
SuccessIsCommitted ==
    \A s \in Scripts : cmScript[s].result = "ok" <=> s \in StoreOf(s).data

(* A script whose host cancelled it before it committed never writes the   *)
(* session's state (runScript.ts onAbort, sessionStore.ts commit).         *)
CancelledWritesNothing ==
    [][\A s \in Scripts :
          Fired(s) => (s \in StoreOf(s).data' <=> s \in StoreOf(s).data)
      ]_codeModeVars

(* The bridge runs at most HostInFlight tools of one script, counts them   *)
(* exactly, and never leaves a live call waiting beside a free place       *)
(* (capabilities.ts acquireInFlight, releaseInFlight).                     *)
BridgeExact ==
    \A s \in Scripts :
        /\ cmBridge[s].inFlight
             = Cardinality({c \in GuestCalls : cmCalls[s][c] = "executing"})
        /\ (\E c \in GuestCalls : cmCalls[s][c] = "queued")
             => cmBridge[s].inFlight = HostInFlight

(* Every started script ends, though a guest may spin, a worker may never  *)
(* answer and a tool may never return: the pool's and the cell's timers    *)
(* are enough (pool.ts, runScript.ts).                                     *)
ScriptsEnd ==
    \A s \in Scripts :
        (cmScript[s].pc \in {"waiting", "cell", "closing"})
            ~> (cmScript[s].pc = "done")

(* What the pool, the store and the bridge promise: slots and host calls   *)
(* are counted exactly, a script succeeds when and only when its state is  *)
(* committed, and a cancelled one writes nothing.                          *)
CellsSound ==
  /\ [](CodeModeTypeOK /\ SlotsExact /\ SuccessIsCommitted /\ BridgeExact)
  /\ CancelledWritesNothing

=============================================================================
