----------------------------- MODULE GitProcess -----------------------------
(***************************************************************************)
(* One git command run by the service (src/src/prWorkspace/gitProcess.ts,  *)
(* runGitProcess).  Git leads a process group of its own; a helper it      *)
(* starts may stay in the group or leave it, keep the pipes open, ignore   *)
(* SIGTERM, or be beyond the reach of signals.  The call settles once,     *)
(* after exit and close, or after a timeout or an output limit has driven  *)
(* the group through SIGTERM, SIGKILL and a last confirmation.             *)
(*                                                                         *)
(* Timers fire at any time after they are armed; the two grace deadlines   *)
(* pass at any time.                                                       *)
(***************************************************************************)
EXTENDS Naturals, FiniteSets

CONSTANT HelperKinds    \* [group, pipes, reachable : BOOLEAN] of a helper

ASSUME GitProcessAssumption ==
    HelperKinds \subseteq [group : BOOLEAN, pipes : BOOLEAN, reachable : BOOLEAN]

VARIABLES gpCall,    \* the state runGitProcess keeps
          gpWorld    \* the processes: alive, dying or gone

gitProcessVars == <<gpCall, gpWorld>>

Lives == {"none", "running", "dying", "gone"}

GitProcessTypeOK ==
    /\ gpCall \in [spawned : BOOLEAN, spawnError : BOOLEAN, exited : BOOLEAN,
                   closed : BOOLEAN, timedOut : BOOLEAN, limited : BOOLEAN,
                   killed : BOOLEAN, late : BOOLEAN, settled : BOOLEAN,
                   term : {"new", "idle", "running", "complete", "failed"},
                   timers : SUBSET {"timeout", "watch", "confirm", "assume_exit"}]
    /\ gpWorld \in [leader : Lives, helper : Lives,
                    kind : [group : BOOLEAN, pipes : BOOLEAN, reachable : BOOLEAN]]

NewCall == [spawned |-> FALSE, spawnError |-> FALSE, exited |-> FALSE,
            closed |-> FALSE, timedOut |-> FALSE, limited |-> FALSE,
            killed |-> FALSE, late |-> FALSE, settled |-> FALSE,
            term |-> "new", timers |-> {}]

GitProcessInit ==
    /\ gpCall = NewCall
    /\ gpWorld = [leader |-> "none", helper |-> "none",
                  kind |-> [group |-> TRUE, pipes |-> TRUE, reachable |-> TRUE]]

-----------------------------------------------------------------------------
(* Processes and signals                                                   *)

Present(life) == life \in {"running", "dying"}

HelperInGroup(w) == w.kind.group /\ Present(w.helper)

GroupAnswers(w) == Present(w.leader) \/ HelperInGroup(w)

Reachable(w) == Present(w.leader) \/ (HelperInGroup(w) /\ w.kind.reachable)

(* signalGroup: kill(2) on the group fails with ESRCH when nobody is left  *)
(* and with EPERM when nobody left may be signalled.                       *)
signalGroup(w) == IF ~GroupAnswers(w) THEN "gone"
                  ELSE IF Reachable(w) THEN "delivered" ELSE "error"

Hit(life) == IF life = "running" THEN "dying" ELSE life

(* SIGTERM may be ignored by anyone; SIGKILL by nobody it reaches.         *)
AfterTerm(w) ==
    {[w EXCEPT !.leader = lives[1], !.helper = lives[2]] : lives \in
        {w.leader, Hit(w.leader)}
        \X ({w.helper} \cup (IF w.kind.group /\ w.kind.reachable
                             THEN {Hit(w.helper)} ELSE {}))}

AfterKill(w) ==
    [w EXCEPT !.leader = Hit(w.leader),
              !.helper = IF w.kind.group /\ w.kind.reachable THEN Hit(@) ELSE @]

(* runGitProcess: git is spawned, or cannot be; the timeout is armed.      *)
runGitProcess(started, kind) ==
    /\ gpCall = NewCall
    /\ gpCall' = [NewCall EXCEPT !.spawned = started, !.term = "idle",
                                 !.timers = IF started THEN {"timeout"} ELSE {}]
    /\ gpWorld' = [leader |-> IF started THEN "running" ELSE "none",
                   helper |-> "none", kind |-> kind]

(* The pipes stay open while somebody holds their other end.               *)
PipesHeld(w) == Present(w.leader) \/ (w.kind.pipes /\ Present(w.helper))

LeaderForks ==
    /\ gpWorld.leader = "running" /\ gpWorld.helper = "none"
    /\ gpWorld' = [gpWorld EXCEPT !.helper = "running"]
    /\ UNCHANGED gpCall

LeaderEnds == /\ Present(gpWorld.leader)
              /\ gpWorld' = [gpWorld EXCEPT !.leader = "gone"]
              /\ UNCHANGED gpCall

HelperEnds == /\ Present(gpWorld.helper)
              /\ gpWorld' = [gpWorld EXCEPT !.helper = "gone"]
              /\ UNCHANGED gpCall

-----------------------------------------------------------------------------
(* Settling                                                                *)

settle(c) == [c EXCEPT !.settled = TRUE, !.timers = {}]

SettleDue_ExitOnly(c) ==
    \/ ~c.spawned /\ c.spawnError
    \/ c.term = "failed"
    \/ c.term \in {"idle", "complete"} /\ c.exited

(* maybeSettle waits for a termination under way, for the exit after a     *)
(* complete one, and for exit and close when there was none.               *)
SettleDue(c) ==
    \/ ~c.spawned /\ c.spawnError
    \/ c.term = "failed"
    \/ c.term = "complete" /\ c.exited
    \/ c.term = "idle" /\ c.exited /\ c.closed

maybeSettle(c) == IF ~c.settled /\ SettleDue(c) THEN settle(c) ELSE c

(* finishTermination arms a last timer when the exit event is still out.   *)
finishTermination(c, outcome) ==
    maybeSettle([c EXCEPT !.term = outcome,
                          !.timers = IF outcome = "complete" /\ ~c.exited
                                     THEN {"assume_exit"} ELSE {}])

(* terminate: SIGTERM to the group, then a watch on it.                    *)
terminate(c) ==
    IF ~c.spawned \/ c.term # "idle" \/ c.settled
    THEN gpCall' = c /\ UNCHANGED gpWorld
    ELSE \/ /\ signalGroup(gpWorld) = "gone"
            /\ gpCall' = finishTermination(c, "complete")
            /\ UNCHANGED gpWorld
         \/ /\ signalGroup(gpWorld) = "error"
            /\ gpCall' = finishTermination(c, "failed")
            /\ UNCHANGED gpWorld
         \/ /\ signalGroup(gpWorld) = "delivered"
            /\ gpCall' = [c EXCEPT !.term = "running", !.timers = {"watch"},
                                   !.killed = c.timedOut \/ c.limited]
            /\ gpWorld' \in AfterTerm(gpWorld)

EscalatedWorld_TermAgain(w) == w

(* escalate: SIGKILL, and a poll until the group is gone or a second       *)
(* deadline passes.                                                        *)
EscalatedWorld(w) == AfterKill(w)

escalate(c) ==
    /\ gpCall' = [c EXCEPT !.timers = {"confirm"}, !.late = FALSE]
    /\ gpWorld' = EscalatedWorld(gpWorld)

-----------------------------------------------------------------------------
(* Timers                                                                  *)

watchGrace ==
    /\ "watch" \in gpCall.timers
    /\ \/ /\ signalGroup(gpWorld) = "gone"
          /\ gpCall' = finishTermination(gpCall, "complete")
          /\ UNCHANGED gpWorld
       \/ /\ signalGroup(gpWorld) = "error"
          /\ gpCall' = finishTermination(gpCall, "failed")
          /\ UNCHANGED gpWorld
       \/ /\ signalGroup(gpWorld) = "delivered"
          /\ gpCall.late
          /\ escalate(gpCall)

(* At its deadline confirmGone reports a group that still answers as       *)
(* complete.                                                               *)
confirmGone ==
    /\ "confirm" \in gpCall.timers
    /\ \/ /\ signalGroup(gpWorld) = "gone"
          /\ gpCall' = finishTermination(gpCall, "complete")
       \/ /\ signalGroup(gpWorld) = "error"
          /\ gpCall' = finishTermination(gpCall, "failed")
       \/ /\ signalGroup(gpWorld) = "delivered"
          /\ gpCall.late
          /\ gpCall' = finishTermination(gpCall, "complete")
    /\ UNCHANGED gpWorld

DeadlinePasses ==
    /\ ~gpCall.late
    /\ gpCall.timers \cap {"watch", "confirm"} # {}
    /\ gpCall' = [gpCall EXCEPT !.late = TRUE]
    /\ UNCHANGED gpWorld

ExitAssumed ==
    /\ "assume_exit" \in gpCall.timers
    /\ gpCall' = maybeSettle([gpCall EXCEPT !.exited = TRUE, !.timers = {}])
    /\ UNCHANGED gpWorld

TimeoutArmed_UntilExit == "timeout" \in gpCall.timers /\ ~gpCall.exited

TimeoutArmed == "timeout" \in gpCall.timers

CallTimesOut ==
    /\ TimeoutArmed
    /\ terminate([gpCall EXCEPT !.timers = @ \ {"timeout"},
                                !.timedOut = gpCall.term = "idle" /\ ~gpCall.settled])

-----------------------------------------------------------------------------
(* Events of the child                                                     *)

(* collect: a chunk that does not fit ends the call.                       *)
OutputOverflows ==
    /\ PipesHeld(gpWorld)
    /\ ~gpCall.settled /\ ~gpCall.limited /\ ~gpCall.closed
    /\ terminate([gpCall EXCEPT !.limited = TRUE])

SpawnFails ==
    /\ gpCall.term = "idle" /\ ~gpCall.spawned /\ ~gpCall.spawnError
    /\ gpCall' = maybeSettle([gpCall EXCEPT !.spawnError = TRUE, !.closed = TRUE])
    /\ UNCHANGED gpWorld

(* exit is emitted before close.                                           *)
onExit ==
    /\ gpCall.spawned /\ ~Present(gpWorld.leader)
    /\ ~gpCall.exited
    /\ gpCall' = maybeSettle([gpCall EXCEPT !.exited = TRUE])
    /\ UNCHANGED gpWorld

(* close probes the group: a helper that let go of the pipes is terminated *)
(* before the call settles.                                                *)
LeftoverProbed == /\ gpCall.term = "idle" /\ ~gpCall.settled
                  /\ signalGroup(gpWorld) = "delivered"

onClose ==
    /\ gpCall.spawned /\ gpCall.exited /\ ~gpCall.closed
    /\ ~PipesHeld(gpWorld)
    /\ LET c == [gpCall EXCEPT !.closed = TRUE]
       IN  IF LeftoverProbed THEN terminate(c)
           ELSE gpCall' = maybeSettle(c) /\ UNCHANGED gpWorld

GitProcessNext ==
    \/ \E started \in BOOLEAN, kind \in HelperKinds : runGitProcess(started, kind)
    \/ LeaderForks \/ LeaderEnds \/ HelperEnds
    \/ watchGrace \/ confirmGone \/ DeadlinePasses \/ ExitAssumed
    \/ CallTimesOut \/ OutputOverflows \/ SpawnFails \/ onExit \/ onClose

GitProcessSpec == GitProcessInit /\ [][GitProcessNext]_gitProcessVars

(* Node fires armed timers and delivers the child's events.  Nothing is    *)
(* assumed of the processes, which may never end.                          *)
GitProcessFair ==
    /\ WF_gitProcessVars(watchGrace \/ confirmGone \/ DeadlinePasses)
    /\ WF_gitProcessVars(ExitAssumed)
    /\ WF_gitProcessVars(CallTimesOut)
    /\ WF_gitProcessVars(SpawnFails \/ onExit)

-----------------------------------------------------------------------------
(* Properties                                                              *)

(* A settled call whose clean-up did not fail leaves no process of its     *)
(* group running untouched: each is gone or was sent SIGKILL (or died of   *)
(* SIGTERM).  A helper nobody may signal is the exception the code cannot  *)
(* help (runGitProcess, escalate, close).                                  *)
NoOrphanInGroup ==
    gpCall.settled /\ gpCall.term # "failed" =>
        /\ gpWorld.leader # "running"
        /\ ~(HelperInGroup(gpWorld) /\ gpWorld.helper = "running"
             /\ gpWorld.kind.reachable)

(* A result that reports neither a timeout nor an output limit nor a       *)
(* failed clean-up holds all the output: it was settled after every holder *)
(* of the pipes was done with them (maybeSettle).                          *)
SuccessIsWhole ==
    (/\ gpCall.settled /\ gpCall.spawned
     /\ ~gpCall.timedOut /\ ~gpCall.limited /\ gpCall.term # "failed")
    => gpCall.closed

(* Every git call settles, although the processes may never end and may    *)
(* ignore SIGTERM: the timeout, the escalation and the last confirmation   *)
(* each have a deadline.                                                   *)
GitCallSettles == (gpCall.term # "new") ~> gpCall.settled

(* What a settled git call promises: nothing of its group runs on, and a   *)
(* success has all of its output.                                          *)
GitSound == GitProcessTypeOK /\ NoOrphanInGroup /\ SuccessIsWhole

=============================================================================
