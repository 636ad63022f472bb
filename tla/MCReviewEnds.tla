---------------------------- MODULE MCReviewEnds ----------------------------
(***************************************************************************)
(* What a review waits for comes to an end: the own verdict, the progress  *)
(* comment, the orchestrated review and the agent session below it, each   *)
(* under the fairness of its module.                                       *)
(*                                                                         *)
(* They share no state here, so `focus` picks the one that moves and the   *)
(* others stay in their initial states: the runs of all of them are        *)
(* explored, their product is not.                                         *)
(***************************************************************************)
EXTENDS ReviewVerdict, ProgressComment, OrchestratedReview, AgentSession

CONSTANT EndsParts   \* the components explored

VARIABLE focus

endsVars ==
  <<focus, verdictVars, progressVars, orchestratedVars, sessionVars>>

-----------------------------------------------------------------------------
(* Instances *)

MCPublished == {<<FALSE, "neutral">>}

-----------------------------------------------------------------------------
EndsInit ==
  /\ focus \in EndsParts
  /\ VerdictInit /\ ProgressInit /\ OrchestratedInit /\ SessionInit

EndsNext ==
  \/ /\ focus = "verdict" /\ VerdictNext
     /\ UNCHANGED <<focus, progressVars, orchestratedVars, sessionVars>>
  \/ /\ focus = "progress" /\ ProgressNext
     /\ UNCHANGED <<focus, verdictVars, orchestratedVars, sessionVars>>
  \/ /\ focus = "review" /\ OrchestratedNext
     /\ UNCHANGED <<focus, verdictVars, progressVars, sessionVars>>
  \/ /\ focus = "session" /\ SessionNext
     /\ UNCHANGED <<focus, verdictVars, progressVars, orchestratedVars>>

\* The fairness of the moving component (VerdictSure, ProgressFair, OrchestratedFair and
\* the host of a session); nothing is asked of the ones that stand.
EndsFair ==
  /\ \A a \in VerdictActors : WF_verdictVars(focus = "verdict" /\ VerdictSure(a))
  /\ \A w \in ProgressWriters : WF_progressVars(focus = "progress" /\ WriterStep(w))
  /\ WF_progressVars(focus = "progress" /\ OtherEnds)
  /\ WF_orchestratedVars(focus = "review" /\ ReviewStepped)
  /\ SF_orchestratedVars(focus = "review" /\ (SendSettles \/ SendDeadline \/ SendAborted))
  /\ WF_sessionVars(focus = "session" /\ HostStep)

EndsSpec == EndsInit /\ [][EndsNext]_endsVars /\ EndsFair

\* A review leaves nothing waiting: every verdict it opened is closed, every comment writer,
\* every attempt and every send of its session comes to its end; the session lock the writers
\* wait for always has a holder who will let it go, and the reserved places are exactly theirs.
ReviewWaitsEnd ==
  []LockSound /\ VerdictCloses /\ WritersEnd /\ AttemptEnds /\ SendEnds

=============================================================================
