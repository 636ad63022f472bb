---------------------------- MODULE MCPublishing ----------------------------
(***************************************************************************)
(* What a pull request is shown: the orchestrated review and its own verdict,*)
(* the progress comment, the CI cell, the findings and the triage replies. *)
(*                                                                         *)
(* They share no state here, so `focus` picks the one that moves and the   *)
(* others stay in their initial states: the runs of all of them are        *)
(* explored, their product is not.                                         *)
(***************************************************************************)
EXTENDS ReviewVerdict, ProgressComment, FindingIdentity, HeadCi, Triage, OrchestratedReview

CONSTANT PublishingParts   \* the components explored

VARIABLE focus

publishingVars ==
  <<focus, verdictVars, progressVars, findingVars, headCiVars, triageVars, orchestratedVars>>

-----------------------------------------------------------------------------
(* Instances *)

MCPublished == {<<TRUE, "failure">>, <<FALSE, "neutral">>}
MCFirstSeverities == {<<"lo", "hi">>}

-----------------------------------------------------------------------------
PublishingInit ==
  /\ focus \in PublishingParts
  /\ VerdictInit /\ ProgressInit /\ FindingInit /\ HeadCiInit /\ TriageInit
  /\ OrchestratedInit
  /\ focus # "triage" => ~tgPr.fork

PublishingNext ==
  \/ /\ focus = "verdict" /\ VerdictNext
     /\ UNCHANGED <<focus, progressVars, findingVars, headCiVars, triageVars, orchestratedVars>>
  \/ /\ focus = "progress" /\ ProgressNext
     /\ UNCHANGED <<focus, verdictVars, findingVars, headCiVars, triageVars, orchestratedVars>>
  \/ /\ focus = "finding" /\ FindingNext
     /\ UNCHANGED <<focus, verdictVars, progressVars, headCiVars, triageVars, orchestratedVars>>
  \/ /\ focus = "ci" /\ HeadCiNext
     /\ UNCHANGED <<focus, verdictVars, progressVars, findingVars, triageVars, orchestratedVars>>
  \/ /\ focus = "triage" /\ TriageNext
     /\ UNCHANGED <<focus, verdictVars, progressVars, findingVars, headCiVars, orchestratedVars>>
  \/ /\ focus = "review" /\ OrchestratedNext
     /\ UNCHANGED <<focus, verdictVars, progressVars, findingVars, headCiVars, triageVars>>

PublishingSpec == PublishingInit /\ [][PublishingNext]_publishingVars

=============================================================================
