------------------------------ MODULE MCServing ------------------------------
(***************************************************************************)
(* From the webhook to the model: intake, ask quota, GitHub access, the    *)
(* rate-limit circuits, the agent session, the cells and searches it uses  *)
(* and what its tools may say of the repository.                           *)
(*                                                                         *)
(* They share no state here, so `focus` picks the one that moves and the   *)
(* others stay in their initial states: the runs of all of them are        *)
(* explored, their product is not.                                         *)
(***************************************************************************)
EXTENDS Intake, AskQuota, GithubAccess, RateLimit, AgentSession, ReadEvidence,
        WorkspaceQueries, CodeMode, WorkspaceSearch

CONSTANT ServingParts   \* the components explored

VARIABLE focus

servingVars ==
  <<focus, intakeVars, quotaVars, accessVars, circuitVars, sessionVars, evidenceVars, queryVars,
    codeModeVars, searchVars>>

-----------------------------------------------------------------------------
(* Instances *)

Features(review, cadence, describe, verification) ==
  [review |-> review, cadence |-> cadence, describe |-> describe, verification |-> verification]
MCFeatureSets == {Features("approval", "every_push", FALSE, FALSE), Features("auto", "once", TRUE, TRUE)}
MCScopesOf == [a \in Asks |-> {Provider, "u1"}]
MCMaxOutstanding == [b \in Buckets |-> 2]
MCBurst == [b \in Buckets |-> 1]
MCAccessRunners == {[id |-> 1, host |-> "h1", kind |-> "review", runs |-> 2],
                    [id |-> 2, host |-> "h1", kind |-> "projector", runs |-> 1]}
MCTexts == UNION {[1 .. n -> {0, 2, 5}] : n \in 1 .. 3} \cup {<<2, 2, 2, 2, 2, 0>>}
MCSessionOf == [s \in Scripts |-> "n1"]
MCCallsOf == [s \in Scripts |-> IF s = "x1" THEN 2 ELSE 0]
MCReaderOf == [x \in Searches |-> IF x = "y3" THEN "k2" ELSE "k1"]
MCQueryTrees ==
  {[p \in QueryPaths |-> [t \in QueryTerms |-> IF t = "a" THEN a[p] ELSE IF p = 1 THEN b ELSE {}]] :
     a \in [QueryPaths -> {{}, {1}, {1, 2}}], b \in {{}, {2}}}

-----------------------------------------------------------------------------
ServingInit ==
  /\ focus \in ServingParts
  /\ IntakeInit /\ QuotaInit /\ AccessInit /\ CircuitInit /\ SessionInit
  /\ ReadEvidenceInit /\ QueryInit /\ CodeModeInit /\ WorkspaceSearchInit
  /\ focus # "intake" => prFeatures.review = "auto"
  /\ prFeatures.review = "auto" => \A m \in prMail : m.trust = "trusted"

ServingNext ==
  \/ /\ focus = "intake" /\ IntakeNext
     /\ UNCHANGED <<focus, quotaVars, accessVars, circuitVars, sessionVars, evidenceVars,
                    queryVars, codeModeVars, searchVars>>
  \/ /\ focus = "quota" /\ QuotaNext
     /\ UNCHANGED <<focus, intakeVars, accessVars, circuitVars, sessionVars, evidenceVars,
                    queryVars, codeModeVars, searchVars>>
  \/ /\ focus = "access" /\ AccessNext
     /\ UNCHANGED <<focus, intakeVars, quotaVars, circuitVars, sessionVars, evidenceVars,
                    queryVars, codeModeVars, searchVars>>
  \/ /\ focus = "circuit" /\ CircuitNext
     /\ UNCHANGED <<focus, intakeVars, quotaVars, accessVars, sessionVars, evidenceVars,
                    queryVars, codeModeVars, searchVars>>
  \/ /\ focus = "session" /\ SessionNext
     /\ UNCHANGED <<focus, intakeVars, quotaVars, accessVars, circuitVars, evidenceVars,
                    queryVars, codeModeVars, searchVars>>
  \/ /\ focus = "evidence" /\ ReadEvidenceNext
     /\ UNCHANGED <<focus, intakeVars, quotaVars, accessVars, circuitVars, sessionVars,
                    queryVars, codeModeVars, searchVars>>
  \/ /\ focus = "query" /\ QueryNext
     /\ UNCHANGED <<focus, intakeVars, quotaVars, accessVars, circuitVars, sessionVars,
                    evidenceVars, codeModeVars, searchVars>>
  \/ /\ focus = "cell" /\ CodeModeNext
     /\ UNCHANGED <<focus, intakeVars, quotaVars, accessVars, circuitVars, sessionVars,
                    evidenceVars, queryVars, searchVars>>
  \/ /\ focus = "search" /\ WorkspaceSearchNext
     /\ UNCHANGED <<focus, intakeVars, quotaVars, accessVars, circuitVars, sessionVars,
                    evidenceVars, queryVars, codeModeVars>>

ServingSpec == ServingInit /\ [][ServingNext]_servingVars

\* What the tools tell the model of the repository holds of the repository: evidence, kept or
\* recovered, was shown whole, and searches, pages and blame say where they were cut.
ToolAnswersHonest == EvidenceSound /\ QueriesSound

=============================================================================
