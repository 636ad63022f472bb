-------------------------- MODULE MCPublishHandover --------------------------
(***************************************************************************)
(* Publishers that are overtaken: executions that hand the lease over in   *)
(* the middle of a mutation (PublishOnce), the attempts that read each     *)
(* other's records (PublishRecords), and the verification runs of a thread *)
(* (Verification).                                                         *)
(*                                                                         *)
(* They share no state here, so `focus` picks the one that moves and the   *)
(* others stay in their initial states.                                    *)
(***************************************************************************)
EXTENDS MCPublishOnce, PublishRecords, Verification

CONSTANTS b1, b2   \* batches: of the first and of the second item

MCBatchItem == (b1 :> i1) @@ (b2 :> i2)

VARIABLE focus

HandoverInit ==
  /\ focus \in {"operation", "records", "verification"}
  /\ Init /\ RecordInit /\ VerificationInit

HandoverNext ==
    \/ focus = "operation" /\ Next /\ UNCHANGED <<focus, recordVars, verificationVars>>
    \/ focus = "records" /\ RecordNext /\ UNCHANGED <<focus, vars, verificationVars>>
    \/ focus = "verification" /\ VerificationNext /\ UNCHANGED <<focus, vars, recordVars>>

HandoverSpec ==
  HandoverInit /\ [][HandoverNext]_<<focus, vars, recordVars, verificationVars>>
=============================================================================
