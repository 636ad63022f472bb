-------------------------- MODULE MCPublishRecovery --------------------------
(***************************************************************************)
(* publishOnce retried, under a lease (PublishOnce) and without one, where *)
(* nobody fences the deliveries of an ask (AskReply).                      *)
(*                                                                         *)
(* They share no state here, so `focus` picks the one that moves and the   *)
(* other stays in its initial states.                                      *)
(***************************************************************************)
EXTENDS MCPublishOnce, AskReply

VARIABLE focus

RecoveryInit == focus \in {"leased", "ask"} /\ Init /\ AskInit

RecoveryNext ==
    \/ focus = "leased" /\ Next /\ UNCHANGED <<focus, askVars>>
    \/ focus = "ask" /\ AskNext /\ UNCHANGED <<focus, vars>>

RecoverySpec == RecoveryInit /\ [][RecoveryNext]_<<focus, vars, askVars>>

RecoverySymmetry == ExecSymmetry \cup Permutations(AskWorkers)
=============================================================================
