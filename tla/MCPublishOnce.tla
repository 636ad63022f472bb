---------------------------- MODULE MCPublishOnce ----------------------------
(***************************************************************************)
(* Instances of PublishOnce for TLC: operations named by their work item,  *)
(* and the budget of environment events from one number per event.         *)
(***************************************************************************)
EXTENDS PublishOnce, TLC

CONSTANTS Claims, Crashes, Lapses, Revives, Aborts, Cancels, Rejects, Timeouts, Unreads, Calls,
          FirstOps   \* the operations of the first item; the others are the second's

CONSTANTS i1, i2

MCOwner == [o \in Ops |-> IF o \in FirstOps THEN i1 ELSE i2]

MCBudget ==
  [claim |-> Claims, crash |-> Crashes, lapse |-> Lapses, revive |-> Revives, abort |-> Aborts,
   cancel |-> Cancels, reject |-> Rejects, timeout |-> Timeouts, unread |-> Unreads, call |-> Calls]

ExecSymmetry == Permutations(Execs)

=============================================================================
