---------------------------- MODULE MCLeasedWork ----------------------------
(***************************************************************************)
(* Instances of LeasedWork for TLC: the fault budget from one number per   *)
(* kind of fault, and the symmetry of slots and job rows (safety only).    *)
(***************************************************************************)
EXTENDS LeasedWork, TLC

CONSTANTS Crashes, Aborts, Stalls, Arms, Defers, Throws

MCFaultBudget ==
  [crash |-> Crashes, abort |-> Aborts, stall |-> Stalls,
   arm |-> Arms, defer |-> Defers, error |-> Throws]

SlotAndJobSymmetry == Permutations(Workers) \cup Permutations(JobIds)

=============================================================================
