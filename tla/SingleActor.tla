----------------------------- MODULE SingleActor -----------------------------
(***************************************************************************)
(* What the PR actor lease promises to everything above it, with jobs,     *)
(* executions, clocks and crashes left out: work items of one pull request *)
(* and one work type, one of which at most holds the floor, under a token  *)
(* that grows with every grant.  Work done for an item (finishing it,      *)
(* failing it, putting it back) happens only while that item holds the     *)
(* floor; closing an item from outside is always possible and takes the    *)
(* floor away with it.                                                     *)
(***************************************************************************)
EXTENDS Naturals

CONSTANTS Items, NoItem

VARIABLES status,   \* of each item
          token,    \* number of grants so far
          grantee,  \* the item the last token was given to, until it gives it back
          holder    \* the item that has the floor now

vars == <<status, token, grantee, holder>>

Active == {"queued", "running"}

Init ==
  /\ status = [i \in Items |-> "absent"]
  /\ token = 0
  /\ grantee = NoItem
  /\ holder = NoItem

Closed(S, s) == [i \in Items |-> IF i \in S THEN s ELSE status[i]]

TakeFloorFrom(S) ==
  /\ grantee' = IF grantee \in S THEN NoItem ELSE grantee
  /\ holder' = IF holder \in S THEN NoItem ELSE holder

\* A request arrives and replaces a set of active ones.
Submit(i, S) ==
  /\ status[i] = "absent"
  /\ \A k \in S : status[k] \in Active
  /\ status' = [Closed(S, "superseded") EXCEPT ![i] = "queued"]
  /\ TakeFloorFrom(S)
  /\ UNCHANGED token

\* Requests are withdrawn, and with them the floor.
Withdraw(S) ==
  /\ S # {} /\ \A i \in S : status[i] \in Active
  /\ status' = Closed(S, "cancelled")
  /\ TakeFloorFrom(S)
  /\ UNCHANGED token

\* The free floor goes to an active item.
Grant(i) ==
  /\ holder = NoItem
  /\ status[i] \in Active
  /\ status' = [status EXCEPT ![i] = "running"]
  /\ token' = token + 1
  /\ grantee' = i /\ holder' = i

\* A grant that turns out to be for a closed item is given back at once.
GrantRefused ==
  /\ holder = NoItem
  /\ token' = token + 1
  /\ grantee' = NoItem
  /\ UNCHANGED <<status, holder>>

\* The floor lapses; the grantee may resume under its own token while nobody else
\* was given one.
Lapse == holder # NoItem /\ holder' = NoItem /\ UNCHANGED <<status, token, grantee>>

Resume ==
  /\ holder = NoItem /\ grantee # NoItem
  /\ holder' = grantee
  /\ UNCHANGED <<status, token, grantee>>

GiveBack ==
  /\ grantee # NoItem
  /\ grantee' = NoItem /\ holder' = NoItem
  /\ UNCHANGED <<status, token>>

\* Work on an item ends its turn, and only while the item has the floor.
Work(i) ==
  /\ holder = i /\ status[i] = "running"
  /\ \E s \in {"queued", "completed", "failed"} : status' = [status EXCEPT ![i] = s]
  /\ UNCHANGED <<token, grantee, holder>>

\* A delivery finds the request withdrawn, its own job aborted, or a bot behind it.
Drop(i) ==
  /\ status[i] \in Active
  /\ status' = [status EXCEPT ![i] = "cancelled"]
  /\ UNCHANGED <<token, grantee, holder>>

\* Running work that does not have the floor is given up.
Lose(i) ==
  /\ holder # i /\ status[i] = "running"
  /\ status' = [status EXCEPT ![i] = "failed"]
  /\ UNCHANGED <<token, grantee, holder>>

Next ==
  \/ \E i \in Items : Grant(i) \/ Work(i) \/ Drop(i) \/ Lose(i)
  \/ \E S \in SUBSET Items : Withdraw(S) \/ (\E i \in Items : Submit(i, S))
  \/ GrantRefused \/ Lapse \/ Resume \/ GiveBack

Spec == Init /\ [][Next]_vars

=============================================================================
