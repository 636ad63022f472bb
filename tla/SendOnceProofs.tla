--------------------------- MODULE SendOnceProofs ---------------------------
(***************************************************************************)
(* GitHub receives an operation at most once, and a failed intent was      *)
(* never sent, as long as no lapsed lease is revived by a late renewal.    *)
(*                                                                         *)
(* An execution that has marked its intent holds the only ticket to send   *)
(* it.  From the ticket on the row is sealed: it is settled, it holds a    *)
(* result, or a lookup finds it in flight, so nobody arms it again.  The   *)
(* other half is what the holder may rely on between its lookup and its    *)
(* mark (View): only the holder writes, and it has held the lease all the  *)
(* while, since a lease that lapsed is not revived.                        *)
(*                                                                         *)
(* The second part is about what the attempts leave in the records of the  *)
(* review and read of each other (PublishRecords).                         *)
(***************************************************************************)
EXTENDS PublishOnceProofs, PublishRecords, FiniteSetTheorems, SequenceTheorems

(* The inductive invariant *)

TicketPhases == {"gate", "confirm", "send"}

\* x has started the send of o and may still put it on the wire.
Ticket(x, o) == exec[x].pc \in TicketPhases /\ exec[x].op = o

OnWire(o) == \E r \in wire : r.op = o

\* Nothing of o has reached GitHub or can reach it without another mark.
Quiet(o) ==
  /\ accepted[o] = 0
  /\ ~OnWire(o)
  /\ \A x \in Execs : ~Ticket(x, o)

\* A row that keeps every later call from arming it again.
Sealed(o) ==
  \/ intents[o].status \in {"reconciled", "outcome_unknown"}
  \/ intents[o].status = "pending" /\ intents[o].result
  \/ intents[o].status = "pending" /\ intents[o].mutating /\ intents[o].started

OneTicket(o) ==
  /\ accepted[o] <= 1
  /\ accepted[o] = 1 => ~OnWire(o)
  /\ \A r, s \in wire : r.op = o /\ s.op = o => r = s
  /\ \A x \in Execs : Ticket(x, o) =>
       accepted[o] = 0 /\ ~OnWire(o) /\ \A y \in Execs : Ticket(y, o) => y = x

Open(o) == intents[o].status \in {"pending", "failed"} /\ ~intents[o].result

ArmedBy(o, e) ==
  /\ intents[o].status = "pending" /\ intents[o].mutating
  /\ intents[o].armed = e /\ ~intents[o].result

\* What the holder of the lease may rely on, by its place in the call.
View(x) ==
  /\ exec[x].pc \in {"lookup", "armCheck", "arm"} => Open(exec[x].op)
  /\ exec[x].pc \in {"armCheck", "arm", "sendCheck", "mark"} => Quiet(exec[x].op)
  /\ exec[x].pc \in {"sendCheck", "mark"} => ArmedBy(exec[x].op, exec[x].epoch)
  /\ exec[x].pc = "await" /\ exec[x].reply = "rejected" => Quiet(exec[x].op)
  /\ exec[x].pc \in {"check", "write"} /\ exec[x].write = "failed" =>
       exec[x].target \in Ops /\ Quiet(exec[x].target)

Tickets == \A o \in Ops : OneTicket(o)

Seals == \A o \in Ops : Quiet(o) \/ Sealed(o)

Views == \A x \in Execs : Busy(x) /\ Held(x) => View(x)

Core == EpochsIssued /\ EpochUnique /\ Tickets /\ Seals /\ Views

NoRevival == budget["revive"] = 0

PInv == IInv /\ NoRevival /\ Core

-----------------------------------------------------------------------------
(* Steps that issue no epoch, mark nothing and send nothing *)

LocalStep ==
  /\ lease'.epoch = lease.epoch
  /\ \A i, e : isPrActorLeaseHeld(lease', i, e) => isPrActorLeaseHeld(lease, i, e)
  /\ \A y \in Execs : Busy(y)' =>
       Busy(y) /\ exec'[y].epoch = exec[y].epoch /\ exec'[y].item = exec[y].item
  /\ \A y \in Execs, o \in Ops : Ticket(y, o)' => Ticket(y, o)

\* Only one execution can pass the fence.
LEMMA HolderUnique ==
  ASSUME PInv, NEW x \in Execs, NEW y \in Execs, Busy(x), Busy(y), Held(x), Held(y)
  PROVE  x = y
BY DEF PInv, Core, EpochUnique, Held, isPrActorLeaseHeld

LEMMA LocalEpochs ==
  ASSUME PInv, LocalStep
  PROVE  /\ EpochsIssued' /\ EpochUnique'
         /\ \A y \in Execs : Busy(y)' /\ Held(y)' => Busy(y) /\ Held(y)
BY DEF PInv, Core, LocalStep, EpochsIssued, EpochUnique, Held

LEMMA LocalTickets ==
  ASSUME PInv, LocalStep, UNCHANGED <<wire, accepted>>
  PROVE  Tickets' /\ \A o \in Ops : Quiet(o) => Quiet(o)'
BY DEF PInv, Core, LocalStep, Tickets, OneTicket, Quiet, OnWire

\* All that a view depends on is as it was.
SameSpot(y) ==
  /\ exec'[y].pc = exec[y].pc /\ exec'[y].op = exec[y].op /\ exec'[y].epoch = exec[y].epoch
  /\ exec'[y].target = exec[y].target /\ exec'[y].write = exec[y].write
  /\ exec'[y].reply = exec[y].reply

\* The view of an execution that does not move, when the intents do not either.
LEMMA SameView ==
  ASSUME IInv, NEW y \in Execs, View(y), SameSpot(y), UNCHANGED intents,
         \A o \in Ops : Quiet(o) => Quiet(o)'
  PROVE  View(y)'
<1>1. exec[y].pc \notin {"idle", "ready"} => exec[y].op \in Ops
  BY DEF IInv, BoundOps
<1> QED
  BY <1>1 DEF View, Open, ArmedBy, SameSpot

\* x moves, the others stay.
Moves(x) ==
  /\ \A y \in Execs \ {x} : exec'[y] = exec[y]
  /\ exec'[x].pc # "idle" => exec'[x].epoch = exec[x].epoch /\ exec'[x].item = exec[x].item
  /\ exec'[x].pc \in TicketPhases => exec[x].pc \in TicketPhases /\ exec'[x].op = exec[x].op

LEMMA MovesLocal ==
  ASSUME NEW x \in Execs, Busy(x), Moves(x), UNCHANGED lease
  PROVE  LocalStep
BY DEF Busy, Moves, LocalStep, Ticket

\* A move that writes nothing.
LEMMA WalkKeepsCore ==
  ASSUME PInv, NEW x \in Execs, Busy(x), Moves(x), UNCHANGED <<lease, intents, wire, accepted>>,
         Held(x) => View(x)'
  PROVE  Core'
<1>1. LocalStep
  BY MovesLocal
<1>2. /\ EpochsIssued' /\ EpochUnique' /\ Tickets'
      /\ \A y \in Execs : Busy(y)' /\ Held(y)' => Busy(y) /\ Held(y)
      /\ \A o \in Ops : Quiet(o) => Quiet(o)'
  BY <1>1, LocalEpochs, LocalTickets
<1>3. Seals'
  BY <1>2 DEF PInv, Core, Seals, Sealed
<1>4. Views'
  <2> SUFFICES ASSUME NEW y \in Execs, Busy(y)', Held(y)'
               PROVE  View(y)'
    BY DEF Views
  <2>1. CASE y = x
    BY <1>2, <2>1
  <2>2. CASE y # x
    BY <1>2, <2>2, SameView DEF PInv, Core, Views, Moves, SameSpot
  <2> QED
    BY <2>1, <2>2
<1> QED
  BY <1>2, <1>3, <1>4 DEF Core

\* The holder writes the row of o: nobody else has a view to lose.
LEMMA WriteKeepsCore ==
  ASSUME PInv, NEW x \in Execs, Busy(x), Held(x), Moves(x),
         UNCHANGED <<lease, wire, accepted>>,
         NEW o, \A p \in Ops \ {o} : intents'[p] = intents[p],
         o \in Ops => Quiet(o) \/ Sealed(o)',
         View(x)'
  PROVE  Core'
<1>1. LocalStep
  BY MovesLocal
<1>2. /\ EpochsIssued' /\ EpochUnique' /\ Tickets'
      /\ \A y \in Execs : Busy(y)' /\ Held(y)' => Busy(y) /\ Held(y)
      /\ \A p \in Ops : Quiet(p) => Quiet(p)'
  BY <1>1, LocalEpochs, LocalTickets
<1>3. Seals'
  BY <1>2 DEF PInv, Core, Seals, Sealed
<1>4. Views'
  BY <1>2, HolderUnique DEF Views
<1> QED
  BY <1>2, <1>3, <1>4 DEF Core

-----------------------------------------------------------------------------
(* The moves of PublishOnce *)

\* Places of a call where the holder relies on nothing.
PlainPhases == {"idle", "ready", "persist", "decide", "gate", "confirm", "send", "unsent",
                "repersist", "evidence", "observed"}

LEMMA PlainView ==
  ASSUME NEW x \in Execs, exec'[x].pc \in PlainPhases
  PROVE  View(x)'
BY DEF View, PlainPhases

LEMMA GotoMoves ==
  ASSUME IInv, NEW x \in Execs, NEW pc, Goto(x, pc),
         pc \in TicketPhases => exec[x].pc \in TicketPhases
  PROVE  /\ Moves(x)
         /\ exec'[x] = [exec[x] EXCEPT !.pc = pc] /\ exec'[x].pc = pc
         /\ exec'[x].op = exec[x].op /\ exec'[x].epoch = exec[x].epoch
         /\ exec'[x].target = exec[x].target /\ exec'[x].write = exec[x].write
         /\ exec'[x].reply = exec[x].reply
<1>1. exec[x] \in Execution
  BY ExecTyped
<1>2. exec'[x] = [exec[x] EXCEPT !.pc = pc] /\ \A y \in Execs \ {x} : exec'[y] = exec[y]
  BY DEF Goto, IInv, TypeOK
<1> QED
  BY <1>1, <1>2 DEF Moves, Execution

LEMMA FinishMoves ==
  ASSUME IInv, NEW x \in Execs, NEW outcome, Finish(x, outcome)
  PROVE  Moves(x) /\ exec'[x].pc = "ready"
<1>1. exec'[x] = [IdleExec EXCEPT !.pc = "ready", !.item = exec[x].item,
                    !.epoch = exec[x].epoch, !.aborted = exec[x].aborted,
                    !.lost = exec[x].lost, !.op = exec[x].op, !.outcome = outcome]
  BY DEF Finish, IInv, TypeOK
<1>2. \A y \in Execs \ {x} : exec'[y] = exec[y]
  BY DEF Finish, IInv, TypeOK
<1>3. exec'[x].pc = "ready" /\ exec'[x].item = exec[x].item /\ exec'[x].epoch = exec[x].epoch
  BY <1>1 DEF IdleExec
<1> QED
  BY <1>2, <1>3 DEF Moves, TicketPhases

LEMMA GotoWriteMoves ==
  ASSUME IInv, NEW x \in Execs, NEW o, NEW k, GotoWrite(x, o, k)
  PROVE  Moves(x) /\ exec'[x].pc = "check" /\ exec'[x].target = o /\ exec'[x].write = k
<1>1. exec[x] \in Execution
  BY ExecTyped
<1>2. /\ exec'[x] = [exec[x] EXCEPT !.pc = "check", !.target = o, !.write = k]
      /\ \A y \in Execs \ {x} : exec'[y] = exec[y]
  BY DEF GotoWrite, IInv, TypeOK
<1> QED
  BY <1>1, <1>2 DEF Moves, Execution, TicketPhases

LEMMA RecoverMoves ==
  ASSUME IInv, NEW x \in Execs, NEW o, NEW m, Recover(x, o, m)
  PROVE  Moves(x) /\ exec'[x].pc = "evidence"
<1>1. exec[x] \in Execution
  BY ExecTyped
<1>2. /\ exec'[x] = [exec[x] EXCEPT !.pc = "evidence", !.target = o, !.mode = m]
      /\ \A y \in Execs \ {x} : exec'[y] = exec[y]
  BY DEF Recover, IInv, TypeOK
<1> QED
  BY <1>1, <1>2 DEF Moves, Execution, TicketPhases

\* Leaving for a place without a view, and writing nothing.
LEMMA PlainWalk ==
  ASSUME PInv, NEW x \in Execs, Busy(x), Moves(x), exec'[x].pc \in PlainPhases,
         UNCHANGED <<lease, intents, wire, accepted>>
  PROVE  Core'
BY PlainView, WalkKeepsCore

LEMMA FinishWalk ==
  ASSUME PInv, NEW x \in Execs, Busy(x), NEW outcome, Finish(x, outcome),
         UNCHANGED <<lease, intents, wire, accepted>>
  PROVE  Core'
BY FinishMoves, PlainWalk DEF PInv, PlainPhases

LEMMA RecoverWalk ==
  ASSUME PInv, NEW x \in Execs, Busy(x), NEW o, NEW m, Recover(x, o, m),
         UNCHANGED <<lease, intents, wire, accepted>>
  PROVE  Core'
BY RecoverMoves, PlainWalk DEF PInv, PlainPhases

\* On the way to a completion write: only a failure needs a quiet operation.
LEMMA GotoWriteWalk ==
  ASSUME PInv, NEW x \in Execs, Busy(x), NEW o, NEW k, GotoWrite(x, o, k),
         UNCHANGED <<lease, intents, wire, accepted>>,
         k = "failed" /\ Held(x) => o \in Ops /\ Quiet(o)'
  PROVE  Core'
<1>1. Moves(x) /\ exec'[x].pc = "check" /\ exec'[x].target = o /\ exec'[x].write = k
  BY GotoWriteMoves DEF PInv
<1>2. Held(x) => View(x)'
  BY <1>1 DEF View
<1> QED
  BY <1>1, <1>2, WalkKeepsCore

-----------------------------------------------------------------------------
(* The steps of a call *)

LEMMA CallKeepsCore ==
  ASSUME PInv, NEW x \in Execs, NEW o \in Ops, Call(x, o)
  PROVE  Core'
<1>1. exec[x] \in Execution /\ exec[x].pc = "ready" /\ Busy(x)
  BY ExecTyped DEF Call, At, Busy, PInv
<1>2. \/ exec'[x] = [exec[x] EXCEPT !.op = o, !.outcome = "aborted"]
      \/ exec'[x] = [exec[x] EXCEPT !.pc = "persist", !.op = o, !.outcome = "none"]
  BY DEF Call, PInv, IInv, TypeOK
<1>3. \A y \in Execs \ {x} : exec'[y] = exec[y]
  BY DEF Call, PInv, IInv, TypeOK
<1>4. Moves(x) /\ exec'[x].pc \in {"ready", "persist"}
  BY <1>1, <1>2, <1>3 DEF Moves, Execution, TicketPhases
<1> QED
  BY <1>1, <1>4, PlainWalk DEF Call, PlainPhases

\* persistOperationIntent by the holder, on the way to a plain place.
LEMMA PersistIntentKeepsCore ==
  ASSUME PInv, NEW x \in Execs, Busy(x), Held(x), Moves(x), exec'[x].pc \in PlainPhases,
         NEW o \in Ops, persistOperationIntent(o), UNCHANGED <<lease, wire, accepted>>
  PROVE  Core'
<1>1. \A p \in Ops \ {o} : intents'[p] = intents[p]
  BY DEF persistOperationIntent, SetIntent, PInv, IInv, TypeOK
<1>2. Quiet(o) \/ Sealed(o)'
  <2>1. Quiet(o) \/ Sealed(o)
    BY DEF PInv, Core, Seals
  <2>2. Sealed(o) => intents[o].status # "absent"
    BY DEF Sealed
  <2>3. intents[o].status # "absent" => UNCHANGED intents
    BY DEF persistOperationIntent
  <2> QED
    BY <2>1, <2>2, <2>3 DEF Sealed
<1> QED
  BY <1>1, <1>2, PlainView, WriteKeepsCore

LEMMA PersistKeepsCore ==
  ASSUME PInv, NEW x \in Execs, Persist(x)
  PROVE  Core'
<1>1. exec[x].op \in Ops /\ Busy(x)
  BY InCall DEF Persist, PInv, Busy, At
<1>2. CASE Ready(x)
  <2>1. Moves(x) /\ exec'[x].pc = "decide"
    BY <1>2, GotoMoves DEF Persist, PInv, TicketPhases
  <2> QED
    BY <1>1, <1>2, <2>1, PersistIntentKeepsCore DEF Persist, Ready, PlainPhases
<1>3. CASE ~Ready(x)
  BY <1>1, <1>3, FinishWalk DEF Persist
<1> QED
  BY <1>2, <1>3

LEMMA DecideKeepsCore ==
  ASSUME PInv, NEW x \in Execs, Decide(x)
  PROVE  Core'
<1>1. exec[x].op \in Ops /\ Busy(x) /\ UNCHANGED <<lease, intents, wire, accepted>>
  BY InCall DEF Decide, PInv, Busy, At
<1>2. CASE \E outcome : Finish(x, outcome)
  BY <1>1, <1>2, FinishWalk
<1>3. CASE GotoWrite(x, exec[x].op, "resume")
  BY <1>1, <1>3, GotoWriteWalk
<1>4. CASE Recover(x, exec[x].op, "inflight")
  BY <1>1, <1>4, RecoverWalk
<1>5. CASE Open(exec[x].op) /\ Goto(x, "lookup")
  <2>1. Moves(x) /\ exec'[x].pc = "lookup" /\ exec'[x].op = exec[x].op
    BY <1>5, GotoMoves DEF PInv, TicketPhases
  <2>2. View(x)'
    BY <1>1, <1>5, <2>1 DEF View, Open
  <2> QED
    BY <1>1, <2>1, <2>2, WalkKeepsCore
<1> QED
  BY <1>2, <1>3, <1>4, <1>5 DEF Decide, Open

\* Quiet operations stay quiet while x walks.
LEMMA QuietWhileWalking ==
  ASSUME PInv, NEW x \in Execs, Busy(x), Moves(x), UNCHANGED <<lease, wire, accepted>>
  PROVE  \A o \in Ops : Quiet(o) => Quiet(o)'
BY MovesLocal, LocalTickets

\* The lookup: an open row that is not in flight has never been sent.
LEMMA LookupKeepsCore ==
  ASSUME PInv, NEW x \in Execs, Lookup(x)
  PROVE  Core'
<1> PICK o : o = exec[x].op
  OBVIOUS
<1>1. o \in Ops /\ Busy(x) /\ UNCHANGED <<lease, intents, wire, accepted>>
  BY InCall DEF Lookup, PInv, Busy, At
<1>2. CASE \E p \in Ops : Recover(x, p, "inflight")
  BY <1>1, <1>2, RecoverWalk
<1>3. CASE findInFlightMutatingIntent(x) = {} /\ Goto(x, "armCheck")
  <2>1. Moves(x) /\ exec'[x].pc = "armCheck" /\ exec'[x].op = o
    BY <1>3, GotoMoves DEF PInv, TicketPhases
  <2>2. ~InFlight(o)
    BY <1>1, <1>3 DEF findInFlightMutatingIntent
  <2>3. Held(x) => Open(o)
    BY <1>1 DEF Lookup, At, PInv, Core, Views, View
  <2>4. Held(x) => Quiet(o)
    BY <1>1, <2>2, <2>3 DEF InFlight, Open, PInv, Core, Seals, Sealed
  <2>5. Held(x) => View(x)'
    <3> SUFFICES ASSUME Held(x) PROVE View(x)'
      OBVIOUS
    <3>1. Quiet(o)'
      BY <1>1, <2>1, <2>4, QuietWhileWalking
    <3>2. Open(o)'
      BY <1>1, <2>1, <2>3 DEF Open
    <3> QED
      BY <2>1, <3>1, <3>2 DEF View
  <2> QED
    BY <1>1, <2>1, <2>5, WalkKeepsCore
<1> QED
  BY <1>2, <1>3 DEF Lookup, findInFlightMutatingIntent

LEMMA ArmCheckKeepsCore ==
  ASSUME PInv, NEW x \in Execs, ArmCheck(x)
  PROVE  Core'
<1> PICK o : o = exec[x].op
  OBVIOUS
<1>1. o \in Ops /\ Busy(x) /\ UNCHANGED <<lease, intents, wire, accepted>>
  BY InCall DEF ArmCheck, PInv, Busy, At
<1>2. CASE Held(x)
  <2>1. Moves(x) /\ exec'[x].pc = "arm" /\ exec'[x].op = o
    BY <1>2, GotoMoves DEF ArmCheck, PInv, TicketPhases
  <2>2. Open(o) /\ Quiet(o)
    BY <1>1, <1>2 DEF ArmCheck, At, PInv, Core, Views, View
  <2>3. Open(o)' /\ Quiet(o)'
    BY <1>1, <2>1, <2>2, QuietWhileWalking DEF Open
  <2>4. View(x)'
    BY <2>1, <2>3 DEF View
  <2> QED
    BY <1>1, <2>1, <2>4, WalkKeepsCore
<1>3. CASE ~Held(x)
  BY <1>1, <1>3, FinishWalk DEF ArmCheck
<1> QED
  BY <1>2, <1>3

LEMMA ArmKeepsCore ==
  ASSUME PInv, NEW x \in Execs, Arm(x)
  PROVE  Core'
<1> PICK o : o = exec[x].op
  OBVIOUS
<1>1. /\ o \in Ops /\ Busy(x) /\ UNCHANGED <<lease, wire, accepted>>
      /\ exec[x].epoch \in Nat /\ intents[o] \in IntentRow
  BY InCall, ExecFields DEF Arm, PInv, Busy, At, IInv, TypeOK
<1>2. /\ Moves(x) /\ exec'[x].pc = "sendCheck" /\ exec'[x].op = o
      /\ exec'[x].epoch = exec[x].epoch
  BY GotoMoves DEF Arm, PInv, TicketPhases
<1>3. CASE Held(x)
  <2>1. Open(o) /\ Quiet(o)
    BY <1>1, <1>3 DEF Arm, At, PInv, Core, Views, View
  <2>2. intents' = [intents EXCEPT ![o] = Armed(o, exec[x].epoch)]
    BY <1>3, <2>1 DEF Arm, SetIntent, Mergeable, Open
  <2>3. ArmedBy(o, exec[x].epoch)'
    BY <1>1, <1>2, <2>1, <2>2
       DEF ArmedBy, Armed, Merged, Open, IntentRow, PInv, IInv, TypeOK
  <2>4. Quiet(o)'
    BY <1>1, <1>2, <2>1, QuietWhileWalking
  <2>5. View(x)'
    BY <1>2, <2>3, <2>4 DEF View
  <2>6. \A p \in Ops \ {o} : intents'[p] = intents[p]
    BY <2>2 DEF PInv, IInv, TypeOK
  <2> QED
    BY <1>1, <1>2, <1>3, <2>1, <2>5, <2>6, WriteKeepsCore
<1>4. CASE ~Held(x)
  BY <1>1, <1>2, <1>4, WalkKeepsCore DEF Arm
<1> QED
  BY <1>3, <1>4

LEMMA SendCheckKeepsCore ==
  ASSUME PInv, NEW x \in Execs, SendCheck(x)
  PROVE  Core'
<1> PICK o : o = exec[x].op
  OBVIOUS
<1>1. o \in Ops /\ Busy(x) /\ UNCHANGED <<lease, intents, wire, accepted>>
  BY InCall DEF SendCheck, PInv, Busy, At
<1>2. Held(x) => Quiet(o) /\ ArmedBy(o, exec[x].epoch)
  BY <1>1 DEF SendCheck, At, PInv, Core, Views, View
<1>3. CASE Ready(x) /\ Goto(x, "mark")
  <2>1. /\ Moves(x) /\ exec'[x].pc = "mark" /\ exec'[x].op = o
        /\ exec'[x].epoch = exec[x].epoch
    BY <1>3, GotoMoves DEF PInv, TicketPhases
  <2>2. Quiet(o)' /\ ArmedBy(o, exec[x].epoch)'
    BY <1>1, <1>2, <1>3, <2>1, QuietWhileWalking DEF Ready, ArmedBy
  <2>3. View(x)'
    BY <2>1, <2>2 DEF View
  <2> QED
    BY <1>1, <2>1, <2>3, WalkKeepsCore
<1>4. CASE GotoWrite(x, o, "failed")
  <2>1. Moves(x)
    BY <1>4, GotoWriteMoves DEF PInv
  <2>2. Held(x) => Quiet(o)'
    BY <1>1, <1>2, <2>1, QuietWhileWalking
  <2> QED
    BY <1>1, <1>4, <2>2, GotoWriteWalk
<1>5. CASE Goto(x, "unsent")
  BY <1>1, <1>5, GotoMoves, PlainWalk DEF PInv, TicketPhases, PlainPhases
<1> QED
  BY <1>3, <1>4, <1>5 DEF SendCheck

\* The mark issues the ticket, to an operation that was quiet until now.
LEMMA MarkKeepsCore ==
  ASSUME PInv, NEW x \in Execs, Mark(x)
  PROVE  Core'
<1> PICK o : o = exec[x].op
  OBVIOUS
<1>1. /\ o \in Ops /\ Busy(x) /\ UNCHANGED <<lease, wire, accepted>>
      /\ exec[x] \in Execution /\ intents[o] \in IntentRow
  BY InCall, ExecTyped DEF Mark, PInv, Busy, At, IInv, TypeOK
<1>2. CASE Held(x) /\ Mergeable(o)
  <2>1. Quiet(o) /\ ArmedBy(o, exec[x].epoch)
    BY <1>1, <1>2 DEF Mark, At, PInv, Core, Views, View
  <2>2. /\ \A y \in Execs \ {x} : exec'[y] = exec[y]
        /\ exec'[x] = [exec[x] EXCEPT !.pc = "gate"]
    BY <1>2 DEF Mark, Goto, PInv, IInv, TypeOK
  <2>3. /\ exec'[x].pc = "gate" /\ exec'[x].op = o
        /\ exec'[x].epoch = exec[x].epoch /\ exec'[x].item = exec[x].item
    BY <1>1, <2>2 DEF Execution
  <2>4. intents' = [intents EXCEPT ![o] = [Merged(o) EXCEPT !.started = TRUE]]
    BY <1>2 DEF Mark, SetIntent
  <2>5. Sealed(o)' /\ \A p \in Ops \ {o} : intents'[p] = intents[p]
    BY <1>1, <2>1, <2>4 DEF Sealed, ArmedBy, Merged, IntentRow, PInv, IInv, TypeOK
  <2>6. \A y \in Execs, p \in Ops : Ticket(y, p)' => Ticket(y, p) \/ (y = x /\ p = o)
    BY <2>2, <2>3 DEF Ticket
  <2>7. \A p \in Ops \ {o} : Quiet(p) => Quiet(p)'
    BY <1>1, <2>6 DEF Quiet, OnWire
  <2>8. Tickets'
    <3> SUFFICES ASSUME NEW p \in Ops PROVE OneTicket(p)'
      BY DEF Tickets
    <3>1. OneTicket(p)
      BY DEF PInv, Core, Tickets
    <3>2. CASE p = o
      BY <1>1, <2>1, <2>6, <3>2 DEF OneTicket, Quiet, OnWire
    <3>3. CASE p # o
      BY <1>1, <2>6, <3>1, <3>3 DEF OneTicket, OnWire
    <3> QED
      BY <3>2, <3>3
  <2>9. Seals'
    BY <2>5, <2>7 DEF Seals, Sealed, PInv, Core
  <2>10. EpochsIssued' /\ EpochUnique' /\ \A y \in Execs : Busy(y)' /\ Held(y)' => y = x
    <3>1. \A y \in Execs : Busy(y)' = Busy(y) /\ exec'[y].epoch = exec[y].epoch
                             /\ exec'[y].item = exec[y].item
      BY <1>1, <2>2, <2>3 DEF Busy
    <3> QED
      BY <1>1, <1>2, <3>1, HolderUnique DEF PInv, Core, EpochsIssued, EpochUnique, Held
  <2>11. View(x)'
    BY <2>3, PlainView DEF PlainPhases
  <2> QED
    BY <2>8, <2>9, <2>10, <2>11 DEF Core, Views
<1>3. CASE ~(Held(x) /\ Mergeable(o))
  BY <1>1, <1>3, GotoMoves, PlainWalk DEF Mark, PInv, TicketPhases, PlainPhases
<1> QED
  BY <1>2, <1>3

\* Gate and Confirm give the ticket up or keep it.
LEMMA GateKeepsCore ==
  ASSUME PInv, NEW x \in Execs, Gate(x)
  PROVE  Core'
<1> PICK o : o = exec[x].op
  OBVIOUS
<1>1. o \in Ops /\ Busy(x) /\ UNCHANGED <<lease, intents, wire, accepted>> /\ Ticket(x, o)
  BY InCall DEF Gate, PInv, Busy, At, Ticket, TicketPhases
<1>2. CASE GotoWrite(x, o, "failed")
  <2>1. Moves(x) /\ exec'[x].pc = "check"
    BY <1>2, GotoWriteMoves DEF PInv
  <2>2. Quiet(o)'
    BY <1>1, <2>1 DEF Quiet, OnWire, Ticket, TicketPhases, Moves, PInv, Core, Tickets, OneTicket
  <2> QED
    BY <1>1, <1>2, <2>2, GotoWriteWalk
<1>3. CASE Goto(x, "confirm")
  <2>1. Moves(x) /\ exec'[x].pc = "confirm"
    BY <1>1, <1>3, GotoMoves DEF PInv, Ticket
  <2> QED
    BY <1>1, <2>1, PlainWalk DEF PlainPhases
<1> QED
  BY <1>2, <1>3 DEF Gate

LEMMA ConfirmKeepsCore ==
  ASSUME PInv, NEW x \in Execs, Confirm(x)
  PROVE  Core'
<1>1. /\ Busy(x) /\ UNCHANGED <<lease, intents, wire, accepted>>
      /\ exec[x].pc \in TicketPhases
  BY DEF Confirm, Busy, At, TicketPhases
<1>2. Goto(x, "send") \/ Goto(x, "repersist")
  BY DEF Confirm
<1> QED
  BY <1>1, <1>2, GotoMoves, PlainWalk DEF PInv, PlainPhases

\* The ticket goes on the wire.
LEMMA SendKeepsCore ==
  ASSUME PInv, NEW x \in Execs, Send(x)
  PROVE  Core'
<1> PICK o : o = exec[x].op
  OBVIOUS
<1> DEFINE q == [op |-> o, epoch |-> exec[x].epoch]
<1>1. /\ o \in Ops /\ Busy(x) /\ UNCHANGED <<lease, intents, accepted>> /\ Ticket(x, o)
      /\ exec[x] \in Execution
  BY InCall, ExecTyped DEF Send, PInv, Busy, At, Ticket, TicketPhases
<1>2. wire' = wire \cup {q} /\ q.op = o
  BY DEF Send
<1>3. /\ \A y \in Execs \ {x} : exec'[y] = exec[y]
      /\ exec'[x] = [exec[x] EXCEPT !.pc = "await", !.reply = "none"]
  BY DEF Send, PInv, IInv, TypeOK
<1>4. /\ exec'[x].pc = "await" /\ exec'[x].reply = "none"
      /\ exec'[x].epoch = exec[x].epoch /\ exec'[x].item = exec[x].item
  BY <1>1, <1>3 DEF Execution
<1> HIDE DEF q
<1>5. LocalStep
  BY <1>1, <1>3, <1>4 DEF LocalStep, Busy, Ticket, TicketPhases
<1>6. OneTicket(o)
  BY <1>1 DEF PInv, Core, Tickets
<1>7. ~OnWire(o) /\ accepted[o] = 0 /\ \A y \in Execs : ~Ticket(y, o)'
  BY <1>1, <1>3, <1>4, <1>6 DEF OneTicket, Ticket, TicketPhases
<1>8. \A p \in Ops \ {o} : OnWire(p)' = OnWire(p)
  BY <1>2 DEF OnWire
<1>9. Tickets'
  <2> SUFFICES ASSUME NEW p \in Ops PROVE OneTicket(p)'
    BY DEF Tickets
  <2>1. OneTicket(p)
    BY DEF PInv, Core, Tickets
  <2>2. CASE p = o
    BY <1>1, <1>2, <1>7, <2>2 DEF OneTicket, OnWire
  <2>3. CASE p # o
    BY <1>1, <1>2, <1>5, <1>8, <2>1, <2>3 DEF OneTicket, LocalStep
  <2> QED
    BY <2>2, <2>3
<1>10. \A p \in Ops : Quiet(p) => Quiet(p)'
  BY <1>1, <1>5, <1>8 DEF Quiet, LocalStep
<1>11. Seals'
  BY <1>1, <1>10 DEF PInv, Core, Seals, Sealed
<1>12. Views'
  <2> SUFFICES ASSUME NEW y \in Execs, Busy(y)', Held(y)'
               PROVE  View(y)'
    BY DEF Views
  <2>1. CASE y = x
    BY <1>4, <2>1 DEF View
  <2>2. CASE y # x
    BY <1>1, <1>3, <1>5, <1>10, <2>2, LocalEpochs, SameView DEF PInv, Core, Views, SameSpot
  <2> QED
    BY <2>1, <2>2
<1> QED
  BY <1>5, <1>9, <1>11, <1>12, LocalEpochs DEF Core

\* The release of an unsent intent touches no row that somebody else has armed.
LEMMA UnsentKeepsCore ==
  ASSUME PInv, NEW x \in Execs, Unsent(x)
  PROVE  Core'
<1> PICK o : o = exec[x].op
  OBVIOUS
<1> DEFINE row == [intents[o] EXCEPT !.mutating = FALSE]
<1>1. /\ o \in Ops /\ Busy(x) /\ UNCHANGED <<lease, wire, accepted>>
      /\ intents[o] \in IntentRow
  BY InCall DEF Unsent, PInv, Busy, At, IInv, TypeOK
<1>2. Moves(x) /\ exec'[x].pc = "ready"
  BY FinishMoves DEF Unsent, PInv
<1>3. CASE UNCHANGED intents
  BY <1>1, <1>2, <1>3, PlainWalk DEF PlainPhases
<1>4. CASE /\ SetIntent(o, row)
           /\ intents[o].status = "pending" /\ intents[o].mutating /\ ~intents[o].result
           /\ ~intents[o].started /\ intents[o].armed = exec[x].epoch
  <2>1. /\ intents'[o].status = "pending" /\ ~intents'[o].result
        /\ \A p \in Ops \ {o} : intents'[p] = intents[p]
    BY <1>1, <1>4 DEF SetIntent, IntentRow, PInv, IInv, TypeOK
  <2>2. LocalStep
    BY <1>1, <1>2, MovesLocal
  <2>3. /\ EpochsIssued' /\ EpochUnique' /\ Tickets'
        /\ \A y \in Execs : Busy(y)' /\ Held(y)' => Busy(y) /\ Held(y)
        /\ \A p \in Ops : Quiet(p) => Quiet(p)'
    BY <1>1, <2>2, LocalEpochs, LocalTickets
  <2>4. Quiet(o)
    BY <1>1, <1>4 DEF PInv, Core, Seals, Sealed
  <2>5. Seals'
    BY <2>1, <2>3, <2>4 DEF PInv, Core, Seals, Sealed
  <2>6. Views'
    <3> SUFFICES ASSUME NEW y \in Execs, Busy(y)', Held(y)'
                 PROVE  View(y)'
      BY DEF Views
    <3>1. CASE y = x
      BY <1>2, <3>1, PlainView DEF PlainPhases
    <3>2. CASE y # x
      <4>1. Busy(y) /\ Held(y) /\ View(y) /\ exec'[y] = exec[y]
        BY <1>2, <2>3, <3>2 DEF PInv, Core, Views, Moves
      <4>2. exec[y].epoch # exec[x].epoch
        BY <1>1, <3>2, <4>1 DEF PInv, Core, EpochUnique
      <4>3. exec[y].pc \notin {"idle", "ready"} => exec[y].op \in Ops
        BY DEF PInv, IInv, BoundOps
      <4>4. ArmedBy(exec[y].op, exec[y].epoch) => exec[y].op # o
        BY <1>4, <4>2 DEF ArmedBy
      <4>5. \A p \in Ops : Open(p) => Open(p)'
        BY <2>1 DEF Open
      <4>6. \A p \in Ops \ {o} : ArmedBy(p, exec[y].epoch) => ArmedBy(p, exec[y].epoch)'
        BY <2>1, <4>1 DEF ArmedBy
      <4> QED
        BY <2>3, <4>1, <4>3, <4>4, <4>5, <4>6 DEF View
    <3> QED
      BY <3>1, <3>2
  <2> QED
    BY <2>3, <2>5, <2>6 DEF Core
<1> QED
  BY <1>3, <1>4 DEF Unsent

LEMMA RespondKeepsCore ==
  ASSUME PInv, NEW x \in Execs, Respond(x)
  PROVE  Core'
<1> PICK o : o = exec[x].op
  OBVIOUS
<1>1. /\ o \in Ops /\ Busy(x) /\ exec[x].pc = "await"
      /\ UNCHANGED <<lease, intents, wire, accepted>>
  BY InCall DEF Respond, PInv, Busy, At
<1>2. CASE GotoWrite(x, o, "stash")
  BY <1>1, <1>2, GotoWriteWalk
<1>3. CASE \E outcome : Finish(x, outcome)
  BY <1>1, <1>3, FinishWalk
<1>4. CASE exec[x].reply = "rejected" /\ GotoWrite(x, o, "failed")
  <2>1. Held(x) => Quiet(o)
    BY <1>1, <1>4 DEF PInv, Core, Views, View
  <2>2. Held(x) => Quiet(o)'
    BY <1>1, <1>4, <2>1, GotoWriteMoves, QuietWhileWalking DEF PInv
  <2> QED
    BY <1>1, <1>4, <2>2, GotoWriteWalk
<1>5. CASE Goto(x, "repersist")
  BY <1>1, <1>5, GotoMoves, PlainWalk DEF PInv, TicketPhases, PlainPhases
<1> QED
  BY <1>2, <1>3, <1>4, <1>5 DEF Respond

LEMMA RepersistKeepsCore ==
  ASSUME PInv, NEW x \in Execs, Repersist(x)
  PROVE  Core'
<1>1. exec[x].op \in Ops /\ Busy(x)
  BY InCall DEF Repersist, PInv, Busy, At
<1>2. CASE Held(x)
  <2>1. Moves(x) /\ exec'[x].pc = "evidence"
    BY <1>2, RecoverMoves DEF Repersist, PInv
  <2> QED
    BY <1>1, <1>2, <2>1, PersistIntentKeepsCore DEF Repersist, PlainPhases
<1>3. CASE ~Held(x)
  BY <1>1, <1>3, FinishWalk DEF Repersist
<1> QED
  BY <1>2, <1>3

LEMMA EvidenceKeepsCore ==
  ASSUME PInv, NEW x \in Execs, Evidence(x)
  PROVE  Core'
<1> DEFINE r == [exec[x] EXCEPT !.pc = "observed", !.found = HasEvidence(exec[x].target)]
<1>1. Busy(x) /\ UNCHANGED <<lease, intents, wire, accepted>> /\ exec[x] \in Execution
  BY ExecTyped DEF Evidence, PInv, Busy, At
<1>2. CASE exec' = [exec EXCEPT ![x] = r]
  <2>1. exec'[x] = r /\ \A y \in Execs \ {x} : exec'[y] = exec[y]
    BY <1>2 DEF PInv, IInv, TypeOK
  <2>2. r.pc = "observed" /\ r.epoch = exec[x].epoch /\ r.item = exec[x].item
    BY <1>1 DEF Execution
  <2> HIDE DEF r
  <2>3. Moves(x) /\ exec'[x].pc \in PlainPhases
    BY <2>1, <2>2 DEF Moves, TicketPhases, PlainPhases
  <2> QED
    BY <1>1, <2>3, PlainWalk
<1>3. CASE \E outcome : Finish(x, outcome)
  BY <1>1, <1>3, FinishWalk
<1> QED
  BY <1>2, <1>3 DEF Evidence

LEMMA ObservedKeepsCore ==
  ASSUME PInv, NEW x \in Execs, Observed(x)
  PROVE  Core'
<1>1. Busy(x) /\ UNCHANGED <<lease, intents, wire, accepted>>
  BY DEF Observed, Busy, At
<1>2. \/ \E outcome : Finish(x, outcome)
      \/ \E k \in {"recovered", "unknown", "terminal"} : GotoWrite(x, exec[x].target, k)
  BY DEF Observed
<1> QED
  BY <1>1, <1>2, FinishWalk, GotoWriteWalk

LEMMA CheckWriteKeepsCore ==
  ASSUME PInv, NEW x \in Execs, CheckWrite(x)
  PROVE  Core'
<1>1. Busy(x) /\ exec[x].pc = "check" /\ UNCHANGED <<lease, intents, wire, accepted>>
  BY DEF CheckWrite, Busy, At
<1>2. CASE Goto(x, "write")
  <2>1. /\ Moves(x) /\ exec'[x].pc = "write" /\ exec'[x].target = exec[x].target
        /\ exec'[x].write = exec[x].write
    BY <1>2, GotoMoves DEF PInv, TicketPhases
  <2>2. Held(x) => View(x)'
    <3> PICK t : t = exec[x].target
      OBVIOUS
    <3>1. Held(x) /\ exec[x].write = "failed" => t \in Ops /\ Quiet(t)
      BY <1>1 DEF PInv, Core, Views, View
    <3>2. Held(x) /\ exec[x].write = "failed" => t \in Ops /\ Quiet(t)'
      BY <1>1, <2>1, <3>1, QuietWhileWalking
    <3> QED
      BY <2>1, <3>2 DEF View
  <2> QED
    BY <1>1, <2>1, <2>2, WalkKeepsCore
<1>3. CASE \E outcome : Finish(x, outcome)
  BY <1>1, <1>3, FinishWalk
<1> QED
  BY <1>2, <1>3 DEF CheckWrite

\* A completion write of the holder that seals the row, or of a quiet operation.
LEMMA SettleKeepsCore ==
  ASSUME PInv, NEW x \in Execs, Busy(x), Held(x), Moves(x), View(x)',
         UNCHANGED <<lease, wire, accepted>>,
         NEW o, NEW row, SetIntent(o, row),
         \/ row.status \in {"reconciled", "outcome_unknown"}
         \/ row.status = "pending" /\ row.result
         \/ (o \in Ops => Quiet(o))
  PROVE  Core'
<1>1. \A p \in Ops \ {o} : intents'[p] = intents[p]
  BY DEF SetIntent, PInv, IInv, TypeOK
<1>2. o \in Ops => Quiet(o) \/ Sealed(o)'
  BY DEF SetIntent, PInv, IInv, TypeOK, Sealed
<1> QED
  BY <1>1, <1>2, WriteKeepsCore

\* The status of the row that a completion writes, whatever row it starts from.
LEMMA SettledStatus ==
  ASSUME IInv, NEW o \in Ops
  PROVE  /\ Reconciled(o).status = "reconciled"
         /\ \A s, t : Settled(o, s, t).status = s
         /\ [Merged(o) EXCEPT !.result = TRUE].status = "pending"
         /\ [Merged(o) EXCEPT !.result = TRUE].result
<1>1. intents[o] \in IntentRow
  BY DEF IInv, TypeOK
<1> QED
  BY <1>1 DEF Reconciled, Settled, Merged, IntentRow

\* A reconciliation by x that ends the call.
LEMMA ReconcileKeepsCore ==
  ASSUME PInv, NEW x \in Execs, Busy(x), NEW outcome, Finish(x, outcome),
         NEW o, NEW row, reconcileOperationIntent(x, o, row),
         UNCHANGED <<lease, wire, accepted>>,
         \/ row.status \in {"reconciled", "outcome_unknown"}
         \/ (Held(x) /\ o \in Ops => Quiet(o))
  PROVE  Core'
<1>1. CASE Held(x) /\ Reconcilable(o, row.status)
  <2>1. Moves(x) /\ exec'[x].pc \in PlainPhases
    BY FinishMoves DEF PInv, PlainPhases
  <2> QED
    BY <1>1, <2>1, PlainView, SettleKeepsCore DEF reconcileOperationIntent
<1>2. CASE ~(Held(x) /\ Reconcilable(o, row.status))
  BY <1>2, FinishWalk DEF reconcileOperationIntent
<1> QED
  BY <1>1, <1>2

LEMMA WriteResultKeepsCore ==
  ASSUME PInv, NEW x \in Execs, WriteResult(x)
  PROVE  Core'
<1> PICK o : o = exec[x].target
  OBVIOUS
<1>1. Busy(x) /\ UNCHANGED <<lease, wire, accepted>>
  BY DEF WriteResult, Busy, At
<1>2. CASE exec[x].write = "stash"
  <2>1. GotoWrite(x, o, "done")
    BY <1>2 DEF WriteResult
  <2>2. Moves(x) /\ View(x)'
    BY <2>1, GotoWriteMoves DEF PInv, View
  <2>3. CASE UNCHANGED intents
    BY <1>1, <2>1, <2>3, GotoWriteWalk
  <2>4. CASE Held(x) /\ SetIntent(o, [Merged(o) EXCEPT !.result = TRUE])
    <3>1. CASE o \in Ops
      BY <1>1, <2>2, <2>4, <3>1, SettledStatus, SettleKeepsCore DEF PInv
    <3>2. CASE o \notin Ops
      BY <1>1, <2>2, <2>4, <3>2, SettleKeepsCore
    <3> QED
      BY <3>1, <3>2
  <2> QED
    BY <1>2, <2>3, <2>4 DEF WriteResult
<1>3. CASE exec[x].write # "stash"
  <2>1. Finish(x, "success") /\ reconcileOperationIntent(x, o, Reconciled(o))
    BY <1>3 DEF WriteResult
  <2>2. CASE o \in Ops
    BY <1>1, <2>1, <2>2, SettledStatus, ReconcileKeepsCore DEF PInv
  <2>3. CASE o \notin Ops
    BY <1>1, <2>1, <2>3, ReconcileKeepsCore
  <2> QED
    BY <2>2, <2>3
<1> QED
  BY <1>2, <1>3

LEMMA WriteFailureKeepsCore ==
  ASSUME PInv, NEW x \in Execs, WriteFailure(x)
  PROVE  Core'
<1> PICK o : o = exec[x].target
  OBVIOUS
<1>1. Busy(x) /\ exec[x].pc = "write" /\ UNCHANGED <<lease, wire, accepted>>
  BY DEF WriteFailure, Busy, At
<1>2. PICK outcome : Finish(x, outcome)
  BY DEF WriteFailure
<1>3. CASE o \notin Ops
  <2>1. \E row : reconcileOperationIntent(x, o, row)
    BY DEF WriteFailure
  <2> QED
    BY <1>1, <1>2, <1>3, <2>1, ReconcileKeepsCore
<1>4. CASE o \in Ops
  <2>1. \/ exec[x].write = "failed" /\ reconcileOperationIntent(x, o, Settled(o, "failed", FALSE))
        \/ \E t \in BOOLEAN : reconcileOperationIntent(x, o, Settled(o, "outcome_unknown", t))
    BY DEF WriteFailure
  <2>2. exec[x].write = "failed" /\ Held(x) => Quiet(o)
    BY <1>1 DEF PInv, Core, Views, View
  <2>3. \A t \in BOOLEAN : Settled(o, "outcome_unknown", t).status = "outcome_unknown"
    BY <1>4, SettledStatus DEF PInv
  <2> QED
    BY <1>1, <1>2, <2>1, <2>2, <2>3, ReconcileKeepsCore
<1> QED
  BY <1>3, <1>4

-----------------------------------------------------------------------------
(* Claims, releases, cancellations, aborts and crashes *)

\* A claim issues a new epoch, which fences off every other execution.
LEMMA ClaimKeepsCore ==
  ASSUME PInv, NEW x \in Execs, NEW i \in Items, Claim(x, i)
  PROVE  Core'
<1>1. /\ exec[x].pc = "idle" /\ UNCHANGED <<intents, wire, accepted>>
      /\ lease.epoch \in Nat /\ \A y \in Execs : exec[y].epoch \in Nat
  BY ExecFields DEF Claim, At, PInv, IInv, TypeOK, LeaseRow
<1>2. /\ exec'[x].pc = "ready" /\ exec'[x].epoch = lease.epoch + 1
      /\ \A y \in Execs \ {x} : exec'[y] = exec[y]
  BY DEF Claim, IdleExec, PInv, IInv, TypeOK
<1>3. lease'.epoch = lease.epoch + 1
  BY DEF Claim, acquirePrActorLease
<1>4. \A y \in Execs \ {x} : Busy(y)' => Busy(y) /\ exec'[y].epoch = exec[y].epoch
                                            /\ exec[y].epoch <= lease.epoch
  BY <1>2 DEF Busy, PInv, Core, EpochsIssued
<1>5. EpochsIssued'
  BY <1>1, <1>2, <1>3, <1>4 DEF EpochsIssued
<1>6. EpochUnique'
  BY <1>1, <1>2, <1>4 DEF PInv, Core, EpochUnique
<1>7. \A y \in Execs, o \in Ops : Ticket(y, o)' => Ticket(y, o)
  BY <1>2 DEF Ticket, TicketPhases
<1>8. Tickets' /\ \A o \in Ops : Quiet(o) => Quiet(o)'
  BY <1>1, <1>7 DEF PInv, Core, Tickets, OneTicket, Quiet, OnWire
<1>9. Seals'
  BY <1>1, <1>8 DEF PInv, Core, Seals, Sealed
<1>10. Views'
  <2>1. \A y \in Execs \ {x} : Busy(y)' => ~Held(y)'
    BY <1>1, <1>3, <1>4 DEF Held, isPrActorLeaseHeld
  <2> QED
    BY <1>2, <2>1, PlainView DEF Views, PlainPhases
<1> QED
  BY <1>5, <1>6, <1>8, <1>9, <1>10 DEF Core

\* A step of the world around the calls: an execution stays where it is or is gone.
LEMMA QuietStepKeepsCore ==
  ASSUME PInv, UNCHANGED <<intents, wire, accepted>>,
         lease'.epoch = lease.epoch,
         \A i, e : isPrActorLeaseHeld(lease', i, e) => isPrActorLeaseHeld(lease, i, e),
         \A y \in Execs : \/ exec'[y].pc = "idle"
                          \/ SameSpot(y) /\ exec'[y].item = exec[y].item
  PROVE  Core'
<1>1. LocalStep
  BY DEF LocalStep, SameSpot, Busy, Ticket, TicketPhases
<1>2. /\ EpochsIssued' /\ EpochUnique' /\ Tickets'
      /\ \A y \in Execs : Busy(y)' /\ Held(y)' => Busy(y) /\ Held(y)
      /\ \A o \in Ops : Quiet(o) => Quiet(o)'
  BY <1>1, LocalEpochs, LocalTickets
<1>3. Seals'
  BY <1>2 DEF PInv, Core, Seals, Sealed
<1>4. Views'
  BY <1>2, SameView, PlainView DEF PInv, Core, Views, PlainPhases
<1> QED
  BY <1>2, <1>3, <1>4 DEF Core

LEMMA GoneExec ==
  ASSUME IInv, NEW x \in Execs, exec' = [exec EXCEPT ![x] = IdleExec]
  PROVE  \A y \in Execs : \/ exec'[y].pc = "idle"
                          \/ SameSpot(y) /\ exec'[y].item = exec[y].item
BY DEF IInv, TypeOK, IdleExec, SameSpot

\* A cleared row is held by nobody.
LEMMA ClearedLease ==
  ASSUME IInv
  PROVE  /\ Cleared(lease).epoch = lease.epoch
         /\ \A i, e : ~isPrActorLeaseHeld(Cleared(lease), i, e)
BY DEF IInv, TypeOK, LeaseRow, Cleared, isPrActorLeaseHeld

LEMMA LeaveKeepsCore ==
  ASSUME PInv, NEW x \in Execs, Leave(x)
  PROVE  Core'
<1>1. lease' \in {lease, Cleared(lease)}
  BY DEF Leave, releasePrActorLease
<1> QED
  BY <1>1, GoneExec, ClearedLease, QuietStepKeepsCore DEF Leave, PInv

LEMMA CrashKeepsCore ==
  ASSUME PInv, NEW x \in Execs, Crash(x)
  PROVE  Core'
BY GoneExec, QuietStepKeepsCore DEF Crash, PInv

LEMMA CancelKeepsCore ==
  ASSUME PInv, NEW i \in Items, CancelItem(i)
  PROVE  Core'
<1>1. lease' \in {lease, Cleared(lease)}
  BY DEF CancelItem, releasePrActorLeaseHeldByWorkItems
<1> QED
  BY <1>1, ClearedLease, QuietStepKeepsCore DEF CancelItem, PInv, SameSpot

LEMMA ExpiryKeepsCore ==
  ASSUME PInv, LeaseExpires
  PROVE  Core'
<1>1. /\ lease'.epoch = lease.epoch
      /\ \A i, e : ~isPrActorLeaseHeld(lease', i, e)
  BY DEF LeaseExpires, PInv, IInv, TypeOK, LeaseRow, isPrActorLeaseHeld
<1> QED
  BY <1>1, QuietStepKeepsCore DEF LeaseExpires, SameSpot

LEMMA AbortKeepsCore ==
  ASSUME PInv, NEW x \in Execs, Abort(x)
  PROVE  Core'
<1>1. PICK lost \in BOOLEAN : exec' = [exec EXCEPT ![x].aborted = TRUE, ![x].lost = lost]
  BY DEF Abort
<1>2. \A y \in Execs : SameSpot(y) /\ exec'[y].item = exec[y].item
  <2> SUFFICES ASSUME NEW y \in Execs
               PROVE  SameSpot(y) /\ exec'[y].item = exec[y].item
    OBVIOUS
  <2>1. exec[y] \in Execution
    BY ExecTyped DEF PInv
  <2> QED
    BY <1>1, <2>1 DEF PInv, IInv, TypeOK, SameSpot, Execution
<1> QED
  BY <1>2, QuietStepKeepsCore DEF Abort

\* No lapsed lease is revived.
LEMMA RenewalImpossible ==
  ASSUME PInv, NEW x \in Execs, LateRenewal(x)
  PROVE  FALSE
BY DEF PInv, NoRevival, LateRenewal, Spend, IInv, TypeOK

-----------------------------------------------------------------------------
(* GitHub answers *)

LEMMA ReplyMoves ==
  ASSUME IInv, NEW r, NEW s, Reply(r, s)
  PROVE  \A y \in Execs :
           /\ exec'[y].pc = exec[y].pc /\ exec'[y].op = exec[y].op
           /\ exec'[y].epoch = exec[y].epoch /\ exec'[y].item = exec[y].item
           /\ exec'[y].target = exec[y].target /\ exec'[y].write = exec[y].write
           /\ exec'[y].reply = IF Awaits(y, r) THEN s ELSE exec[y].reply
<1> SUFFICES ASSUME NEW y \in Execs
             PROVE  /\ exec'[y].pc = exec[y].pc /\ exec'[y].op = exec[y].op
                    /\ exec'[y].epoch = exec[y].epoch /\ exec'[y].item = exec[y].item
                    /\ exec'[y].target = exec[y].target /\ exec'[y].write = exec[y].write
                    /\ exec'[y].reply = IF Awaits(y, r) THEN s ELSE exec[y].reply
  OBVIOUS
<1>1. exec[y] \in Execution
  BY ExecTyped
<1> QED
  BY <1>1 DEF Reply, Execution

\* No view but that of a rejected call is about an operation on the wire.
LEMMA AcceptKeepsCore ==
  ASSUME PInv, NEW r \in wire, GithubAccepts(r)
  PROVE  Core'
<1> PICK o : o = r.op
  OBVIOUS
<1>1. /\ o \in Ops /\ OnWire(o) /\ accepted[o] = 0 /\ ~Quiet(o) /\ Sealed(o)
      /\ \A x \in Execs : ~Ticket(x, o)
  <2>1. o \in Ops /\ OnWire(o)
    BY DEF PInv, IInv, TypeOK, Request, OnWire
  <2>2. accepted[o] \in Nat /\ OneTicket(o)
    BY <2>1 DEF PInv, IInv, TypeOK, Core, Tickets
  <2>3. accepted[o] = 0 /\ \A x \in Execs : ~Ticket(x, o)
    BY <2>1, <2>2 DEF OneTicket
  <2>4. ~Quiet(o) /\ Sealed(o)
    BY <2>1 DEF PInv, Core, Seals, Quiet
  <2> QED
    BY <2>1, <2>3, <2>4
<1>2. \A y \in Execs : /\ exec'[y].pc = exec[y].pc /\ exec'[y].op = exec[y].op
                       /\ exec'[y].epoch = exec[y].epoch /\ exec'[y].item = exec[y].item
                       /\ exec'[y].target = exec[y].target /\ exec'[y].write = exec[y].write
                       /\ exec'[y].reply \in {"ok", exec[y].reply}
  BY ReplyMoves DEF GithubAccepts, PInv
<1>3. /\ UNCHANGED <<lease, intents>> /\ wire' = wire \ {r}
      /\ accepted'[o] = 1 /\ \A p \in Ops \ {o} : accepted'[p] = accepted[p]
  BY <1>1 DEF GithubAccepts, PInv, IInv, TypeOK
<1>4. LocalStep
  BY <1>2, <1>3 DEF LocalStep, Busy, Ticket
<1>5. ~OnWire(o)' /\ \A p \in Ops : OnWire(p)' => OnWire(p)
  BY <1>1, <1>3 DEF PInv, Core, Tickets, OneTicket, OnWire
<1>6. \A p \in Ops : Quiet(p) => Quiet(p)'
  BY <1>1, <1>3, <1>4, <1>5 DEF Quiet, LocalStep
<1>7. Tickets'
  BY <1>1, <1>3, <1>4, <1>5 DEF PInv, Core, Tickets, OneTicket, LocalStep
<1>8. Seals'
  BY <1>3, <1>6 DEF PInv, Core, Seals, Sealed
<1>9. Views'
  <2> SUFFICES ASSUME NEW y \in Execs, Busy(y)', Held(y)'
               PROVE  View(y)'
    BY DEF Views
  <2>1. View(y) /\ exec[y].epoch = exec'[y].epoch
    BY <1>2, <1>3 DEF PInv, Core, Views, Busy, Held
  <2>2. exec[y].pc \notin {"idle", "ready"} => exec[y].op \in Ops
    BY DEF PInv, IInv, BoundOps
  <2> QED
    BY <1>2, <1>3, <1>6, <2>1, <2>2 DEF View, Open, ArmedBy
<1> QED
  BY <1>4, <1>7, <1>8, <1>9, LocalEpochs DEF Core

\* What GitHub rejects was the only request, so its operation is quiet again.
LEMMA RejectKeepsCore ==
  ASSUME PInv, NEW r \in wire, GithubRejects(r)
  PROVE  Core'
<1> PICK o : o = r.op
  OBVIOUS
<1>1. /\ o \in Ops /\ accepted[o] = 0 /\ \A x \in Execs : ~Ticket(x, o)
      /\ \A s \in wire : s.op = o => s = r
  <2>1. o \in Ops /\ OnWire(o)
    BY DEF PInv, IInv, TypeOK, Request, OnWire
  <2>2. accepted[o] \in Nat /\ OneTicket(o)
    BY <2>1 DEF PInv, IInv, TypeOK, Core, Tickets
  <2> QED
    BY <2>1, <2>2 DEF OneTicket
<1>2. \A y \in Execs : /\ exec'[y].pc = exec[y].pc /\ exec'[y].op = exec[y].op
                       /\ exec'[y].epoch = exec[y].epoch /\ exec'[y].item = exec[y].item
                       /\ exec'[y].target = exec[y].target /\ exec'[y].write = exec[y].write
                       /\ exec[y].op # o => exec'[y].reply = exec[y].reply
  BY ReplyMoves DEF GithubRejects, PInv, Awaits
<1>3. UNCHANGED <<lease, intents, accepted>> /\ wire' = wire \ {r}
  BY DEF GithubRejects
<1>4. LocalStep
  BY <1>2, <1>3 DEF LocalStep, Busy, Ticket
<1>5. ~OnWire(o)' /\ \A p \in Ops : OnWire(p)' => OnWire(p)
  BY <1>1, <1>3 DEF OnWire
<1>6. Quiet(o)' /\ \A p \in Ops : Quiet(p) => Quiet(p)'
  BY <1>1, <1>3, <1>4, <1>5 DEF Quiet, LocalStep
<1>7. Tickets'
  BY <1>3, <1>4, <1>5 DEF PInv, Core, Tickets, OneTicket, LocalStep
<1>8. Seals'
  BY <1>3, <1>6 DEF PInv, Core, Seals, Sealed
<1>9. Views'
  <2> SUFFICES ASSUME NEW y \in Execs, Busy(y)', Held(y)'
               PROVE  View(y)'
    BY DEF Views
  <2>1. View(y) /\ exec[y].epoch = exec'[y].epoch
    BY <1>2, <1>3 DEF PInv, Core, Views, Busy, Held
  <2>2. exec[y].pc \notin {"idle", "ready"} => exec[y].op \in Ops
    BY DEF PInv, IInv, BoundOps
  <2> QED
    BY <1>2, <1>3, <1>6, <2>1, <2>2 DEF View, Open, ArmedBy
<1> QED
  BY <1>4, <1>7, <1>8, <1>9, LocalEpochs DEF Core

-----------------------------------------------------------------------------
(* Theorems *)

\* Revivals are spent only by late renewals, and none is left.
LEMMA SpendKeepsNoRevival ==
  ASSUME PInv, UNCHANGED budget \/ \E e \in Events : Spend(e)
  PROVE  NoRevival'
<1>1. CASE UNCHANGED budget
  BY <1>1 DEF PInv, NoRevival
<1>2. ASSUME NEW e \in Events, Spend(e)
      PROVE  NoRevival'
  <2>1. e # "revive"
    BY <1>2 DEF PInv, NoRevival, Spend
  <2> QED
    BY <1>2, <2>1 DEF PInv, NoRevival, Spend, IInv, TypeOK, Events
<1> QED
  BY <1>1, <1>2

LEMMA EnvironmentSpends ==
  ASSUME Environment
  PROVE  UNCHANGED budget \/ \E e \in Events : Spend(e)
BY DEF Environment, GithubAccepts, GithubRejects, LeaseExpires, CancelItem, LateRenewal,
       Abort, Crash, Events

LEMMA ExecutionSpends ==
  ASSUME NEW x \in Execs, ExecStep(x)
  PROVE  UNCHANGED budget \/ \E e \in Events : Spend(e)
<1>1. CASE \/ \E i \in Items : Claim(x, i)
           \/ \E o \in Ops : Call(x, o)
           \/ Respond(x) \/ Evidence(x)
  BY <1>1 DEF Claim, Call, Respond, Evidence, Events
<1>2. CASE \/ Leave(x) \/ Persist(x) \/ Decide(x) \/ Lookup(x) \/ ArmCheck(x) \/ Arm(x)
           \/ SendCheck(x) \/ Mark(x) \/ Gate(x) \/ Confirm(x) \/ Send(x) \/ Unsent(x)
  BY <1>2 DEF Leave, Persist, Decide, Lookup, ArmCheck, Arm, SendCheck, Mark, Gate, Confirm,
              Send, Unsent
<1>3. CASE \/ Repersist(x) \/ Observed(x) \/ CheckWrite(x)
           \/ WriteResult(x) \/ WriteFailure(x)
  BY <1>3 DEF Repersist, Observed, CheckWrite, WriteResult, WriteFailure
<1> QED
  BY <1>1, <1>2, <1>3 DEF ExecStep

LEMMA InitPInv ==
  ASSUME Init, Budget["revive"] = 0
  PROVE  PInv
<1>1. IInv /\ NoRevival
  BY InitIInv DEF Init, NoRevival
<1>2. /\ wire = {} /\ \A o \in Ops : accepted[o] = 0
      /\ \A x \in Execs : exec[x].pc = "idle"
  BY DEF Init, IdleExec
<1>3. \A o \in Ops : Quiet(o)
  BY <1>2 DEF Quiet, OnWire, Ticket, TicketPhases
<1>4. Tickets
  BY <1>2 DEF Tickets, OneTicket, OnWire, Ticket, TicketPhases
<1> QED
  BY <1>1, <1>2, <1>3, <1>4 DEF PInv, Core, EpochsIssued, EpochUnique, Seals, Views, Busy

LEMMA StepKeepsPInv ==
  ASSUME PInv, [Next]_vars
  PROVE  PInv'
<1>1. IInv'
  BY StepFrame, FrameKeepsIInv DEF PInv
<1>2. NoRevival'
  BY EnvironmentSpends, ExecutionSpends, SpendKeepsNoRevival DEF Next, vars
<1>3. Core'
  <2>1. CASE UNCHANGED vars
    BY <2>1, QuietStepKeepsCore DEF vars, SameSpot
  <2>2. CASE Environment
    BY <2>2, AcceptKeepsCore, RejectKeepsCore, ExpiryKeepsCore, CancelKeepsCore,
       RenewalImpossible, AbortKeepsCore, CrashKeepsCore DEF Environment
  <2>3. ASSUME NEW x \in Execs, ExecStep(x)
        PROVE  Core'
    BY <2>3, ClaimKeepsCore, CallKeepsCore, LeaveKeepsCore, PersistKeepsCore,
       DecideKeepsCore, LookupKeepsCore, ArmCheckKeepsCore, ArmKeepsCore, SendCheckKeepsCore,
       MarkKeepsCore, GateKeepsCore, ConfirmKeepsCore, SendKeepsCore, UnsentKeepsCore,
       RespondKeepsCore, RepersistKeepsCore, EvidenceKeepsCore, ObservedKeepsCore,
       CheckWriteKeepsCore, WriteResultKeepsCore, WriteFailureKeepsCore
       DEF ExecStep
  <2> QED
    BY <2>1, <2>2, <2>3 DEF Next
<1> QED
  BY <1>1, <1>2, <1>3 DEF PInv

\* What the tickets say about the number of requests.
LEMMA SentByTickets ==
  ASSUME PInv, NEW o \in Ops
  PROVE  /\ Sent(o) <= 1
         /\ Quiet(o) => Sent(o) = 0
<1> DEFINE W == {r \in wire : r.op = o}
<1>1. accepted[o] \in Nat /\ OneTicket(o)
  BY DEF PInv, IInv, TypeOK, Core, Tickets
<1>2. CASE ~OnWire(o)
  <2>1. Cardinality(W) = 0
    <3>1. W = {}
      BY <1>2 DEF OnWire
    <3> QED
      BY <3>1, FS_EmptySet
  <2> HIDE DEF W
  <2>2. Sent(o) = accepted[o]
    BY <1>1, <2>1 DEF Sent, W
  <2> QED
    BY <1>1, <2>2 DEF OneTicket, Quiet
<1>3. CASE OnWire(o)
  <2>1. PICK r \in wire : r.op = o
    BY <1>3 DEF OnWire
  <2>2. W = {r}
    BY <1>1, <2>1 DEF OneTicket
  <2>3. Cardinality(W) = 1
    BY <2>2, FS_Singleton
  <2>4. accepted[o] = 0
    BY <1>1, <1>3 DEF OneTicket
  <2> HIDE DEF W
  <2> QED
    BY <1>3, <2>3, <2>4 DEF Sent, W, Quiet
<1> QED
  BY <1>2, <1>3

THEOREM SendInductive ==
  ASSUME Budget["revive"] = 0
  PROVE  Spec => []PInv
<1>1. Init => PInv
  BY InitPInv
<1>2. PInv /\ [Next]_vars => PInv'
  BY StepKeepsPInv
<1> QED
  BY <1>1, <1>2, PTL DEF Spec

\* As long as no lapsed lease is revived, GitHub receives every operation at most once,
\* whatever crashes, timeouts, thefts and cancellations interrupt publishOnce, and for
\* any number of executions and operations.
THEOREM PublishedAtMostOnce ==
  ASSUME Budget["revive"] = 0
  PROVE  Spec => []AtMostOnce
<1>1. PInv => AtMostOnce
  BY SentByTickets DEF AtMostOnce
<1> QED
  BY <1>1, SendInductive, PTL

\* Under the same condition a failed intent, which the next call sends again, has
\* neither been carried out nor is any request for it under way.
THEOREM FailedWasNeverSent ==
  ASSUME Budget["revive"] = 0
  PROVE  Spec => []FailedIsUnsent
<1>1. PInv => FailedIsUnsent
  <2> SUFFICES ASSUME PInv, NEW o \in Ops, intents[o].status = "failed"
               PROVE  Sent(o) = 0
    BY DEF FailedIsUnsent
  <2>1. Quiet(o)
    BY DEF PInv, Core, Seals, Sealed
  <2> QED
    BY <2>1, SentByTickets
<1> QED
  BY <1>1, SendInductive, PTL

-----------------------------------------------------------------------------
(* PublishRecords: the inductive invariant *)

RunPcs == {"idle", "reconcile", "load", "receipt", "publish", "arm", "sent", "check", "write",
           "rejected"}

RunStates ==
  [pc : RunPcs, item : Items \cup {NoItem}, epoch : Nat, op : RecordOps \cup {"none"},
   resumed : SUBSET RecordBatches, published : BOOLEAN, did : SUBSET RecordOps, again : BOOLEAN]

IntentStates == [status : {"pending", "reconciled", "unknown"}, mutating : BOOLEAN, result : BOOLEAN]

RecordsTyped ==
  /\ prLease \in LeaseRow /\ prRows \in [PublishSteps -> RecordRow]
  /\ DOMAIN prIntents \subseteq RecordOps
  /\ \A o \in DOMAIN prIntents : prIntents[o] \in IntentStates
  /\ prAccepted \subseteq RecordOps /\ prEnded \subseteq Items /\ prTold \subseteq RecordBatches
  /\ prRuns \in [RecordRuns -> RunStates] /\ prRevived \in BOOLEAN

\* The mutation was carried out, or the labels were found in place.
Carried(o) == o \in prAccepted \/ (o.step = "labels" /\ o.item \in prSynced)

BatchOp(b) == [step |-> "inline_review", item |-> BatchItem[b], key |-> b]
OnceOp(s, i) == [step |-> s, item |-> i, key |-> "once"]

\* What an attempt does, records and resumes is its own and was carried out, and a record that
\* was refused for want of the lease was refused for good, unless the lease was revived.
RunTrue(x) ==
  /\ prRuns[x].pc # "idle" => prRuns[x].item \in Items
  /\ prRuns[x].epoch <= prLease.epoch
  /\ prRuns[x].pc \in {"arm", "sent", "check", "write", "rejected"} => prRuns[x].op \in OpsOf(prRuns[x].item)
  /\ prRuns[x].pc \in {"arm", "sent"} =>
       prRuns[x].op.step # "progress_comment" /\ prRuns[x].op \in DOMAIN prIntents
  /\ prRuns[x].pc \in {"check", "write", "rejected"} /\ prRuns[x].op.step # "progress_comment" =>
       Carried(prRuns[x].op)
  /\ prRuns[x].pc = "rejected" /\ prRuns[x].op.step # "progress_comment" =>
       prRevived \/ ~isPrActorLeaseHeld(prLease, prRuns[x].item, prRuns[x].epoch)
  /\ SummaryOf(prRuns[x].item) \in prRuns[x].did => SummaryOf(prRuns[x].item) \in prAccepted
  /\ \A b \in prRuns[x].resumed : BatchItem[b] = prRuns[x].item /\ b \in RowBatches

RowsTrue ==
  /\ \A s \in PublishSteps : prRows[s].epoch <= prLease.epoch
  /\ \A s \in {"summary_comment", "labels"} :
       prRows[s].item # NoItem => Carried(OnceOp(s, prRows[s].item))
  /\ \A b \in RowBatches : BatchOp(b) \in prAccepted
  /\ BatchesKept

IntentsTrue ==
  \A o \in DOMAIN prIntents :
    /\ o.step # "progress_comment"
    /\ prIntents[o].status = "reconciled" \/ prIntents[o].result => Carried(o)

RecordsInv ==
  /\ RecordsTyped /\ RowsTrue /\ IntentsTrue /\ EndedHasSummary
  /\ \A x \in RecordRuns : RunTrue(x)

\* Nothing that was carried out, found, recorded or lost is undone, except that a renewal may
\* bring a lapsed lease back.
Onward ==
  /\ prAccepted \subseteq prAccepted' /\ prSynced \subseteq prSynced'
  /\ RowBatches \subseteq RowBatches' /\ DOMAIN prIntents \subseteq DOMAIN prIntents'
  /\ prRevived => prRevived'
  /\ prLease.epoch <= prLease'.epoch
  /\ prRevived' \/ \A i : \A e \in Nat :
       e <= prLease.epoch /\ ~isPrActorLeaseHeld(prLease, i, e) => ~isPrActorLeaseHeld(prLease', i, e)

LEMMA RunRests ==
  ASSUME RecordsInv, Onward, prLease' \in LeaseRow, NEW y \in RecordRuns,
         prRuns'[y] = prRuns[y]
  PROVE  RunTrue(y)'
<1>1. RunTrue(y) /\ prRuns[y] \in RunStates /\ prLease \in LeaseRow
  BY DEF RecordsInv, RecordsTyped
<1>2. prRuns[y].epoch \in Nat /\ prLease.epoch \in Nat
  BY <1>1 DEF RunStates, LeaseRow
<1>3. \A o : Carried(o) => Carried(o)'
  BY DEF Carried, Onward
<1>4. prRuns'[y].pc = "rejected" /\ prRuns'[y].op.step # "progress_comment" =>
         prRevived' \/ ~isPrActorLeaseHeld(prLease', prRuns'[y].item, prRuns'[y].epoch)
  BY <1>1, <1>2 DEF RunTrue, Onward
<1>5. prRuns'[y].epoch <= prLease'.epoch
  BY <1>1, <1>2 DEF RunTrue, Onward, LeaseRow
<1>6. /\ prRuns[y].pc \in {"check", "write", "rejected"} /\ prRuns[y].op.step # "progress_comment" =>
           Carried(prRuns[y].op)'
      /\ SummaryOf(prRuns[y].item) \in prRuns[y].did => SummaryOf(prRuns[y].item) \in prAccepted'
      /\ \A b \in prRuns[y].resumed : BatchItem[b] = prRuns[y].item /\ b \in RowBatches'
  BY <1>1, <1>3 DEF RunTrue, Onward
<1> PICK r : r = prRuns[y]
  OBVIOUS
<1> QED
  BY <1>1, <1>4, <1>5, <1>6 DEF RunTrue, Onward

\* The invariant after a step of one attempt, piece by piece.
LEMMA RecordsHold ==
  ASSUME RecordsInv, Onward, RecordsTyped', RowsTrue', IntentsTrue', EndedHasSummary',
         NEW x \in RecordRuns, RunTrue(x)',
         \A y \in RecordRuns \ {x} : prRuns'[y] = prRuns[y]
  PROVE  RecordsInv'
<1>1. \A y \in RecordRuns \ {x} : RunTrue(y)'
  BY RunRests DEF RecordsTyped
<1> QED
  BY <1>1 DEF RecordsInv

\* What the lease may do in a step: nothing, be taken by a later execution, or be lost.
LeaseMoves ==
  \/ prLease' = prLease
  \/ \E i \in Items : prLease' = acquirePrActorLease(prLease, i)
  \/ \E e \in Nat : prLease' = releasePrActorLease(prLease, e)
  \/ prLease' = [prLease EXCEPT !.live = FALSE]

LEMMA LeaseOnward ==
  ASSUME prLease \in LeaseRow, LeaseMoves
  PROVE  /\ prLease' \in LeaseRow /\ prLease.epoch <= prLease'.epoch
         /\ \A i : \A e \in Nat : e <= prLease.epoch /\ ~isPrActorLeaseHeld(prLease, i, e) =>
              ~isPrActorLeaseHeld(prLease', i, e)
<1> PICK l : l = prLease
  OBVIOUS
<1> PICK m : m = prLease'
  OBVIOUS
<1>1. l \in LeaseRow /\ l.epoch \in Nat
  BY DEF LeaseRow
<1>2. CASE m = l
  BY <1>1, <1>2
<1>3. ASSUME NEW i \in Items, m = acquirePrActorLease(l, i)
      PROVE  m \in LeaseRow /\ m.epoch = l.epoch + 1
  BY <1>1, <1>3 DEF acquirePrActorLease, LeaseRow
<1>4. ASSUME NEW e \in Nat, m = releasePrActorLease(l, e)
      PROVE  m \in LeaseRow /\ m.epoch = l.epoch /\ (m = l \/ m.live = FALSE)
  BY <1>1, <1>4 DEF releasePrActorLease, Cleared, LeaseRow
<1>5. CASE m = [l EXCEPT !.live = FALSE]
  <2>1. m \in LeaseRow /\ m.epoch = l.epoch /\ m.live = FALSE
    BY <1>1, <1>5 DEF LeaseRow
  <2> QED
    BY <1>1, <2>1 DEF isPrActorLeaseHeld
<1>6. /\ m \in LeaseRow
      /\ \/ m = l
         \/ m.epoch = l.epoch + 1
         \/ m.epoch = l.epoch /\ m.live = FALSE
  <2>1. LeaseMoves => \/ m = l \/ (\E i \in Items : m = acquirePrActorLease(l, i))
                      \/ (\E e \in Nat : m = releasePrActorLease(l, e))
                      \/ m = [l EXCEPT !.live = FALSE]
    BY DEF LeaseMoves
  <2>2. CASE m = [l EXCEPT !.live = FALSE]
    BY <1>1, <2>2 DEF LeaseRow
  <2> QED
    BY <1>1, <1>3, <1>4, <2>1, <2>2
<1> QED
  BY <1>1, <1>6 DEF isPrActorLeaseHeld

\* One attempt changes.
OneRuns(x) ==
  /\ prRuns' \in [RecordRuns -> RunStates]
  /\ \A y \in RecordRuns \ {x} : prRuns'[y] = prRuns[y]

LEMMA RunSet ==
  ASSUME prRuns \in [RecordRuns -> RunStates], NEW x \in RecordRuns, NEW s \in RunStates,
         prRuns' = [prRuns EXCEPT ![x] = s]
  PROVE  OneRuns(x) /\ prRuns'[x] = s
BY DEF OneRuns

LEMMA RunGoes ==
  ASSUME prRuns \in [RecordRuns -> RunStates], NEW x \in RecordRuns, NEW pc \in RunPcs,
         AttemptGoes(x, pc)
  PROVE  /\ OneRuns(x) /\ prRuns'[x].pc = pc /\ prRuns'[x].item = prRuns[x].item
         /\ prRuns'[x].epoch = prRuns[x].epoch /\ prRuns'[x].op = prRuns[x].op
         /\ prRuns'[x].resumed = prRuns[x].resumed /\ prRuns'[x].did = prRuns[x].did
         /\ prRuns'[x].published = prRuns[x].published
BY DEF OneRuns, AttemptGoes, RunStates

LEMMA RunRecords ==
  ASSUME prRuns \in [RecordRuns -> RunStates], NEW x \in RecordRuns, NEW o \in RecordOps,
         Recording(x, o)
  PROVE  /\ OneRuns(x) /\ prRuns'[x].pc = "check" /\ prRuns'[x].item = prRuns[x].item
         /\ prRuns'[x].epoch = prRuns[x].epoch /\ prRuns'[x].op = o
         /\ prRuns'[x].resumed = prRuns[x].resumed /\ prRuns'[x].did = prRuns[x].did
BY DEF OneRuns, Recording, RunStates, RunPcs

LEMMA RunRested == RestingRun \in RunStates /\ RestingRun.pc = "idle" /\ RestingRun.epoch = 0
                 /\ RestingRun.did = {} /\ RestingRun.resumed = {}
BY DEF RestingRun, RunStates, RunPcs

\* An attempt that rests holds nothing that could be false.
LEMMA RestsTrue ==
  ASSUME NEW x \in RecordRuns, prRuns'[x] = RestingRun, prLease' \in LeaseRow
  PROVE  RunTrue(x)'
<1>1. prLease'.epoch \in Nat
  BY DEF LeaseRow
<1> QED
  BY <1>1, RunRested DEF RunTrue

LEMMA ThrowRests ==
  ASSUME RecordsInv, NEW x \in RecordRuns, AttemptThrows(x)
  PROVE  OneRuns(x) /\ prRuns'[x] = RestingRun /\ LeaseMoves /\ prLease' \in LeaseRow /\ RunTrue(x)'
<1>1. /\ prLease' = releasePrActorLease(prLease, prRuns[x].epoch)
      /\ prRuns' = [prRuns EXCEPT ![x] = RestingRun]
  BY DEF AttemptThrows
<1>2. prRuns \in [RecordRuns -> RunStates] /\ prLease \in LeaseRow /\ prRuns[x].epoch \in Nat
  BY DEF RecordsInv, RecordsTyped, RunStates
<1>3. OneRuns(x) /\ prRuns'[x] = RestingRun
  BY <1>1, <1>2, RunRested, RunSet
<1>4. LeaseMoves /\ prLease' \in LeaseRow
  BY <1>1, <1>2, LeaseOnward DEF LeaseMoves
<1> QED
  BY <1>3, <1>4, RestsTrue

\* What a failure of an operation leaves: the attempt rests, or goes on without its labels.
LEMMA FailRests ==
  ASSUME RecordsInv, NEW x \in RecordRuns, NEW o \in RecordOps, AttemptFails(x, o),
         prRuns[x].pc # "idle", UNCHANGED <<prRows, prAccepted>>
  PROVE  OneRuns(x) /\ LeaseMoves /\ prLease' \in LeaseRow /\ RunTrue(x)'
<1>1. CASE o.step # "labels"
  BY <1>1, ThrowRests DEF AttemptFails
<1>2. CASE o.step = "labels"
  <2> DEFINE s == [prRuns[x] EXCEPT !.pc = "publish", !.op = "none", !.did = @ \cup {o}]
  <2>1. /\ prRuns' = [prRuns EXCEPT ![x].pc = "publish", ![x].op = "none", ![x].did = @ \cup {o}]
        /\ prLease' = prLease
    BY <1>2 DEF AttemptFails
  <2>2. prRuns \in [RecordRuns -> RunStates] /\ prLease \in LeaseRow /\ prRuns[x] \in RunStates
    BY DEF RecordsInv, RecordsTyped
  <2>3. /\ s \in RunStates /\ s.pc = "publish" /\ s.item = prRuns[x].item
        /\ s.epoch = prRuns[x].epoch /\ s.did = prRuns[x].did \cup {o}
        /\ s.resumed = prRuns[x].resumed
    BY <2>2 DEF RunStates, RunPcs
  <2>9. prRuns' = [prRuns EXCEPT ![x] = s]
    BY <2>1, <2>2
  <2> HIDE DEF s
  <2>4. OneRuns(x) /\ prRuns'[x] = s
    BY <2>2, <2>3, <2>9, RunSet
  <2>5. SummaryOf(s.item) # o
    BY <1>2 DEF SummaryOf
  <2>6. RunTrue(x)
    BY DEF RecordsInv
  <2>7. /\ s.item \in Items /\ s.epoch <= prLease'.epoch
        /\ SummaryOf(s.item) \in s.did => SummaryOf(s.item) \in prAccepted'
        /\ \A b \in s.resumed : BatchItem[b] = s.item /\ b \in RowBatches'
    BY <2>1, <2>3, <2>5, <2>6 DEF RunTrue, RowBatches
  <2>8. RunTrue(x)'
    BY <2>3, <2>4, <2>7 DEF RunTrue
  <2> QED
    BY <2>1, <2>2, <2>4, <2>8 DEF LeaseMoves
<1> QED
  BY <1>1, <1>2

\* The intents after a step: typed, true, and none of them gone.
IntentsFollow ==
  /\ DOMAIN prIntents \subseteq DOMAIN prIntents' /\ DOMAIN prIntents' \subseteq RecordOps
  /\ \A o \in DOMAIN prIntents' : prIntents'[o] \in IntentStates
  /\ IntentsTrue'

LEMMA IntentsKept ==
  ASSUME RecordsInv, prIntents' = prIntents, prAccepted \subseteq prAccepted',
         prSynced \subseteq prSynced'
  PROVE  IntentsFollow
<1>1. \A o : Carried(o) => Carried(o)'
  BY DEF Carried
<1> QED
  BY <1>1 DEF RecordsInv, RecordsTyped, IntentsTrue, IntentsFollow

LEMMA IntentsSet ==
  ASSUME RecordsInv, NEW new, DOMAIN new \subseteq RecordOps, IntentsBecome(new),
         \A o \in DOMAIN new :
           new[o] \in IntentStates /\ o.step # "progress_comment"
           /\ (new[o].status = "reconciled" \/ new[o].result => Carried(o)'),
         prAccepted \subseteq prAccepted', prSynced \subseteq prSynced'
  PROVE  IntentsFollow /\ DOMAIN new \subseteq DOMAIN prIntents'
<1>1. \A o : Carried(o) => Carried(o)'
  BY DEF Carried
<1>2. /\ DOMAIN prIntents' = DOMAIN prIntents \cup DOMAIN new
      /\ \A o \in DOMAIN prIntents' : prIntents'[o] = IF o \in DOMAIN new THEN new[o] ELSE prIntents[o]
  BY DEF IntentsBecome
<1>3. /\ DOMAIN prIntents \subseteq RecordOps
      /\ \A o \in DOMAIN prIntents : prIntents[o] \in IntentStates
      /\ \A o \in DOMAIN prIntents : o.step # "progress_comment"
           /\ (prIntents[o].status = "reconciled" \/ prIntents[o].result => Carried(o))
  BY DEF RecordsInv, RecordsTyped, IntentsTrue
<1>4. ASSUME NEW o \in DOMAIN prIntents'
      PROVE  /\ prIntents'[o] \in IntentStates /\ o.step # "progress_comment"
             /\ prIntents'[o].status = "reconciled" \/ prIntents'[o].result => Carried(o)'
  <2>1. CASE o \in DOMAIN new
    BY <1>2, <2>1
  <2>2. CASE o \notin DOMAIN new
    BY <1>1, <1>2, <1>3, <2>2
  <2> QED
    BY <2>1, <2>2
<1> QED
  BY <1>2, <1>3, <1>4 DEF IntentsTrue, IntentsFollow

LEMMA IntentSet ==
  ASSUME RecordsInv, NEW o \in RecordOps, NEW intent \in IntentStates, IntentBecomes(o, intent),
         o.step # "progress_comment",
         intent.status = "reconciled" \/ intent.result => Carried(o)',
         prAccepted \subseteq prAccepted', prSynced \subseteq prSynced'
  PROVE  IntentsFollow /\ o \in DOMAIN prIntents'
<1> DEFINE new == [q \in {o} |-> intent]
<1>1. DOMAIN new = {o} /\ new[o] = intent
  OBVIOUS
<1>2. IntentsBecome(new)
  BY DEF IntentBecomes
<1> HIDE DEF new
<1> QED
  BY <1>1, <1>2, IntentsSet

LEMMA RowsUntouched ==
  ASSUME RecordsInv, prRows' = prRows, prTold' = prTold, prAccepted \subseteq prAccepted',
         prSynced \subseteq prSynced', prRevived => prRevived', prLease' \in LeaseRow,
         prLease.epoch <= prLease'.epoch
  PROVE  RowsTrue' /\ RowBatches' = RowBatches
<1>1. RowBatches' = RowBatches
  BY DEF RowBatches
<1>2. \A o : Carried(o) => Carried(o)'
  BY DEF Carried
<1>3. \A s \in PublishSteps : prRows'[s].epoch <= prLease'.epoch
  <2>1. \A s \in PublishSteps : prRows[s].epoch \in Nat /\ prRows[s].epoch <= prLease.epoch
    BY DEF RecordsInv, RecordsTyped, RowsTrue, RecordRow
  <2>2. prLease.epoch \in Nat /\ prLease'.epoch \in Nat
    BY DEF RecordsInv, RecordsTyped, LeaseRow
  <2> QED
    BY <2>1, <2>2
<1>4. BatchesKept'
  BY <1>1 DEF RecordsInv, RowsTrue, BatchesKept
<1>5. \A s \in {"summary_comment", "labels"} :
        prRows[s].item # NoItem => Carried(OnceOp(s, prRows[s].item))
  BY DEF RecordsInv, RowsTrue
<1>6. (\A s \in {"summary_comment", "labels"} :
         prRows[s].item # NoItem => Carried(OnceOp(s, prRows[s].item)))'
  BY <1>2, <1>5 DEF OnceOp
<1>7. (\A b \in RowBatches : BatchOp(b) \in prAccepted)'
  BY <1>1 DEF RecordsInv, RowsTrue, BatchOp
<1> QED
  BY <1>1, <1>3, <1>4, <1>6, <1>7 DEF RowsTrue

\* The steps of an attempt that leave the rows alone.
LEMMA QuietHolds ==
  ASSUME RecordsInv, NEW x \in RecordRuns, OneRuns(x), LeaseMoves, prRows' = prRows,
         prTold' = prTold, prRevived' = prRevived, prSynced \subseteq prSynced',
         prAccepted \subseteq prAccepted', prAccepted' \subseteq RecordOps, IntentsFollow,
         prEnded' \subseteq Items, EndedHasSummary', RunTrue(x)'
  PROVE  RecordsInv'
<1>1. prLease \in LeaseRow
  BY DEF RecordsInv, RecordsTyped
<1>2. /\ prLease' \in LeaseRow /\ prLease.epoch <= prLease'.epoch
      /\ \A i : \A e \in Nat : e <= prLease.epoch /\ ~isPrActorLeaseHeld(prLease, i, e) =>
              ~isPrActorLeaseHeld(prLease', i, e)
  BY <1>1, LeaseOnward
<1>3. RowsTrue' /\ RowBatches' = RowBatches
  BY <1>2, RowsUntouched
<1>4. Onward
  BY <1>2, <1>3 DEF Onward, IntentsFollow
<1>5. RecordsTyped'
  BY <1>2 DEF RecordsInv, RecordsTyped, OneRuns, IntentsFollow
<1> QED
  BY <1>3, <1>4, <1>5, RecordsHold DEF IntentsFollow, OneRuns

\* Most steps leave the answers of the pull request and the ended items alone.
LEMMA EndedKept ==
  ASSUME RecordsInv, prEnded' = prEnded, prAccepted \subseteq prAccepted'
  PROVE  prEnded' \subseteq Items /\ EndedHasSummary'
BY DEF RecordsInv, RecordsTyped, EndedHasSummary, SummaryOf

(* The steps of an attempt *)

LEMMA AttemptFacts ==
  ASSUME RecordsInv, NEW x \in RecordRuns
  PROVE  /\ prRuns \in [RecordRuns -> RunStates] /\ prRuns[x] \in RunStates
         /\ prLease \in LeaseRow /\ prLease.epoch \in Nat /\ RunTrue(x)
         /\ prAccepted \subseteq RecordOps
         /\ prRuns[x].pc # "idle" => prRuns[x].item \in Items
BY DEF RecordsInv, RecordsTyped, RunTrue, LeaseRow

LEMMA OpsAre ==
  ASSUME RecordAssumption, NEW i \in Items, NEW o \in OpsOf(i)
  PROVE  /\ o \in RecordOps /\ o.item = i
         /\ o.step = "inline_review" => o = BatchOp(o.key) /\ o.key \in RecordBatches
         /\ o.step # "inline_review" => o = OnceOp(o.step, i) /\ o.step \in PublishSteps
<1>1. o \in RecordOps /\ o.item = i /\ (o.step = "inline_review" => BatchItem[o.key] = i)
  BY DEF OpsOf
<1>2. CASE o \in [step: {"inline_review"}, item: Items, key: RecordBatches]
  BY <1>1, <1>2 DEF BatchOp
<1>3. CASE o \in [step: PublishSteps \ {"inline_review"}, item: Items, key: {"once"}]
  BY <1>1, <1>3 DEF OnceOp
<1> QED
  BY <1>1, <1>2, <1>3 DEF RecordOps

StartedRun(i, n) == [RestingRun EXCEPT !.pc = "reconcile", !.item = i, !.epoch = n]

LEMMA RunStarted ==
  ASSUME NEW i \in Items, NEW n \in Nat
  PROVE  /\ StartedRun(i, n) \in RunStates /\ StartedRun(i, n).pc = "reconcile"
         /\ StartedRun(i, n).item = i /\ StartedRun(i, n).epoch = n
         /\ StartedRun(i, n).resumed = {} /\ StartedRun(i, n).did = {}
<1> PICK r : r = RestingRun
  OBVIOUS
<1>1. r \in RunStates /\ r.did = {} /\ r.resumed = {}
  BY RunRested
<1> QED
  BY <1>1 DEF StartedRun, RunStates, RunPcs

LEMMA ClaimsReviewHolds ==
  ASSUME RecordsInv, NEW x \in RecordRuns, NEW i \in Items, ClaimsReview(x, i)
  PROVE  RecordsInv'
<1> DEFINE s == StartedRun(i, prLease.epoch + 1)
<1>1. /\ prLease' = acquirePrActorLease(prLease, i)
      /\ prRuns' = [prRuns EXCEPT ![x] = s]
      /\ UNCHANGED <<prRows, prIntents, prAccepted, prEnded, prTold, prSynced, prRevived>>
  BY DEF ClaimsReview, StartedRun
<1>2. prRuns \in [RecordRuns -> RunStates] /\ prLease \in LeaseRow /\ prLease.epoch \in Nat
      /\ prAccepted \subseteq RecordOps
  BY AttemptFacts
<1>3. s \in RunStates /\ s.pc = "reconcile" /\ s.item = i /\ s.epoch = prLease.epoch + 1
      /\ s.resumed = {} /\ s.did = {}
  <2>1. prLease.epoch + 1 \in Nat
    BY <1>2
  <2> QED
    BY <2>1, RunStarted
<1> HIDE DEF s
<1>4. OneRuns(x) /\ prRuns'[x] = s
  BY <1>1, <1>2, <1>3, RunSet
<1>5. prLease'.epoch = prLease.epoch + 1 /\ LeaseMoves
  BY <1>1, <1>2 DEF acquirePrActorLease, LeaseMoves
<1>6. RunTrue(x)'
  BY <1>2, <1>3, <1>4, <1>5 DEF RunTrue
<1>7. IntentsFollow /\ prEnded' \subseteq Items /\ EndedHasSummary'
  BY <1>1, IntentsKept, EndedKept
<1> QED
  BY <1>1, <1>2, <1>4, <1>5, <1>6, <1>7, QuietHolds

\* A record of an intent's operation is a record of what was carried out.
LEMMA RecordForIsTrue ==
  ASSUME RecordAssumption, NoItemAssumption, RecordsInv, NEW i \in Items, NEW o \in OpsOf(i), RecordFor(o),
         o.step # "progress_comment"
  PROVE  Carried(o)
<1>1. RowsTrue
  BY DEF RecordsInv
<1>2. CASE o.step = "inline_review"
  <2>1. o = BatchOp(o.key) /\ o.key \in RowBatches
    BY <1>2, OpsAre DEF RecordFor, RowBatches
  <2> QED
    BY <1>1, <2>1 DEF RowsTrue, Carried
<1>3. CASE o.step # "inline_review"
  <2>1. o = OnceOp(o.step, i) /\ o.step \in {"summary_comment", "labels"} /\ o.item = i
    BY <1>3, OpsAre DEF PublishSteps
  <2>2. prRows[o.step].item = i
    BY <2>1 DEF RecordFor
  <2> QED
    BY <1>1, <2>1, <2>2 DEF RowsTrue
<1> QED
  BY <1>2, <1>3

\* What an attempt keeps of its truth while only its place in the code changes.
LEMMA RunGoesTrue ==
  ASSUME RecordsInv, NEW x \in RecordRuns, prRuns'[x].item = prRuns[x].item,
         prRuns'[x].epoch = prRuns[x].epoch, prRuns'[x].resumed = prRuns[x].resumed,
         prRuns'[x].did = prRuns[x].did, prRuns[x].pc # "idle",
         prRuns'[x].pc \in RunPcs \ {"arm", "sent", "check", "write", "rejected"},
         prRows' = prRows, prAccepted \subseteq prAccepted', prLease' \in LeaseRow,
         prLease.epoch <= prLease'.epoch
  PROVE  RunTrue(x)'
<1>1. RunTrue(x) /\ prRuns[x].epoch \in Nat /\ prLease.epoch \in Nat /\ prLease'.epoch \in Nat
  BY AttemptFacts DEF RunStates, LeaseRow
<1>2. RowBatches' = RowBatches
  BY DEF RowBatches
<1>3. /\ prRuns[x].item \in Items /\ prRuns[x].epoch <= prLease'.epoch
      /\ SummaryOf(prRuns[x].item) \in prRuns[x].did => SummaryOf(prRuns[x].item) \in prAccepted'
      /\ \A b \in prRuns[x].resumed : BatchItem[b] = prRuns[x].item /\ b \in RowBatches'
  BY <1>1, <1>2 DEF RunTrue
<1> QED
  BY <1>3 DEF RunTrue, RunPcs

LEMMA reconcilePendingIntentsHolds ==
  ASSUME RecordAssumption, NoItemAssumption, RecordsInv, NEW x \in RecordRuns, reconcilePendingIntents(x)
  PROVE  RecordsInv'
<1> DEFINE found == {o \in OpsOf(prRuns[x].item) : IntentOf(o).status = "pending" /\ RecordFor(o)}
           new == [o \in found |-> [IntentOf(o) EXCEPT !.status = "reconciled"]]
<1>1. /\ prRuns[x].pc = "reconcile"
      /\ UNCHANGED <<prRows, prAccepted, prEnded, prTold, prSynced, prRevived>>
      /\ \/ IntentsBecome(new) /\ AttemptGoes(x, "load") /\ prLease' = prLease
         \/ AttemptThrows(x) /\ prIntents' = prIntents
  BY DEF reconcilePendingIntents, AttemptAt
<1>2. /\ prRuns \in [RecordRuns -> RunStates] /\ prLease \in LeaseRow /\ prLease.epoch \in Nat
      /\ prAccepted \subseteq RecordOps /\ prRuns[x].item \in Items
  BY <1>1, AttemptFacts
<1>3. prEnded' \subseteq Items /\ EndedHasSummary'
  BY <1>1, EndedKept
<1>4. CASE AttemptThrows(x) /\ prIntents' = prIntents
  <2>1. IntentsFollow
    BY <1>1, <1>4, IntentsKept
  <2> QED
    BY <1>1, <1>2, <1>3, <1>4, <2>1, ThrowRests, QuietHolds
<1>5. CASE IntentsBecome(new) /\ AttemptGoes(x, "load") /\ prLease' = prLease
  <2>1. ASSUME NEW o \in found
        PROVE  /\ o \in RecordOps /\ o.step # "progress_comment" /\ Carried(o)'
               /\ new[o] \in IntentStates
    <3>1. o \in OpsOf(prRuns[x].item) /\ o \in RecordOps /\ RecordFor(o)
      BY <1>2, OpsAre
    <3>2. o \in DOMAIN prIntents /\ IntentOf(o) = prIntents[o]
      BY DEF IntentOf, NoRecordIntent
    <3>3. prIntents[o] \in IntentStates /\ o.step # "progress_comment"
      BY <3>2 DEF RecordsInv, RecordsTyped, IntentsTrue
    <3>4. Carried(o)
      BY <1>2, <3>1, <3>3, RecordForIsTrue
    <3>5. Carried(o)'
      BY <1>1, <3>4 DEF Carried
    <3>6. new[o] = [prIntents[o] EXCEPT !.status = "reconciled"]
      BY <3>2
    <3>7. new[o] \in IntentStates
      BY <3>3, <3>6 DEF IntentStates
    <3> QED
      BY <3>1, <3>3, <3>5, <3>7
  <2>2. DOMAIN new = found
    OBVIOUS
  <2> HIDE DEF new, found
  <2>3. IntentsFollow
    BY <1>1, <1>5, <2>1, <2>2, IntentsSet
  <2>4. /\ OneRuns(x) /\ prRuns'[x].pc = "load" /\ prRuns'[x].item = prRuns[x].item
        /\ prRuns'[x].epoch = prRuns[x].epoch
        /\ prRuns'[x].resumed = prRuns[x].resumed /\ prRuns'[x].did = prRuns[x].did
    BY <1>2, <1>5, RunGoes DEF RunPcs
  <2>5. RunTrue(x)'
    BY <1>1, <1>2, <1>5, <2>4, RunGoesTrue DEF RunPcs
  <2> QED
    BY <1>1, <1>2, <1>3, <1>5, <2>3, <2>4, <2>5, QuietHolds DEF LeaseMoves
<1> QED
  BY <1>1, <1>4, <1>5

LEMMA loadReviewExecutorPublishContextHolds ==
  ASSUME RecordsInv, NEW x \in RecordRuns, loadReviewExecutorPublishContext(x)
  PROVE  RecordsInv'
<1> PICK i : i = prRuns[x].item
  OBVIOUS
<1> PICK own : own = OwnBatches(i)
  OBVIOUS
<1> PICK pub : pub = (prRows["summary_comment"].item = i)
  OBVIOUS
<1>1. /\ prRuns[x].pc = "load"
      /\ UNCHANGED <<prLease, prRows, prIntents, prAccepted, prEnded, prTold, prSynced, prRevived>>
      /\ prRuns' = [prRuns EXCEPT ![x].pc = "receipt", ![x].resumed = own, ![x].published = pub]
  BY DEF loadReviewExecutorPublishContext, AttemptAt
<1>2. /\ prRuns \in [RecordRuns -> RunStates] /\ prRuns[x] \in RunStates /\ prLease \in LeaseRow
      /\ prLease.epoch \in Nat /\ RunTrue(x) /\ prAccepted \subseteq RecordOps
      /\ prRuns[x].item \in Items
  BY <1>1, AttemptFacts
<1>3. \A b \in own : BatchItem[b] = i /\ b \in RowBatches
  BY DEF OwnBatches, RowBatches
<1>4. own \subseteq RecordBatches
  <2>1. prRows["inline_review"].batches \in Seq(RecordBatches)
    BY DEF RecordsInv, RecordsTyped, RecordRow, PublishSteps
  <2>2. \A n \in DOMAIN prRows["inline_review"].batches :
           prRows["inline_review"].batches[n] \in RecordBatches
    BY <2>1
  <2> QED
    BY <2>2 DEF OwnBatches
<1>5. pub \in BOOLEAN
  OBVIOUS
<1>6. /\ OneRuns(x) /\ prRuns'[x].pc = "receipt" /\ prRuns'[x].item = i
      /\ prRuns'[x].epoch = prRuns[x].epoch /\ prRuns'[x].resumed = own
      /\ prRuns'[x].did = prRuns[x].did
  BY <1>1, <1>2, <1>4, <1>5 DEF OneRuns, RunStates, RunPcs
<1>7. RowBatches' = RowBatches
  BY <1>1 DEF RowBatches
<1>8. /\ i \in Items /\ prRuns[x].epoch <= prLease'.epoch
      /\ SummaryOf(i) \in prRuns[x].did => SummaryOf(i) \in prAccepted'
  BY <1>1, <1>2 DEF RunTrue
<1>9. RunTrue(x)'
  BY <1>3, <1>6, <1>7, <1>8 DEF RunTrue
<1>10. IntentsFollow /\ prEnded' \subseteq Items /\ EndedHasSummary'
  BY <1>1, IntentsKept, EndedKept
<1> QED
  BY <1>1, <1>2, <1>6, <1>9, <1>10, QuietHolds DEF LeaseMoves

LEMMA FailHolds ==
  ASSUME RecordsInv, NEW x \in RecordRuns, NEW o \in RecordOps, AttemptFails(x, o),
         prRuns[x].pc # "idle", IntentsFollow,
         UNCHANGED <<prRows, prAccepted, prEnded, prTold, prSynced, prRevived>>
  PROVE  RecordsInv'
<1>1. prEnded' \subseteq Items /\ EndedHasSummary' /\ prAccepted \subseteq RecordOps
  BY EndedKept, AttemptFacts
<1> QED
  BY <1>1, FailRests, QuietHolds

LEMMA CompleteHolds ==
  ASSUME RecordsInv, NEW x \in RecordRuns, AttemptCompletes(x), prRuns[x].pc # "idle",
         SummaryOf(prRuns[x].item) \in prAccepted,
         UNCHANGED <<prRows, prIntents, prAccepted, prTold, prSynced, prRevived>>
  PROVE  RecordsInv'
<1>1. prAccepted \subseteq RecordOps /\ prRuns[x].item \in Items
  BY AttemptFacts
<1>2. AttemptThrows(x) /\ prEnded' \subseteq prEnded \cup {prRuns[x].item}
  BY DEF AttemptCompletes
<1>3. prEnded \subseteq Items /\ \A i \in prEnded : SummaryOf(i) \in prAccepted
  BY DEF RecordsInv, RecordsTyped, EndedHasSummary
<1>4. prEnded' \subseteq Items /\ EndedHasSummary'
  BY <1>1, <1>2, <1>3 DEF EndedHasSummary, SummaryOf
<1>5. IntentsFollow
  BY IntentsKept
<1> QED
  BY <1>1, <1>2, <1>4, <1>5, ThrowRests, QuietHolds

LEMMA SummaryIsOnce == \A i : SummaryOf(i) = OnceOp("summary_comment", i)
                              /\ (Carried(SummaryOf(i)) => SummaryOf(i) \in prAccepted)
BY DEF SummaryOf, OnceOp, Carried

LEMMA runClaimedReviewHolds ==
  ASSUME NoItemAssumption, RecordsInv, NEW x \in RecordRuns, runClaimedReview(x)
  PROVE  RecordsInv'
<1>1. /\ prRuns[x].pc = "receipt"
      /\ UNCHANGED <<prRows, prIntents, prAccepted, prTold, prSynced, prRevived>>
      /\ \/ UsableReceipt(x) /\ AttemptCompletes(x)
         \/ AttemptGoes(x, "publish") /\ prLease' = prLease /\ prEnded' = prEnded
  BY DEF runClaimedReview, AttemptAt
<1>2. /\ prRuns \in [RecordRuns -> RunStates] /\ prLease \in LeaseRow
      /\ prLease.epoch \in Nat /\ prAccepted \subseteq RecordOps /\ prRuns[x].item \in Items
  BY <1>1, AttemptFacts
<1>3. CASE UsableReceipt(x) /\ AttemptCompletes(x)
  <2>1. prRows["summary_comment"].item = prRuns[x].item
    BY <1>3 DEF UsableReceipt
  <2>2. Carried(OnceOp("summary_comment", prRuns[x].item))
    BY <1>2, <2>1, NoItemAssumption DEF RecordsInv, RowsTrue, NoItemAssumption
  <2>3. SummaryOf(prRuns[x].item) \in prAccepted
    BY <2>2, SummaryIsOnce
  <2> QED
    BY <1>1, <1>3, <2>3, CompleteHolds
<1>4. CASE AttemptGoes(x, "publish") /\ prLease' = prLease /\ prEnded' = prEnded
  <2>1. IntentsFollow /\ prEnded' \subseteq Items /\ EndedHasSummary'
    BY <1>1, <1>4, IntentsKept, EndedKept
  <2>2. /\ OneRuns(x) /\ prRuns'[x].pc = "publish" /\ prRuns'[x].item = prRuns[x].item
        /\ prRuns'[x].epoch = prRuns[x].epoch
        /\ prRuns'[x].resumed = prRuns[x].resumed /\ prRuns'[x].did = prRuns[x].did
    BY <1>2, <1>4, RunGoes DEF RunPcs
  <2>3. RunTrue(x)'
    BY <1>1, <1>2, <1>4, <2>2, RunGoesTrue DEF RunPcs
  <2> QED
    BY <1>1, <1>2, <1>4, <2>1, <2>2, <2>3, QuietHolds DEF LeaseMoves
<1> QED
  BY <1>1, <1>3, <1>4

\* An attempt that takes up an operation of its own.
LEMMA RunOpTrue ==
  ASSUME RecordsInv, NEW x \in RecordRuns, prRuns'[x].item = prRuns[x].item,
         prRuns'[x].epoch = prRuns[x].epoch, prRuns'[x].resumed = prRuns[x].resumed,
         prRuns'[x].did = prRuns[x].did, prRuns[x].pc # "idle",
         prRuns'[x].op \in OpsOf(prRuns[x].item),
         prRuns'[x].pc \in {"arm", "sent"} =>
           prRuns'[x].op.step # "progress_comment" /\ prRuns'[x].op \in DOMAIN prIntents',
         prRuns'[x].pc \in {"check", "write", "rejected"} /\ prRuns'[x].op.step # "progress_comment" =>
           \E o : o = prRuns'[x].op /\ Carried(o)',
         prRuns'[x].pc # "rejected",
         prRows' = prRows, prAccepted \subseteq prAccepted', prLease' \in LeaseRow,
         prLease.epoch <= prLease'.epoch
  PROVE  RunTrue(x)'
<1>1. RunTrue(x) /\ prRuns[x].epoch \in Nat /\ prLease.epoch \in Nat /\ prLease'.epoch \in Nat
  BY AttemptFacts DEF RunStates, LeaseRow
<1>2. RowBatches' = RowBatches
  BY DEF RowBatches
<1>3. /\ prRuns[x].item \in Items /\ prRuns[x].epoch <= prLease'.epoch
      /\ SummaryOf(prRuns[x].item) \in prRuns[x].did => SummaryOf(prRuns[x].item) \in prAccepted'
      /\ \A b \in prRuns[x].resumed : BatchItem[b] = prRuns[x].item /\ b \in RowBatches'
  BY <1>1, <1>2 DEF RunTrue
<1>4. (prRuns[x].pc \in {"check", "write", "rejected"} /\ prRuns[x].op.step # "progress_comment" =>
         Carried(prRuns[x].op))'
  BY DEF Carried
<1> QED
  BY <1>3, <1>4 DEF RunTrue

\* A step that takes up, or goes on with, an operation and leaves the lease, the rows and the
\* ended items alone.
LEMMA OpHolds ==
  ASSUME RecordsInv, NEW x \in RecordRuns, prRuns[x].pc # "idle", OneRuns(x),
         NEW o \in OpsOf(prRuns[x].item), prRuns'[x].op = o,
         prRuns'[x].item = prRuns[x].item, prRuns'[x].epoch = prRuns[x].epoch,
         prRuns'[x].resumed = prRuns[x].resumed, prRuns'[x].did = prRuns[x].did,
         prRuns'[x].pc # "rejected",
         prRuns'[x].pc \in {"arm", "sent"} => o.step # "progress_comment" /\ o \in DOMAIN prIntents',
         prRuns'[x].pc \in {"check", "write"} => o.step = "progress_comment" \/ Carried(o)',
         UNCHANGED <<prLease, prRows, prEnded, prTold, prRevived>>, IntentsFollow,
         prAccepted \subseteq prAccepted', prSynced \subseteq prSynced', prAccepted' \subseteq RecordOps
  PROVE  RecordsInv'
<1>1. prLease \in LeaseRow /\ prLease.epoch \in Nat
  BY AttemptFacts
<1>2. prEnded' \subseteq Items /\ EndedHasSummary'
  BY EndedKept
<1>3. RunTrue(x)'
  BY <1>1, RunOpTrue
<1> QED
  BY <1>1, <1>2, <1>3, QuietHolds DEF LeaseMoves

LEMMA RunArms ==
  ASSUME prRuns \in [RecordRuns -> RunStates], NEW x \in RecordRuns, NEW o \in RecordOps,
         prRuns' = [prRuns EXCEPT ![x].pc = "arm", ![x].op = o]
  PROVE  /\ OneRuns(x) /\ prRuns'[x].pc = "arm" /\ prRuns'[x].item = prRuns[x].item
         /\ prRuns'[x].epoch = prRuns[x].epoch /\ prRuns'[x].op = o
         /\ prRuns'[x].resumed = prRuns[x].resumed /\ prRuns'[x].did = prRuns[x].did
BY DEF OneRuns, RunStates, RunPcs

LEMMA IntentIs ==
  ASSUME RecordsInv, NEW o
  PROVE  /\ IntentOf(o).status = "reconciled" \/ IntentOf(o).result => Carried(o)
         /\ IntentOf(o).status \in {"absent", "pending", "reconciled", "unknown"}
         /\ IntentOf(o).mutating \in BOOLEAN /\ IntentOf(o).result \in BOOLEAN
         /\ o \in DOMAIN prIntents => IntentOf(o) \in IntentStates /\ o.step # "progress_comment"
         /\ IntentOf(o) \in [status : {"absent", "pending", "reconciled", "unknown"},
                             mutating : BOOLEAN, result : BOOLEAN]
<1>1. CASE o \in DOMAIN prIntents
  <2>1. IntentOf(o) = prIntents[o]
    BY <1>1 DEF IntentOf
  <2>2. prIntents[o] \in IntentStates
    BY <1>1 DEF RecordsInv, RecordsTyped
  <2>3. /\ o.step # "progress_comment"
        /\ prIntents[o].status = "reconciled" \/ prIntents[o].result => Carried(o)
    BY <1>1 DEF RecordsInv, IntentsTrue
  <2> QED
    BY <2>1, <2>2, <2>3 DEF IntentStates
<1>2. CASE o \notin DOMAIN prIntents
  <2>1. IntentOf(o) = NoRecordIntent
    BY <1>2 DEF IntentOf
  <2> QED
    BY <1>2, <2>1 DEF NoRecordIntent
<1> QED
  BY <1>1, <1>2

LEMMA IntentSteps ==
  ASSUME NEW n \in [status : {"absent", "pending", "reconciled", "unknown"}, mutating : BOOLEAN,
                    result : BOOLEAN]
  PROVE  /\ [n EXCEPT !.status = "reconciled", !.result = TRUE] \in IntentStates
         /\ \A s \in {"pending", "reconciled", "unknown"} :
              /\ [n EXCEPT !.status = s] \in IntentStates
              /\ [n EXCEPT !.status = s].status = s
              /\ [n EXCEPT !.status = s].result = n.result
BY DEF IntentStates

LEMMA takePublishOnceHolds ==
  ASSUME RecordAssumption, NoItemAssumption, RecordsInv, NEW x \in RecordRuns, NEW o \in RecordOps, takePublishOnce(x, o)
  PROVE  RecordsInv'
<1> DEFINE intent == IntentOf(o)
           void == o.step = "labels" /\ (intent.status = "reconciled" \/ RecordFor(o))
           known == [intent EXCEPT !.status = "reconciled", !.result = TRUE]
           lost == [intent EXCEPT !.status = IF @ = "reconciled" THEN @ ELSE "unknown"]
           begun == [intent EXCEPT !.status = "pending"]
<1>1. /\ prRuns[x].pc = "publish" /\ Due(x, o) /\ o.step # "progress_comment"
      /\ UNCHANGED <<prRows, prAccepted, prEnded, prTold, prSynced, prRevived>>
      /\ \/ AttemptFails(x, o) /\ UNCHANGED prIntents
         \/ intent.result /\ Recording(x, o) /\ UNCHANGED <<prLease, prIntents>>
         \/ (o \in prAccepted \/ void) /\ IntentBecomes(o, known) /\ Recording(x, o) /\ UNCHANGED prLease
         \/ IntentBecomes(o, lost) /\ AttemptFails(x, o) /\ intent.status # "unknown"
            /\ ~intent.result /\ (intent.status = "reconciled" \/ intent.mutating)
         \/ /\ IntentBecomes(o, begun) /\ prRuns' = [prRuns EXCEPT ![x].pc = "arm", ![x].op = o]
            /\ ~intent.result /\ UNCHANGED prLease
  BY DEF takePublishOnce, AttemptAt
<1>2. /\ prRuns \in [RecordRuns -> RunStates] /\ prAccepted \subseteq RecordOps
      /\ prRuns[x].item \in Items
  BY <1>1, AttemptFacts
<1>3. o \in OpsOf(prRuns[x].item)
  BY <1>1 DEF Due
<1>4. /\ intent.status = "reconciled" \/ intent.result => Carried(o)
      /\ intent.status \in {"absent", "pending", "reconciled", "unknown"}
      /\ intent.mutating \in BOOLEAN /\ intent.result \in BOOLEAN
      /\ intent \in [status : {"absent", "pending", "reconciled", "unknown"}, mutating : BOOLEAN,
                    result : BOOLEAN]
  BY IntentIs
<1>5. \A p : Carried(p) => Carried(p)'
  BY <1>1 DEF Carried
<1>6. /\ known \in IntentStates /\ begun \in IntentStates /\ lost \in IntentStates
      /\ begun.status = "pending" /\ begun.result = intent.result
      /\ lost.status = (IF intent.status = "reconciled" THEN "reconciled" ELSE "unknown")
      /\ lost.result = intent.result
  BY <1>4, IntentSteps
<1>7. CASE AttemptFails(x, o) /\ UNCHANGED prIntents
  BY <1>1, <1>7, IntentsKept, FailHolds
<1>8. CASE intent.result /\ Recording(x, o) /\ UNCHANGED <<prLease, prIntents>>
  <2>1. Carried(o)' /\ IntentsFollow
    BY <1>1, <1>4, <1>5, <1>8, IntentsKept
  <2>2. /\ OneRuns(x) /\ prRuns'[x].pc = "check" /\ prRuns'[x].item = prRuns[x].item
        /\ prRuns'[x].epoch = prRuns[x].epoch /\ prRuns'[x].op = o
        /\ prRuns'[x].resumed = prRuns[x].resumed /\ prRuns'[x].did = prRuns[x].did
    BY <1>2, <1>8, RunRecords
  <2> QED
    BY <1>1, <1>2, <1>3, <1>8, <2>1, <2>2, OpHolds
<1>9. CASE (o \in prAccepted \/ void) /\ IntentBecomes(o, known) /\ Recording(x, o) /\ UNCHANGED prLease
  <2>1. Carried(o)
    <3>1. CASE o \in prAccepted
      BY <3>1 DEF Carried
    <3>2. CASE void
      BY <1>1, <1>2, <1>3, <1>4, <3>2, RecordForIsTrue
    <3> QED
      BY <1>9, <3>1, <3>2
  <2>2. known \in IntentStates
    BY <1>6
  <2> HIDE DEF known
  <2>3. IntentsFollow /\ Carried(o)'
    BY <1>1, <1>5, <1>9, <2>1, <2>2, IntentSet
  <2>4. /\ OneRuns(x) /\ prRuns'[x].pc = "check" /\ prRuns'[x].item = prRuns[x].item
        /\ prRuns'[x].epoch = prRuns[x].epoch /\ prRuns'[x].op = o
        /\ prRuns'[x].resumed = prRuns[x].resumed /\ prRuns'[x].did = prRuns[x].did
    BY <1>2, <1>9, RunRecords
  <2> QED
    BY <1>1, <1>2, <1>3, <1>9, <2>3, <2>4, OpHolds
<1>10. CASE /\ IntentBecomes(o, lost) /\ AttemptFails(x, o) /\ ~intent.result
  <2>1. lost \in IntentStates /\ (lost.status = "reconciled" \/ lost.result => Carried(o))
    BY <1>4, <1>6, <1>10
  <2> HIDE DEF lost
  <2>2. IntentsFollow
    BY <1>1, <1>5, <1>10, <2>1, IntentSet
  <2> QED
    BY <1>1, <1>10, <2>2, FailHolds
<1>11. CASE /\ IntentBecomes(o, begun) /\ prRuns' = [prRuns EXCEPT ![x].pc = "arm", ![x].op = o]
            /\ ~intent.result /\ UNCHANGED prLease
  <2>1. begun \in IntentStates /\ (begun.status = "reconciled" \/ begun.result => Carried(o))
    BY <1>4, <1>6, <1>11
  <2> HIDE DEF begun
  <2>2. IntentsFollow /\ o \in DOMAIN prIntents'
    BY <1>1, <1>5, <1>11, <2>1, IntentSet
  <2>3. /\ OneRuns(x) /\ prRuns'[x].pc = "arm" /\ prRuns'[x].item = prRuns[x].item
        /\ prRuns'[x].epoch = prRuns[x].epoch /\ prRuns'[x].op = o
        /\ prRuns'[x].resumed = prRuns[x].resumed /\ prRuns'[x].did = prRuns[x].did
    BY <1>2, <1>11, RunArms
  <2> QED
    BY <1>1, <1>2, <1>3, <1>11, <2>2, <2>3, OpHolds
<1> QED
  BY <1>1, <1>7, <1>8, <1>9, <1>10, <1>11

LEMMA ArmOnceHolds ==
  ASSUME RecordAssumption, RecordsInv, NEW x \in RecordRuns, ArmOnce(x)
  PROVE  RecordsInv'
<1> PICK o : o = prRuns[x].op
  OBVIOUS
<1>1. /\ prRuns[x].pc = "arm"
      /\ UNCHANGED <<prRows, prAccepted, prEnded, prTold, prSynced, prRevived>>
      /\ \/ /\ IntentBecomes(o, [IntentOf(o) EXCEPT !.mutating = TRUE])
            /\ AttemptGoes(x, "sent") /\ UNCHANGED prLease
         \/ AttemptFails(x, o) /\ UNCHANGED prIntents
  BY DEF ArmOnce, AttemptAt
<1>2. /\ prRuns \in [RecordRuns -> RunStates] /\ prAccepted \subseteq RecordOps
      /\ prRuns[x].item \in Items /\ RunTrue(x)
  BY <1>1, AttemptFacts
<1>3. o \in OpsOf(prRuns[x].item) /\ o.step # "progress_comment" /\ o \in DOMAIN prIntents
  BY <1>1, <1>2 DEF RunTrue
<1>4. o \in RecordOps
  BY <1>2, <1>3, OpsAre
<1>5. CASE AttemptFails(x, o) /\ UNCHANGED prIntents
  BY <1>1, <1>4, <1>5, IntentsKept, FailHolds
<1>6. CASE /\ IntentBecomes(o, [IntentOf(o) EXCEPT !.mutating = TRUE])
           /\ AttemptGoes(x, "sent") /\ UNCHANGED prLease
  <2>1. IntentOf(o) \in IntentStates /\ (IntentOf(o).status = "reconciled" \/ IntentOf(o).result => Carried(o))
    BY <1>3, IntentIs
  <2> PICK n : n = [IntentOf(o) EXCEPT !.mutating = TRUE]
    OBVIOUS
  <2>2. n \in IntentStates /\ (n.status = "reconciled" \/ n.result => Carried(o))
    BY <2>1 DEF IntentStates
  <2>3. n.status = "reconciled" \/ n.result => Carried(o)'
    BY <1>1, <2>2 DEF Carried
  <2>4. IntentsFollow /\ o \in DOMAIN prIntents'
    BY <1>1, <1>3, <1>4, <1>6, <2>2, <2>3, IntentSet
  <2>5. /\ OneRuns(x) /\ prRuns'[x].pc = "sent" /\ prRuns'[x].item = prRuns[x].item
        /\ prRuns'[x].epoch = prRuns[x].epoch /\ prRuns'[x].op = o
        /\ prRuns'[x].resumed = prRuns[x].resumed /\ prRuns'[x].did = prRuns[x].did
    BY <1>2, <1>6, RunGoes DEF RunPcs
  <2> QED
    BY <1>1, <1>2, <1>3, <1>6, <2>4, <2>5, OpHolds
<1> QED
  BY <1>1, <1>5, <1>6

LEMMA SendAcceptedHolds ==
  ASSUME RecordAssumption, RecordsInv, NEW x \in RecordRuns, SendAccepted(x)
  PROVE  RecordsInv'
<1> PICK o : o = prRuns[x].op
  OBVIOUS
<1>1. /\ prRuns[x].pc = "sent" /\ prAccepted' = prAccepted \cup {o}
      /\ UNCHANGED <<prLease, prRows, prIntents, prRuns, prEnded, prTold, prSynced, prRevived>>
  BY DEF SendAccepted, AttemptAt
<1>2. /\ prRuns \in [RecordRuns -> RunStates] /\ prAccepted \subseteq RecordOps
      /\ prRuns[x].item \in Items /\ RunTrue(x)
  BY <1>1, AttemptFacts
<1>3. o \in OpsOf(prRuns[x].item) /\ o.step # "progress_comment" /\ o \in DOMAIN prIntents
  BY <1>1, <1>2 DEF RunTrue
<1>4. o \in RecordOps
  BY <1>2, <1>3, OpsAre
<1>5. IntentsFollow
  BY <1>1, IntentsKept
<1>6. OneRuns(x)
  BY <1>1, <1>2 DEF OneRuns
<1> QED
  BY <1>1, <1>2, <1>3, <1>4, <1>5, <1>6, OpHolds

LEMMA OnceReturnsHolds ==
  ASSUME RecordAssumption, RecordsInv, NEW x \in RecordRuns, OnceReturns(x)
  PROVE  RecordsInv'
<1> PICK o : o = prRuns[x].op
  OBVIOUS
<1>1. /\ prRuns[x].pc = "sent" /\ o \in prAccepted
      /\ UNCHANGED <<prRows, prAccepted, prEnded, prTold, prSynced, prRevived>>
      /\ \/ /\ IntentBecomes(o, [IntentOf(o) EXCEPT !.status = "reconciled", !.result = TRUE])
            /\ AttemptGoes(x, "check") /\ UNCHANGED prLease
         \/ AttemptFails(x, o) /\ UNCHANGED prIntents
  BY DEF OnceReturns, AttemptAt
<1>2. /\ prRuns \in [RecordRuns -> RunStates] /\ prAccepted \subseteq RecordOps
      /\ prRuns[x].item \in Items /\ RunTrue(x)
  BY <1>1, AttemptFacts
<1>3. o \in OpsOf(prRuns[x].item) /\ o.step # "progress_comment" /\ o \in DOMAIN prIntents
  BY <1>1, <1>2 DEF RunTrue
<1>4. o \in RecordOps /\ Carried(o)'
  BY <1>1, <1>2, <1>3, OpsAre DEF Carried
<1>5. CASE AttemptFails(x, o) /\ UNCHANGED prIntents
  BY <1>1, <1>4, <1>5, IntentsKept, FailHolds
<1>6. CASE /\ IntentBecomes(o, [IntentOf(o) EXCEPT !.status = "reconciled", !.result = TRUE])
           /\ AttemptGoes(x, "check") /\ UNCHANGED prLease
  <2>1. [IntentOf(o) EXCEPT !.status = "reconciled", !.result = TRUE] \in IntentStates
    BY IntentIs, IntentSteps
  <2> PICK n : n = [IntentOf(o) EXCEPT !.status = "reconciled", !.result = TRUE]
    OBVIOUS
  <2>2. n \in IntentStates /\ IntentBecomes(o, n)
    BY <1>6, <2>1
  <2>4. IntentsFollow
    BY <1>1, <1>3, <1>4, <2>2, IntentSet
  <2>5. /\ OneRuns(x) /\ prRuns'[x].pc = "check" /\ prRuns'[x].item = prRuns[x].item
        /\ prRuns'[x].epoch = prRuns[x].epoch /\ prRuns'[x].op = o
        /\ prRuns'[x].resumed = prRuns[x].resumed /\ prRuns'[x].did = prRuns[x].did
    BY <1>2, <1>6, RunGoes DEF RunPcs
  <2> QED
    BY <1>1, <1>2, <1>3, <1>4, <1>6, <2>4, <2>5, OpHolds
<1> QED
  BY <1>1, <1>5, <1>6

LEMMA LabelsInPlaceHolds ==
  ASSUME RecordAssumption, RecordsInv, NEW x \in RecordRuns, NEW o \in RecordOps, LabelsInPlace(x, o)
  PROVE  RecordsInv'
<1>1. /\ prRuns[x].pc = "publish" /\ Recording(x, o) /\ o.step = "labels"
      /\ o \in OpsOf(prRuns[x].item) /\ prSynced' = prSynced \cup {o.item}
      /\ UNCHANGED <<prLease, prRows, prIntents, prAccepted, prEnded, prTold, prRevived>>
  BY DEF LabelsInPlace, AttemptAt, Due
<1>2. /\ prRuns \in [RecordRuns -> RunStates] /\ prAccepted \subseteq RecordOps
      /\ prRuns[x].item \in Items
  BY <1>1, AttemptFacts
<1>3. Carried(o)' /\ IntentsFollow
  BY <1>1, IntentsKept DEF Carried
<1>4. /\ OneRuns(x) /\ prRuns'[x].pc = "check" /\ prRuns'[x].item = prRuns[x].item
      /\ prRuns'[x].epoch = prRuns[x].epoch /\ prRuns'[x].op = o
      /\ prRuns'[x].resumed = prRuns[x].resumed /\ prRuns'[x].did = prRuns[x].did
  BY <1>1, <1>2, RunRecords
<1> QED
  BY <1>1, <1>2, <1>3, <1>4, OpHolds

LEMMA PrepareProgressHolds ==
  ASSUME RecordAssumption, RecordsInv, NEW x \in RecordRuns, NEW o \in RecordOps, PrepareProgress(x, o)
  PROVE  RecordsInv'
<1>1. /\ prRuns[x].pc = "publish" /\ o.step = "progress_comment" /\ o \in OpsOf(prRuns[x].item)
      /\ UNCHANGED <<prLease, prRows, prIntents, prAccepted, prEnded, prTold, prSynced, prRevived>>
      /\ Recording(x, o) \/ prRuns' = [prRuns EXCEPT ![x].did = @ \cup {o}]
  BY DEF PrepareProgress, AttemptAt, Due
<1>2. /\ prRuns \in [RecordRuns -> RunStates] /\ prAccepted \subseteq RecordOps
      /\ prRuns[x].item \in Items /\ RunTrue(x) /\ prLease \in LeaseRow /\ prLease.epoch \in Nat
  BY <1>1, AttemptFacts
<1>3. IntentsFollow /\ prEnded' \subseteq Items /\ EndedHasSummary'
  BY <1>1, IntentsKept, EndedKept
<1>4. CASE Recording(x, o)
  <2>1. /\ OneRuns(x) /\ prRuns'[x].pc = "check" /\ prRuns'[x].item = prRuns[x].item
        /\ prRuns'[x].epoch = prRuns[x].epoch /\ prRuns'[x].op = o
        /\ prRuns'[x].resumed = prRuns[x].resumed /\ prRuns'[x].did = prRuns[x].did
    BY <1>2, <1>4, RunRecords
  <2> QED
    BY <1>1, <1>2, <1>3, <2>1, OpHolds
<1>5. CASE prRuns' = [prRuns EXCEPT ![x].did = @ \cup {o}]
  <2>1. /\ OneRuns(x) /\ prRuns'[x].pc = "publish" /\ prRuns'[x].item = prRuns[x].item
        /\ prRuns'[x].epoch = prRuns[x].epoch
        /\ prRuns'[x].resumed = prRuns[x].resumed /\ prRuns'[x].did = prRuns[x].did \cup {o}
    BY <1>1, <1>2, <1>5 DEF OneRuns, RunStates
  <2>2. SummaryOf(prRuns[x].item) # o
    BY <1>1 DEF SummaryOf
  <2>3. RunTrue(x)'
    BY <1>1, <1>2, <2>1, <2>2 DEF RunTrue, RowBatches
  <2> QED
    BY <1>1, <1>2, <1>3, <2>1, <2>3, QuietHolds DEF LeaseMoves
<1> QED
  BY <1>1, <1>4, <1>5

LEMMA CheckLeaseHolds ==
  ASSUME RecordAssumption, RecordsInv, NEW x \in RecordRuns, CheckLease(x)
  PROVE  RecordsInv'
<1> PICK o : o = prRuns[x].op
  OBVIOUS
<1>1. /\ prRuns[x].pc = "check"
      /\ UNCHANGED <<prRows, prIntents, prAccepted, prEnded, prTold, prSynced, prRevived>>
      /\ \/ AttemptGoes(x, "write") /\ UNCHANGED prLease
         \/ AttemptFails(x, o)
  BY DEF CheckLease, AttemptAt
<1>2. /\ prRuns \in [RecordRuns -> RunStates] /\ prAccepted \subseteq RecordOps
      /\ prRuns[x].item \in Items /\ RunTrue(x)
  BY <1>1, AttemptFacts
<1>3. o \in OpsOf(prRuns[x].item) /\ (o.step = "progress_comment" \/ Carried(o))
  BY <1>1, <1>2 DEF RunTrue
<1>4. o \in RecordOps /\ (o.step = "progress_comment" \/ Carried(o)')
  BY <1>1, <1>2, <1>3, OpsAre DEF Carried
<1>5. IntentsFollow
  BY <1>1, IntentsKept
<1>6. CASE AttemptFails(x, o)
  BY <1>1, <1>4, <1>5, <1>6, FailHolds
<1>7. CASE AttemptGoes(x, "write") /\ UNCHANGED prLease
  <2>1. /\ OneRuns(x) /\ prRuns'[x].pc = "write" /\ prRuns'[x].item = prRuns[x].item
        /\ prRuns'[x].epoch = prRuns[x].epoch /\ prRuns'[x].op = o
        /\ prRuns'[x].resumed = prRuns[x].resumed /\ prRuns'[x].did = prRuns[x].did
    BY <1>2, <1>7, RunGoes DEF RunPcs
  <2> QED
    BY <1>1, <1>2, <1>3, <1>4, <1>5, <1>7, <2>1, OpHolds
<1> QED
  BY <1>1, <1>6, <1>7

LEMMA ReviewDoneHolds ==
  ASSUME RecordsInv, NEW x \in RecordRuns, ReviewDone(x)
  PROVE  RecordsInv'
<1>1. /\ prRuns[x].pc = "publish" /\ SummaryOf(prRuns[x].item) \in prRuns[x].did /\ AttemptCompletes(x)
      /\ UNCHANGED <<prRows, prIntents, prAccepted, prTold, prSynced, prRevived>>
  BY DEF ReviewDone, AttemptAt
<1>2. SummaryOf(prRuns[x].item) \in prAccepted
  BY <1>1, AttemptFacts DEF RunTrue
<1> QED
  BY <1>1, <1>2, CompleteHolds

LEMMA AttemptDiesHolds ==
  ASSUME RecordsInv, NEW x \in RecordRuns, AttemptDies(x)
  PROVE  RecordsInv'
<1>1. /\ prRuns' = [prRuns EXCEPT ![x] = RestingRun]
      /\ UNCHANGED <<prLease, prRows, prIntents, prAccepted, prEnded, prTold, prSynced, prRevived>>
  BY DEF AttemptDies
<1>2. /\ prRuns \in [RecordRuns -> RunStates] /\ prAccepted \subseteq RecordOps /\ prLease \in LeaseRow
  BY AttemptFacts
<1>3. OneRuns(x) /\ prRuns'[x] = RestingRun
  BY <1>1, <1>2, RunRested, RunSet
<1>4. RunTrue(x)'
  BY <1>1, <1>2, <1>3, RestsTrue
<1>5. IntentsFollow /\ prEnded' \subseteq Items /\ EndedHasSummary'
  BY <1>1, IntentsKept, EndedKept
<1> QED
  BY <1>1, <1>2, <1>3, <1>4, <1>5, QuietHolds DEF LeaseMoves

(* The steps that write rows *)

NewBatches(o) == MergedBatches(o.step, o, prRows[o.step])
BatchSet(s) == {s[n] : n \in DOMAIN s}

\* The list of batches after a record: the batch of the operation is in it once more at most.
LEMMA BatchesMerge ==
  ASSUME RecordsInv, NEW o \in RecordOps
  PROVE  /\ NewBatches(o) \in Seq(RecordBatches)
         /\ o.step = "inline_review" => BatchSet(NewBatches(o)) = RowBatches \cup {o.key}
         /\ o.step # "inline_review" => NewBatches(o) = prRows[o.step].batches
         /\ o.step = "inline_review" =>
              \A m, n \in DOMAIN NewBatches(o) : NewBatches(o)[m] = NewBatches(o)[n] => m = n
         /\ SubSeq(NewBatches(o), 1, Len(prRows[o.step].batches)) = prRows[o.step].batches
<1> PICK old : old = prRows[o.step].batches
  OBVIOUS
<1> PICK new : new = NewBatches(o)
  OBVIOUS
<1>1. o.step \in PublishSteps /\ (o.step = "inline_review" => o.key \in RecordBatches)
  BY DEF RecordOps, PublishSteps
<1>2. old \in Seq(RecordBatches)
  BY <1>1 DEF RecordsInv, RecordsTyped, RecordRow
<1>3. o.step = "inline_review" => RowBatches = BatchSet(old)
                                  /\ \A m, n \in DOMAIN old : old[m] = old[n] => m = n
  BY DEF RowBatches, BatchSet, RecordsInv, RowsTrue, BatchesKept
<1>4. CASE o.step = "inline_review" /\ o.key \notin BatchSet(old)
  <2>1. new = Append(old, o.key)
    BY <1>4 DEF NewBatches, MergedBatches, BatchSet
  <2>2. new \in Seq(RecordBatches) /\ Len(new) = Len(old) + 1
        /\ (\A n \in 1..Len(old) : new[n] = old[n]) /\ new[Len(new)] = o.key
    BY <1>1, <1>2, <1>4, <2>1
  <2>3. DOMAIN old = 1..Len(old) /\ DOMAIN new = 1..Len(new) /\ Len(old) \in Nat
    BY <1>2, <2>2
  <2>8. \A n \in 1..Len(new) : n \in 1..Len(old) \/ n = Len(new)
    BY <2>2, <2>3
  <2>9. 1..Len(old) \subseteq 1..Len(new) /\ Len(new) \in 1..Len(new)
    BY <2>2, <2>3
  <2>4. BatchSet(new) = BatchSet(old) \cup {o.key}
    <3>1. \A b : b \in BatchSet(new) <=> \E n \in 1..Len(new) : b = new[n]
      BY <2>3 DEF BatchSet
    <3>2. \A b : b \in BatchSet(old) <=> \E n \in 1..Len(old) : b = old[n]
      BY <2>3 DEF BatchSet
    <3>3. \A b : b \in BatchSet(new) <=> b \in BatchSet(old) \cup {o.key}
      <4>1. ASSUME NEW n \in 1..Len(new)
            PROVE  new[n] \in BatchSet(old) \cup {o.key}
        <5>1. CASE n \in 1..Len(old)
          BY <2>2, <3>2, <5>1
        <5>2. CASE n = Len(new)
          BY <2>2, <5>2
        <5> QED
          BY <2>8, <5>1, <5>2
      <4>2. ASSUME NEW n \in 1..Len(old)
            PROVE  old[n] \in BatchSet(new)
        <5>1. n \in 1..Len(new) /\ old[n] = new[n]
          BY <2>2, <2>9
        <5> QED
          BY <3>1, <5>1
      <4>3. o.key \in BatchSet(new)
        BY <2>2, <2>9, <3>1
      <4> QED
        BY <3>1, <3>2, <4>1, <4>2, <4>3
    <3> QED
      BY <3>3
  <2>5. \A m, n \in DOMAIN new : new[m] = new[n] => m = n
    <3>1. SUFFICES ASSUME NEW m \in 1..Len(new), NEW n \in 1..Len(new), new[m] = new[n]
                   PROVE  m = n
      BY <2>3
    <3>2. \A k \in 1..Len(old) : old[k] # o.key
      BY <1>4, <2>3 DEF BatchSet
    <3>3. CASE m \in 1..Len(old) /\ n \in 1..Len(old)
      BY <1>3, <1>4, <2>2, <2>3, <3>1, <3>3
    <3>4. CASE m = Len(new) /\ n \in 1..Len(old)
      BY <2>2, <3>1, <3>2, <3>4
    <3>5. CASE n = Len(new) /\ m \in 1..Len(old)
      BY <2>2, <3>1, <3>2, <3>5
    <3> QED
      BY <2>8, <3>1, <3>3, <3>4, <3>5
  <2>6. SubSeq(new, 1, Len(old)) = old
    BY <1>1, <1>2, <1>4, <2>1
  <2> QED
    BY <1>3, <1>4, <2>2, <2>4, <2>5, <2>6
<1>5. CASE ~(o.step = "inline_review" /\ o.key \notin BatchSet(old))
  <2>1. new = old
    BY <1>5 DEF NewBatches, MergedBatches, BatchSet
  <2>2. SubSeq(old, 1, Len(old)) = old
    BY <1>2
  <2> QED
    BY <1>2, <1>3, <1>5, <2>1, <2>2
<1> QED
  BY <1>4, <1>5

\* What a record leaves in the rows.
LEMMA RowWritten ==
  ASSUME RecordAssumption, RecordsInv, NEW i \in Items, NEW e \in Nat, e <= prLease.epoch, NEW o \in OpsOf(i),
         o.step = "progress_comment" \/ Carried(o), recordPublishStep(i, e, o),
         UNCHANGED <<prAccepted, prSynced, prLease>>,
         prRevived' \/ prTold' \subseteq RowBatches'
  PROVE  /\ prRows' \in [PublishSteps -> RecordRow] /\ RowsTrue'
         /\ o.step = "inline_review" => RowBatches' = RowBatches \cup {o.key}
         /\ RowBatches \subseteq RowBatches'
<1> PICK new : new = NewBatches(o)
  OBVIOUS
<1> PICK row : row = [item |-> i, epoch |-> IF e = 0 THEN prRows[o.step].epoch ELSE e,
                      light |-> o.step = "summary_comment" /\ i \in LightItems, batches |-> new]
  OBVIOUS
<1>1. o \in RecordOps /\ o.step \in PublishSteps
  BY OpsAre DEF RecordOps, PublishSteps
<1>2. /\ new \in Seq(RecordBatches)
      /\ o.step = "inline_review" => BatchSet(new) = RowBatches \cup {o.key}
      /\ o.step # "inline_review" => new = prRows[o.step].batches
      /\ o.step = "inline_review" => \A m, n \in DOMAIN new : new[m] = new[n] => m = n
  BY <1>1, BatchesMerge
<1>3. prRows' = [prRows EXCEPT ![o.step] = row]
  BY DEF recordPublishStep, NewBatches
<1>4. prRows \in [PublishSteps -> RecordRow] /\ prLease.epoch \in Nat
  BY DEF RecordsInv, RecordsTyped, LeaseRow
<1>5. \A s \in PublishSteps : prRows[s].epoch \in Nat /\ prRows[s].epoch <= prLease.epoch
  BY <1>4 DEF RecordsInv, RowsTrue, RecordRow
<1>6. /\ row \in RecordRow /\ row.item = i /\ row.batches = new
      /\ row.epoch <= prLease.epoch
  <2>1. (IF e = 0 THEN prRows[o.step].epoch ELSE e) \in Nat
        /\ (IF e = 0 THEN prRows[o.step].epoch ELSE e) <= prLease.epoch
    BY <1>1, <1>5
  <2> PICK n : n = IF e = 0 THEN prRows[o.step].epoch ELSE e
    OBVIOUS
  <2> PICK l : l = (o.step = "summary_comment" /\ i \in LightItems)
    OBVIOUS
  <2>2. row = [item |-> i, epoch |-> n, light |-> l, batches |-> new] /\ l \in BOOLEAN
    OBVIOUS
  <2> QED
    BY <1>2, <2>1, <2>2 DEF RecordRow
<1>7. /\ prRows' \in [PublishSteps -> RecordRow] /\ prRows'[o.step] = row
      /\ \A s \in PublishSteps \ {o.step} : prRows'[s] = prRows[s]
  BY <1>1, <1>3, <1>4, <1>6
<1>8. prRows'["inline_review"].batches = IF o.step = "inline_review" THEN new
                                         ELSE prRows["inline_review"].batches
  BY <1>6, <1>7 DEF PublishSteps
<1>9. /\ o.step = "inline_review" => RowBatches' = RowBatches \cup {o.key}
      /\ o.step # "inline_review" => RowBatches' = RowBatches
  <2>1. RowBatches = BatchSet(prRows["inline_review"].batches)
    BY DEF RowBatches, BatchSet
  <2>2. RowBatches' = BatchSet(prRows'["inline_review"].batches)
    BY DEF RowBatches, BatchSet
  <2> QED
    BY <1>2, <1>8, <2>1, <2>2
<1>10. \A m, n \in DOMAIN prRows'["inline_review"].batches :
         prRows'["inline_review"].batches[m] = prRows'["inline_review"].batches[n] => m = n
  BY <1>2, <1>8 DEF RecordsInv, RowsTrue, BatchesKept
<1>11. BatchesKept'
  BY <1>10 DEF BatchesKept
<1>12. \A b \in RowBatches' : BatchOp(b) \in prAccepted
  <2>1. \A b \in RowBatches : BatchOp(b) \in prAccepted
    BY DEF RecordsInv, RowsTrue
  <2>2. o.step = "inline_review" => BatchOp(o.key) = o /\ o \in prAccepted
    BY OpsAre DEF Carried
  <2> QED
    BY <1>9, <2>1, <2>2
<1>13. \A s \in PublishSteps : prRows'[s].epoch <= prLease'.epoch
  BY <1>5, <1>6, <1>7
<1>14. \A s \in {"summary_comment", "labels"} : \A j :
         prRows'[s].item = j /\ j # NoItem => Carried(OnceOp(s, j))
  <2>1. \A s \in {"summary_comment", "labels"} : prRows[s].item # NoItem => Carried(OnceOp(s, prRows[s].item))
    BY DEF RecordsInv, RowsTrue
  <2>2. o.step \in {"summary_comment", "labels"} => o = OnceOp(o.step, i) /\ Carried(o)
    BY OpsAre
  <2> QED
    BY <1>6, <1>7, <2>1, <2>2 DEF PublishSteps
<1>15. RowsTrue'
  <2>1. (\A s \in {"summary_comment", "labels"} :
           prRows[s].item # NoItem => Carried(OnceOp(s, prRows[s].item)))'
    BY <1>14 DEF Carried, OnceOp
  <2>2. (\A b \in RowBatches : BatchOp(b) \in prAccepted)'
    BY <1>12 DEF BatchOp
  <2> QED
    BY <1>11, <1>13, <2>1, <2>2 DEF RowsTrue
<1> QED
  BY <1>7, <1>9, <1>15

LEMMA ReturnedTrue ==
  ASSUME RecordAssumption, RecordsInv, NEW x \in RecordRuns, RecordReturned(x),
         prRuns[x].pc \in {"write", "rejected"}, UNCHANGED <<prLease, prAccepted, prSynced>>,
         RowBatches \subseteq RowBatches'
  PROVE  OneRuns(x) /\ RunTrue(x)'
<1> PICK o : o = prRuns[x].op
  OBVIOUS
<1> PICK first : first = (o.step = "progress_comment" /\ ~prRuns[x].again)
  OBVIOUS
<1> PICK pc : pc = IF first THEN "check" ELSE "publish"
  OBVIOUS
<1> PICK op : op = IF first THEN o ELSE "none"
  OBVIOUS
<1> PICK did : did = IF first THEN prRuns[x].did ELSE prRuns[x].did \cup {o}
  OBVIOUS
<1>1. /\ prRuns \in [RecordRuns -> RunStates] /\ prRuns[x] \in RunStates
      /\ prRuns[x].item \in Items /\ RunTrue(x) /\ prLease \in LeaseRow /\ prLease.epoch \in Nat
  BY AttemptFacts
<1>2. prRuns' = [prRuns EXCEPT ![x].pc = pc, ![x].again = first, ![x].did = did, ![x].op = op]
  <2>1. prRuns' = [prRuns EXCEPT ![x].pc = IF first THEN "check" ELSE "publish",
                                 ![x].again = first,
                                 ![x].did = IF first THEN @ ELSE @ \cup {o},
                                 ![x].op = IF first THEN o ELSE "none"]
    BY DEF RecordReturned
  <2> QED
    BY <1>1, <2>1
<1>3. o \in OpsOf(prRuns[x].item) /\ (o.step = "progress_comment" \/ Carried(o))
  BY <1>1 DEF RunTrue
<1>4. o \in RecordOps
  BY <1>1, <1>3, OpsAre
<1>5. /\ pc \in RunPcs /\ first \in BOOLEAN /\ op \in RecordOps \cup {"none"}
      /\ did \in SUBSET RecordOps
  BY <1>1, <1>4 DEF RunPcs, RunStates
<1>6. /\ OneRuns(x) /\ prRuns'[x].pc = pc /\ prRuns'[x].item = prRuns[x].item
      /\ prRuns'[x].epoch = prRuns[x].epoch /\ prRuns'[x].op = op
      /\ prRuns'[x].resumed = prRuns[x].resumed /\ prRuns'[x].did = did
  BY <1>1, <1>2, <1>5 DEF OneRuns, RunStates
<1>7. SummaryOf(prRuns[x].item) \in did => SummaryOf(prRuns[x].item) \in prAccepted'
  <2>1. SummaryOf(prRuns[x].item) \in prRuns[x].did => SummaryOf(prRuns[x].item) \in prAccepted
    BY <1>1 DEF RunTrue
  <2>2. SummaryOf(prRuns[x].item) = o => o \in prAccepted
    BY <1>3 DEF SummaryOf, Carried
  <2> QED
    BY <2>1, <2>2
<1>8. /\ prRuns[x].epoch <= prLease'.epoch
      /\ \A b \in prRuns[x].resumed : BatchItem[b] = prRuns[x].item /\ b \in RowBatches'
  BY <1>1 DEF RunTrue
<1>9. pc = "publish" \/ (pc = "check" /\ op = o /\ o.step = "progress_comment")
  OBVIOUS
<1>10. RunTrue(x)'
  BY <1>1, <1>3, <1>6, <1>7, <1>8, <1>9 DEF RunTrue
<1> QED
  BY <1>6, <1>10

LEMMA WriteRecordHolds ==
  ASSUME RecordAssumption, RecordsInv, NEW x \in RecordRuns, WriteRecord(x)
  PROVE  RecordsInv'
<1> PICK o : o = prRuns[x].op
  OBVIOUS
<1>1. /\ prRuns[x].pc = "write"
      /\ UNCHANGED <<prLease, prIntents, prAccepted, prEnded, prSynced, prRevived>>
      /\ \/ /\ recordPublishStep(prRuns[x].item, prRuns[x].epoch, o) /\ RecordReturned(x)
         \/ ~RowWritable(x, o.step) /\ AttemptGoes(x, "rejected") /\ UNCHANGED <<prRows, prTold>>
  BY DEF WriteRecord, AttemptAt
<1>2. /\ prRuns \in [RecordRuns -> RunStates] /\ prRuns[x] \in RunStates /\ prAccepted \subseteq RecordOps
      /\ prRuns[x].item \in Items /\ RunTrue(x) /\ prLease \in LeaseRow /\ prLease.epoch \in Nat
  BY <1>1, AttemptFacts
<1>3. /\ o \in OpsOf(prRuns[x].item) /\ (o.step = "progress_comment" \/ Carried(o))
      /\ prRuns[x].epoch \in Nat /\ prRuns[x].epoch <= prLease.epoch
  BY <1>1, <1>2 DEF RunTrue, RunStates
<1>4. IntentsFollow /\ prEnded' \subseteq Items /\ EndedHasSummary'
  BY <1>1, IntentsKept, EndedKept
<1>5. CASE recordPublishStep(prRuns[x].item, prRuns[x].epoch, o) /\ RecordReturned(x)
  <2>1. prTold' = IF o.step = "inline_review" THEN prTold \cup {o.key} ELSE prTold
    BY <1>5 DEF RecordReturned
  <2>2. /\ prRows'["inline_review"].batches = (IF o.step = "inline_review" THEN NewBatches(o)
                                               ELSE prRows["inline_review"].batches)
    <3>1. prRows' = [prRows EXCEPT ![o.step] =
             [item |-> prRuns[x].item,
              epoch |-> IF prRuns[x].epoch = 0 THEN prRows[o.step].epoch ELSE prRuns[x].epoch,
              light |-> o.step = "summary_comment" /\ prRuns[x].item \in LightItems,
              batches |-> NewBatches(o)]]
      BY <1>5 DEF recordPublishStep, NewBatches
    <3>2. "inline_review" \in DOMAIN prRows
      BY DEF RecordsInv, RecordsTyped, PublishSteps
    <3> QED
      BY <3>1, <3>2
  <2>3. RowBatches' = IF o.step = "inline_review" THEN RowBatches \cup {o.key} ELSE RowBatches
    <3>1. RowBatches = BatchSet(prRows["inline_review"].batches)
      BY DEF RowBatches, BatchSet
    <3>2. RowBatches' = BatchSet(prRows'["inline_review"].batches)
      BY DEF RowBatches, BatchSet
    <3>3. o \in RecordOps
      BY <1>2, <1>3, OpsAre
    <3> QED
      BY <2>2, <3>1, <3>2, <3>3, BatchesMerge
  <2>4. prRevived' \/ prTold' \subseteq RowBatches'
    BY <1>1, <2>1, <2>3 DEF RecordsInv, RowsTrue, BatchesKept
  <2>5. /\ prRows' \in [PublishSteps -> RecordRow] /\ RowsTrue' /\ RowBatches \subseteq RowBatches'
    BY <1>1, <1>2, <1>3, <1>5, <2>4, RowWritten
  <2>6. OneRuns(x) /\ RunTrue(x)'
    BY <1>1, <1>5, <2>5, ReturnedTrue
  <2>7. prTold' \subseteq RecordBatches
    <3>1. o.step = "inline_review" => o.key \in RecordBatches
      BY <1>2, <1>3, OpsAre
    <3> QED
      BY <2>1, <3>1 DEF RecordsInv, RecordsTyped
  <2>8. Onward
    BY <1>1, <1>2, <1>4, <2>5 DEF Onward, IntentsFollow
  <2>9. RecordsTyped'
    BY <1>1, <1>2, <1>4, <2>5, <2>6, <2>7 DEF RecordsInv, RecordsTyped, OneRuns, IntentsFollow
  <2> QED
    BY <1>4, <2>5, <2>6, <2>8, <2>9, RecordsHold DEF IntentsFollow, OneRuns
<1>6. CASE ~RowWritable(x, o.step) /\ AttemptGoes(x, "rejected") /\ UNCHANGED <<prRows, prTold>>
  <2>1. /\ OneRuns(x) /\ prRuns'[x].pc = "rejected" /\ prRuns'[x].item = prRuns[x].item
        /\ prRuns'[x].epoch = prRuns[x].epoch /\ prRuns'[x].op = o
        /\ prRuns'[x].resumed = prRuns[x].resumed /\ prRuns'[x].did = prRuns[x].did
    BY <1>2, <1>6, RunGoes DEF RunPcs
  <2>2. o.step # "progress_comment" => ~isPrActorLeaseHeld(prLease, prRuns[x].item, prRuns[x].epoch)
    BY <1>6 DEF RowWritable, AttemptHolds
  <2>3. RowBatches' = RowBatches
    BY <1>6 DEF RowBatches
  <2>4. RunTrue(x)'
    <3>1. (prRuns[x].pc \in {"check", "write", "rejected"} /\ prRuns[x].op.step # "progress_comment" =>
             Carried(prRuns[x].op))'
      BY <1>1, <1>3, <2>1 DEF Carried
    <3>2. (prRuns[x].pc = "rejected" /\ prRuns[x].op.step # "progress_comment" =>
             prRevived \/ ~isPrActorLeaseHeld(prLease, prRuns[x].item, prRuns[x].epoch))'
      BY <1>1, <2>1, <2>2
    <3> QED
      BY <1>1, <1>2, <1>3, <2>1, <2>3, <3>1, <3>2 DEF RunTrue
  <2> QED
    BY <1>1, <1>2, <1>4, <1>6, <2>1, <2>4, QuietHolds DEF LeaseMoves
<1> QED
  BY <1>1, <1>5, <1>6

LEMMA RecordRejectedHolds ==
  ASSUME RecordAssumption, RecordsInv, NEW x \in RecordRuns, RecordRejected(x)
  PROVE  RecordsInv'
<1> PICK o : o = prRuns[x].op
  OBVIOUS
<1>1. /\ prRuns[x].pc = "rejected"
      /\ UNCHANGED <<prRows, prIntents, prAccepted, prEnded, prSynced, prRevived>>
      /\ \/ AttemptHolds(x) /\ o.step # "progress_comment" /\ RecordReturned(x) /\ UNCHANGED prLease
         \/ AttemptFails(x, o) /\ UNCHANGED prTold
  BY DEF RecordRejected, AttemptAt
<1>2. /\ prRuns \in [RecordRuns -> RunStates] /\ prRuns[x] \in RunStates /\ prAccepted \subseteq RecordOps
      /\ prRuns[x].item \in Items /\ RunTrue(x) /\ prLease \in LeaseRow /\ prLease.epoch \in Nat
  BY <1>1, AttemptFacts
<1>3. o \in OpsOf(prRuns[x].item)
  BY <1>1, <1>2 DEF RunTrue
<1>4. o \in RecordOps /\ (o.step = "inline_review" => o.key \in RecordBatches)
  BY <1>2, <1>3, OpsAre
<1>5. IntentsFollow /\ prEnded' \subseteq Items /\ EndedHasSummary'
  BY <1>1, IntentsKept, EndedKept
<1>6. CASE AttemptFails(x, o) /\ UNCHANGED prTold
  BY <1>1, <1>4, <1>5, <1>6, FailHolds
<1>7. CASE AttemptHolds(x) /\ o.step # "progress_comment" /\ RecordReturned(x) /\ UNCHANGED prLease
  <2>1. prRevived
    BY <1>1, <1>2, <1>7 DEF RunTrue, AttemptHolds
  <2>2. RowBatches' = RowBatches
    BY <1>1 DEF RowBatches
  <2>3. OneRuns(x) /\ RunTrue(x)'
    BY <1>1, <1>7, <2>2, ReturnedTrue
  <2>4. prTold' \subseteq RecordBatches
    <3>1. prTold' \subseteq prTold \cup {o.key} /\ (prTold' = prTold \/ o.step = "inline_review")
      BY <1>7 DEF RecordReturned
    <3> QED
      BY <1>4, <3>1 DEF RecordsInv, RecordsTyped
  <2>5. RowsTrue'
    <3>1. BatchesKept'
      BY <1>1, <2>1, <2>2 DEF RecordsInv, RowsTrue, BatchesKept
    <3>2. (\A s \in {"summary_comment", "labels"} :
             prRows[s].item # NoItem => Carried(OnceOp(s, prRows[s].item)))'
      BY <1>1 DEF RecordsInv, RowsTrue, Carried, OnceOp
    <3>3. (\A b \in RowBatches : BatchOp(b) \in prAccepted)'
      BY <1>1, <2>2 DEF RecordsInv, RowsTrue, BatchOp
    <3>4. (\A s \in PublishSteps : prRows[s].epoch <= prLease.epoch)'
      BY <1>1, <1>7 DEF RecordsInv, RowsTrue
    <3> QED
      BY <3>1, <3>2, <3>3, <3>4 DEF RowsTrue
  <2>6. Onward
    BY <1>1, <1>2, <1>5, <1>7, <2>2 DEF Onward, IntentsFollow
  <2>7. RecordsTyped'
    BY <1>1, <1>2, <1>5, <1>7, <2>3, <2>4 DEF RecordsInv, RecordsTyped, OneRuns, IntentsFollow
  <2> QED
    BY <1>5, <2>3, <2>5, <2>6, <2>7, RecordsHold DEF IntentsFollow, OneRuns
<1> QED
  BY <1>1, <1>6, <1>7

(* Around the attempts *)

LEMMA AllRest ==
  ASSUME RecordsInv, Onward, RecordsTyped', RowsTrue', IntentsTrue', EndedHasSummary',
         prRuns' = prRuns
  PROVE  RecordsInv'
<1>1. \A y \in RecordRuns : RunTrue(y)'
  BY RunRests DEF RecordsTyped
<1> QED
  BY <1>1 DEF RecordsInv

LEMMA LeaseLapsesHolds ==
  ASSUME RecordsInv, LeaseLapses
  PROVE  RecordsInv'
<1>1. /\ LeaseMoves
      /\ UNCHANGED <<prRows, prIntents, prAccepted, prRuns, prEnded, prTold, prSynced, prRevived>>
  BY DEF LeaseLapses, LeaseMoves
<1>2. prLease \in LeaseRow
  BY DEF RecordsInv, RecordsTyped
<1>3. /\ prLease' \in LeaseRow /\ prLease.epoch <= prLease'.epoch
      /\ \A i : \A e \in Nat : e <= prLease.epoch /\ ~isPrActorLeaseHeld(prLease, i, e) =>
              ~isPrActorLeaseHeld(prLease', i, e)
  BY <1>1, <1>2, LeaseOnward
<1>4. IntentsFollow /\ prEnded' \subseteq Items /\ EndedHasSummary'
  BY <1>1, IntentsKept, EndedKept
<1>5. RowsTrue' /\ RowBatches' = RowBatches
  BY <1>1, <1>3, RowsUntouched
<1>6. Onward
  BY <1>1, <1>3, <1>5 DEF Onward
<1>7. RecordsTyped'
  BY <1>1, <1>3, <1>4 DEF RecordsInv, RecordsTyped, IntentsFollow
<1> QED
  BY <1>1, <1>4, <1>5, <1>6, <1>7, AllRest DEF IntentsFollow

LEMMA LeaseRevivesHolds ==
  ASSUME RecordsInv, NEW x \in RecordRuns, LeaseRevives(x)
  PROVE  RecordsInv'
<1>1. /\ prLease' = renewPrActorLease(prLease) /\ prRevived' = TRUE
      /\ UNCHANGED <<prRows, prIntents, prAccepted, prRuns, prEnded, prTold, prSynced>>
  BY DEF LeaseRevives
<1>2. prLease \in LeaseRow
  BY DEF RecordsInv, RecordsTyped
<1>3. prLease' \in LeaseRow /\ prLease.epoch <= prLease'.epoch
  <2> PICK l : l = prLease
    OBVIOUS
  <2>1. l \in LeaseRow /\ l.epoch \in Nat
    BY <1>2 DEF LeaseRow
  <2>2. renewPrActorLease(l) \in LeaseRow /\ renewPrActorLease(l).epoch = l.epoch
    BY <2>1 DEF renewPrActorLease, LeaseRow
  <2> QED
    BY <1>1, <2>1, <2>2
<1>4. IntentsFollow /\ prEnded' \subseteq Items /\ EndedHasSummary'
  BY <1>1, IntentsKept, EndedKept
<1>5. RowsTrue' /\ RowBatches' = RowBatches
  BY <1>1, <1>3, RowsUntouched
<1>6. Onward
  BY <1>1, <1>3, <1>5 DEF Onward
<1>7. RecordsTyped'
  BY <1>1, <1>3, <1>4 DEF RecordsInv, RecordsTyped, IntentsFollow
<1> QED
  BY <1>1, <1>4, <1>5, <1>6, <1>7, AllRest DEF IntentsFollow

LEMMA AckRecordsHolds ==
  ASSUME RecordAssumption, RecordsInv, NEW i \in Items, AckRecords(i)
  PROVE  RecordsInv'
<1> PICK o : o = OnceOp("progress_comment", i)
  OBVIOUS
<1>1. /\ recordPublishStep(i, 0, o)
      /\ UNCHANGED <<prLease, prIntents, prAccepted, prRuns, prEnded, prTold, prSynced, prRevived>>
  BY DEF AckRecords, OnceOp
<1>2. o.step = "progress_comment" /\ o \in OpsOf(i)
  BY DEF OnceOp, OpsOf, RecordOps, PublishSteps
<1>3. prLease \in LeaseRow /\ prLease.epoch \in Nat /\ prRows \in [PublishSteps -> RecordRow]
  BY DEF RecordsInv, RecordsTyped, LeaseRow
<1>4. RowBatches' = RowBatches
  <2>1. prRows'["inline_review"] = prRows["inline_review"]
    BY <1>1, <1>2, <1>3 DEF recordPublishStep, PublishSteps
  <2> QED
    BY <2>1 DEF RowBatches
<1>5. prRevived' \/ prTold' \subseteq RowBatches'
  BY <1>1, <1>4 DEF RecordsInv, RowsTrue, BatchesKept
<1>6. prRows' \in [PublishSteps -> RecordRow] /\ RowsTrue'
  BY <1>1, <1>2, <1>3, <1>5, RowWritten
<1>7. IntentsFollow /\ EndedHasSummary'
  BY <1>1, IntentsKept, EndedKept
<1>8. Onward
  BY <1>1, <1>3, <1>4 DEF Onward
<1>9. RecordsTyped'
  BY <1>1, <1>6 DEF RecordsInv, RecordsTyped
<1> QED
  BY <1>1, <1>6, <1>7, <1>8, <1>9, AllRest DEF IntentsFollow

LEMMA IntakeProgressRowHolds ==
  ASSUME RecordsInv, NEW i \in Items, IntakeProgressRow(i)
  PROVE  RecordsInv'
<1>1. /\ prRows' = [prRows EXCEPT !["progress_comment"].item = i]
      /\ UNCHANGED <<prLease, prIntents, prAccepted, prRuns, prEnded, prTold, prSynced, prRevived>>
  BY DEF IntakeProgressRow
<1>2. prLease \in LeaseRow /\ prLease.epoch \in Nat /\ prRows \in [PublishSteps -> RecordRow]
  BY DEF RecordsInv, RecordsTyped, LeaseRow
<1>3. /\ prRows' \in [PublishSteps -> RecordRow]
      /\ \A s \in PublishSteps : prRows'[s].epoch = prRows[s].epoch
      /\ \A s \in PublishSteps \ {"progress_comment"} : prRows'[s] = prRows[s]
  BY <1>1, <1>2 DEF RecordRow
<1>4. RowBatches' = RowBatches /\ BatchesKept'
  <2>1. prRows'["inline_review"] = prRows["inline_review"]
    BY <1>3 DEF PublishSteps
  <2>2. RowBatches' = RowBatches
    BY <2>1 DEF RowBatches
  <2> QED
    BY <1>1, <2>1, <2>2 DEF RecordsInv, RowsTrue, BatchesKept
<1>5. RowsTrue'
  <2>1. (\A s \in {"summary_comment", "labels"} :
           prRows[s].item # NoItem => Carried(OnceOp(s, prRows[s].item)))'
    BY <1>1, <1>3 DEF RecordsInv, RowsTrue, Carried, OnceOp, PublishSteps
  <2>2. (\A b \in RowBatches : BatchOp(b) \in prAccepted)'
    BY <1>1, <1>4 DEF RecordsInv, RowsTrue, BatchOp
  <2>3. (\A s \in PublishSteps : prRows[s].epoch <= prLease.epoch)'
    BY <1>1, <1>3 DEF RecordsInv, RowsTrue
  <2> QED
    BY <1>4, <2>1, <2>2, <2>3 DEF RowsTrue
<1>7. IntentsFollow /\ EndedHasSummary'
  BY <1>1, IntentsKept, EndedKept
<1>8. Onward
  BY <1>1, <1>2, <1>4 DEF Onward
<1>9. RecordsTyped'
  BY <1>1, <1>3 DEF RecordsInv, RecordsTyped
<1> QED
  BY <1>1, <1>5, <1>7, <1>8, <1>9, AllRest DEF IntentsFollow

LEMMA RecordsInvStep ==
  ASSUME RecordAssumption, NoItemAssumption, RecordsInv, [RecordNext]_recordVars
  PROVE  RecordsInv'
<1>1. CASE UNCHANGED recordVars
  <2>1. Onward /\ IntentsTrue' /\ EndedHasSummary' /\ RecordsTyped'
    BY <1>1 DEF recordVars, Onward, RowBatches, RecordsInv, IntentsTrue, Carried, EndedHasSummary,
                SummaryOf, RecordsTyped, LeaseRow
  <2>2. RowsTrue'
    BY <1>1, RowsUntouched DEF recordVars, RecordsInv, RecordsTyped, LeaseRow
  <2> QED
    BY <1>1, <2>1, <2>2, AllRest DEF recordVars
<1>2. ASSUME NEW x \in RecordRuns, AttemptStep(x)
      PROVE  RecordsInv'
  BY <1>2, ClaimsReviewHolds, reconcilePendingIntentsHolds, loadReviewExecutorPublishContextHolds,
     runClaimedReviewHolds, takePublishOnceHolds, LabelsInPlaceHolds, PrepareProgressHolds,
     ArmOnceHolds, SendAcceptedHolds, OnceReturnsHolds, CheckLeaseHolds, WriteRecordHolds,
     RecordRejectedHolds, ReviewDoneHolds, AttemptDiesHolds, LeaseRevivesHolds DEF AttemptStep
<1>3. ASSUME NEW i \in Items, AckRecords(i) \/ IntakeProgressRow(i)
      PROVE  RecordsInv'
  BY <1>3, AckRecordsHolds, IntakeProgressRowHolds
<1> QED
  BY <1>1, <1>2, <1>3, LeaseLapsesHolds DEF RecordNext

LEMMA RecordsInvStarts ==
  ASSUME RecordAssumption, NoItemAssumption, RecordInit
  PROVE  RecordsInv
<1>1. prLease \in LeaseRow /\ prLease.epoch = 0
  BY DEF RecordInit, NoLease, LeaseRow
<1>2. NoRow \in RecordRow /\ NoRow.item = NoItem /\ NoRow.epoch = 0 /\ NoRow.batches = <<>>
  BY DEF NoRow, RecordRow
<1>3. /\ prRows \in [PublishSteps -> RecordRow]
      /\ \A s \in PublishSteps : prRows[s] = NoRow
  BY <1>2 DEF RecordInit
<1>4. RowBatches = {}
  BY <1>2, <1>3 DEF RowBatches, PublishSteps
<1>5. /\ prRuns \in [RecordRuns -> RunStates] /\ \A x \in RecordRuns : prRuns[x] = RestingRun
  BY RunRested DEF RecordInit
<1>6. DOMAIN prIntents = {} /\ prEnded = {} /\ prTold = {} /\ prAccepted = {} /\ prRevived = FALSE
  BY DEF RecordInit
<1>7. RecordsTyped
  BY <1>1, <1>3, <1>5, <1>6 DEF RecordsTyped
<1>8. BatchesKept
  BY <1>2, <1>3, <1>6 DEF BatchesKept, PublishSteps
<1>9. RowsTrue
  BY <1>1, <1>2, <1>3, <1>4, <1>8 DEF RowsTrue, PublishSteps
<1>10. IntentsTrue /\ EndedHasSummary
  BY <1>6 DEF IntentsTrue, EndedHasSummary
<1>11. \A x \in RecordRuns : RunTrue(x)
  BY <1>1, <1>5, RunRested DEF RunTrue
<1> QED
  BY <1>7, <1>9, <1>10, <1>11 DEF RecordsInv

LEMMA RecordsInvHolds ==
  ASSUME RecordsInv
  PROVE  RecordsTypeOK /\ BatchesKept /\ ResumedIsReal /\ ReconciledWasDone /\ EndedHasSummary
<1>1. RecordsTypeOK
  BY DEF RecordsInv, RecordsTyped, RecordsTypeOK, IntentStates
<1>2. BatchesKept /\ EndedHasSummary
  BY DEF RecordsInv, RowsTrue
<1>3. ResumedIsReal
  <2>1. \A b \in RowBatches : BatchOp(b) \in prAccepted
    BY DEF RecordsInv, RowsTrue
  <2>2. \A x \in RecordRuns : \A b \in prRuns[x].resumed : BatchItem[b] = prRuns[x].item /\ b \in RowBatches
    BY DEF RecordsInv, RunTrue
  <2> QED
    BY <2>1, <2>2 DEF ResumedIsReal, BatchOp
<1>4. ReconciledWasDone
  BY DEF RecordsInv, IntentsTrue, ReconciledWasDone, Carried
<1> QED
  BY <1>1, <1>2, <1>3, <1>4

(* What a step may never do *)

RowsAdvance ==
  \A s \in PublishSteps :
    /\ prRows'[s].epoch >= prRows[s].epoch
    /\ SubSeq(prRows'[s].batches, 1, Len(prRows[s].batches)) = prRows[s].batches

LEMMA RowFacts ==
  ASSUME RecordsInv
  PROVE  /\ prRows \in [PublishSteps -> RecordRow]
         /\ \A s \in PublishSteps :
              /\ prRows[s].epoch \in Nat /\ prRows[s].epoch <= prLease.epoch
              /\ SubSeq(prRows[s].batches, 1, Len(prRows[s].batches)) = prRows[s].batches
<1>1. prRows \in [PublishSteps -> RecordRow]
  BY DEF RecordsInv, RecordsTyped
<1>2. ASSUME NEW s \in PublishSteps
      PROVE  /\ prRows[s].epoch \in Nat /\ prRows[s].epoch <= prLease.epoch
             /\ SubSeq(prRows[s].batches, 1, Len(prRows[s].batches)) = prRows[s].batches
  <2>1. prRows[s].epoch \in Nat /\ prRows[s].batches \in Seq(RecordBatches)
    BY <1>1 DEF RecordRow
  <2> QED
    BY <2>1 DEF RecordsInv, RowsTrue
<1> QED
  BY <1>1, <1>2

LEMMA RowsStay ==
  ASSUME RecordsInv, prRows' = prRows
  PROVE  RowsAdvance
<1>1. \A s \in PublishSteps :
        /\ prRows[s].epoch \in Nat
        /\ SubSeq(prRows[s].batches, 1, Len(prRows[s].batches)) = prRows[s].batches
  BY RowFacts
<1> QED
  BY <1>1 DEF RowsAdvance

LEMMA RecordAdvances ==
  ASSUME RecordsInv, NEW i, NEW e \in Nat, NEW o \in RecordOps, recordPublishStep(i, e, o),
         e = 0 \/ e = prLease.epoch
  PROVE  RowsAdvance
<1> PICK n : n = IF e = 0 THEN prRows[o.step].epoch ELSE e
  OBVIOUS
<1> PICK new : new = NewBatches(o)
  OBVIOUS
<1>1. o.step \in PublishSteps
  BY DEF RecordOps, PublishSteps
<1>2. /\ prRows \in [PublishSteps -> RecordRow] /\ prLease.epoch \in Nat
      /\ \A s \in PublishSteps :
              /\ prRows[s].epoch \in Nat /\ prRows[s].epoch <= prLease.epoch
              /\ SubSeq(prRows[s].batches, 1, Len(prRows[s].batches)) = prRows[s].batches
  BY RowFacts DEF RecordsInv, RecordsTyped, LeaseRow
<1>3. n >= prRows[o.step].epoch
  BY <1>1, <1>2
<1>4. SubSeq(new, 1, Len(prRows[o.step].batches)) = prRows[o.step].batches
  BY BatchesMerge
<1>5. /\ prRows'[o.step].epoch = n /\ prRows'[o.step].batches = new
      /\ \A s \in PublishSteps \ {o.step} : prRows'[s] = prRows[s]
  BY <1>1, <1>2 DEF recordPublishStep, NewBatches
<1>6. ASSUME NEW s \in PublishSteps
      PROVE  /\ prRows'[s].epoch >= prRows[s].epoch
             /\ SubSeq(prRows'[s].batches, 1, Len(prRows[s].batches)) = prRows[s].batches
  <2>1. CASE s = o.step
    BY <1>3, <1>4, <1>5, <2>1
  <2>2. CASE s # o.step
    BY <1>2, <1>5, <2>2
  <2> QED
    BY <2>1, <2>2
<1> QED
  BY <1>6 DEF RowsAdvance

LEMMA RowsMoveOnStep ==
  ASSUME RecordAssumption, RecordsInv, [RecordNext]_recordVars
  PROVE  RowsAdvance
<1>1. CASE UNCHANGED recordVars
  BY <1>1, RowsStay DEF recordVars
<1>2. ASSUME NEW x \in RecordRuns, WriteRecord(x)
      PROVE  RowsAdvance
  <2> PICK o : o = prRuns[x].op
    OBVIOUS
  <2>1. /\ prRuns[x].pc = "write"
        /\ \/ AttemptHolds(x) /\ recordPublishStep(prRuns[x].item, prRuns[x].epoch, o)
           \/ prRows' = prRows
    BY <1>2 DEF WriteRecord, AttemptAt, RowWritable
  <2>2. prRuns[x] \in RunStates /\ prRuns[x].item \in Items /\ RunTrue(x)
    BY <2>1, AttemptFacts
  <2>3. prRuns[x].epoch \in Nat /\ o \in RecordOps
    BY <2>1, <2>2, OpsAre DEF RunStates, RunTrue
  <2>4. AttemptHolds(x) => prRuns[x].epoch = prLease.epoch
    BY DEF AttemptHolds, isPrActorLeaseHeld
  <2> QED
    BY <2>1, <2>3, <2>4, RowsStay, RecordAdvances
<1>3. ASSUME NEW x \in RecordRuns, AttemptStep(x), ~WriteRecord(x)
      PROVE  RowsAdvance
  <2>1. prRows' = prRows
    BY <1>3 DEF AttemptStep, ClaimsReview, reconcilePendingIntents, loadReviewExecutorPublishContext,
      runClaimedReview, takePublishOnce, LabelsInPlace, PrepareProgress, ArmOnce, SendAccepted,
      OnceReturns, CheckLease, RecordRejected, ReviewDone, AttemptDies, LeaseRevives
  <2> QED
    BY <2>1, RowsStay
<1>4. ASSUME NEW i \in Items, AckRecords(i)
      PROVE  RowsAdvance
  <2>1. OnceOp("progress_comment", i) \in RecordOps
    BY DEF OnceOp, RecordOps, PublishSteps
  <2>2. recordPublishStep(i, 0, OnceOp("progress_comment", i))
    BY <1>4 DEF AckRecords, OnceOp
  <2> QED
    BY <2>1, <2>2, RecordAdvances
<1>5. ASSUME NEW i \in Items, IntakeProgressRow(i)
      PROVE  RowsAdvance
  <2>1. prRows' = [prRows EXCEPT !["progress_comment"].item = i]
    BY <1>5 DEF IntakeProgressRow
  <2>2. /\ prRows \in [PublishSteps -> RecordRow]
        /\ \A s \in PublishSteps :
              /\ prRows[s].epoch \in Nat
              /\ SubSeq(prRows[s].batches, 1, Len(prRows[s].batches)) = prRows[s].batches
    BY RowFacts
  <2>3. \A s \in PublishSteps : prRows'[s].epoch = prRows[s].epoch /\ prRows'[s].batches = prRows[s].batches
    BY <2>1, <2>2 DEF RecordRow
  <2> QED
    BY <2>2, <2>3 DEF RowsAdvance
<1>6. LeaseLapses => RowsAdvance
  BY RowsStay DEF LeaseLapses
<1> QED
  BY <1>1, <1>2, <1>3, <1>4, <1>5, <1>6 DEF RecordNext

\* Only the load itself takes an attempt from the one place to the other.
LEMMA OnlyTheLoad ==
  ASSUME RecordsInv, [RecordNext]_recordVars, NEW x \in RecordRuns, prRuns[x].pc = "load",
         prRuns'[x].pc = "receipt"
  PROVE  loadReviewExecutorPublishContext(x)
<1>1. prRuns'[x] # prRuns[x]
  OBVIOUS
<1>2. prRuns \in [RecordRuns -> RunStates]
  BY AttemptFacts
<1>3. PICK y \in RecordRuns : AttemptStep(y)
  BY <1>1 DEF RecordNext, recordVars, AckRecords, IntakeProgressRow, LeaseLapses
<1>4. ASSUME NEW i \in Items, ClaimsReview(y, i)
      PROVE  loadReviewExecutorPublishContext(x)
  BY <1>1, <1>2, <1>4 DEF ClaimsReview, AttemptAt
<1>5. ASSUME reconcilePendingIntents(y)
      PROVE  loadReviewExecutorPublishContext(x)
  BY <1>1, <1>2, <1>5 DEF reconcilePendingIntents, AttemptAt, AttemptGoes, AttemptThrows
<1>6. ASSUME runClaimedReview(y)
      PROVE  loadReviewExecutorPublishContext(x)
  BY <1>1, <1>2, <1>6 DEF runClaimedReview, AttemptAt, AttemptGoes, AttemptThrows, AttemptCompletes
<1>7. ASSUME NEW o \in RecordOps, takePublishOnce(y, o) \/ LabelsInPlace(y, o) \/ PrepareProgress(y, o)
      PROVE  loadReviewExecutorPublishContext(x)
  <2>1. prRuns[y].pc = "publish"
    BY <1>7 DEF takePublishOnce, LabelsInPlace, PrepareProgress, AttemptAt
  <2>2. prRuns'[x] = prRuns[x]
    BY <1>2, <1>7, <2>1 DEF takePublishOnce, LabelsInPlace, PrepareProgress, Recording, AttemptFails, AttemptThrows
  <2> QED
    BY <1>1, <2>2
<1>8. ASSUME ArmOnce(y) \/ SendAccepted(y) \/ OnceReturns(y) \/ CheckLease(y)
      PROVE  loadReviewExecutorPublishContext(x)
  BY <1>1, <1>2, <1>8 DEF ArmOnce, SendAccepted, OnceReturns, CheckLease, AttemptAt, AttemptGoes,
     AttemptFails, AttemptThrows
<1>9. ASSUME WriteRecord(y) \/ RecordRejected(y)
      PROVE  loadReviewExecutorPublishContext(x)
  BY <1>1, <1>2, <1>9 DEF WriteRecord, RecordRejected, RecordReturned, AttemptAt, AttemptGoes,
     AttemptFails, AttemptThrows
<1>10. ASSUME ReviewDone(y)
      PROVE  loadReviewExecutorPublishContext(x)
  BY <1>1, <1>2, <1>10 DEF ReviewDone, AttemptAt, AttemptCompletes, AttemptThrows
<1>11. ASSUME AttemptDies(y) \/ LeaseRevives(y)
      PROVE  loadReviewExecutorPublishContext(x)
  BY <1>1, <1>2, <1>11, RunRested DEF AttemptDies, LeaseRevives
<1>12. ASSUME loadReviewExecutorPublishContext(y)
      PROVE  loadReviewExecutorPublishContext(x)
  <2>1. CASE x # y
    BY <1>1, <1>2, <1>12, <2>1 DEF loadReviewExecutorPublishContext
  <2> QED
    BY <1>12, <2>1
<1> QED
  BY <1>3, <1>4, <1>5, <1>6, <1>7, <1>8, <1>9, <1>10, <1>11, <1>12 DEF AttemptStep

LEMMA NothingForgottenStep ==
  ASSUME RecordsInv, [RecordNext]_recordVars, NEW x \in RecordRuns, prRuns[x].pc = "load",
         prRuns'[x].pc = "receipt", prRows["inline_review"].item = prRuns[x].item, ~prRevived
  PROVE  {b \in prTold : BatchItem[b] = prRuns[x].item} \subseteq prRuns'[x].resumed
<1>1. loadReviewExecutorPublishContext(x)
  BY OnlyTheLoad
<1>2. prRuns \in [RecordRuns -> RunStates]
  BY AttemptFacts
<1>3. prRuns'[x].resumed = OwnBatches(prRuns[x].item)
  BY <1>1, <1>2 DEF loadReviewExecutorPublishContext, RunStates
<1>4. OwnBatches(prRuns[x].item) = {b \in RowBatches : BatchItem[b] = prRuns[x].item}
  BY DEF OwnBatches, RowBatches
<1>5. prTold \subseteq RowBatches
  BY DEF RecordsInv, RowsTrue, BatchesKept
<1> QED
  BY <1>3, <1>4, <1>5

\* What attempts record and read of each other is true, for any number of attempts, items and
\* batches: recordPublishStep, its fences, the reconciliation and the publish context.
THEOREM RecordsAreSound == RecordsSpec => RecordsSound
<1>1. RecordInit => RecordsInv
  BY RecordsInvStarts, RecordAssumption, NoItemAssumption
<1>2. RecordsInv /\ [RecordNext]_recordVars => RecordsInv'
  BY RecordsInvStep, RecordAssumption, NoItemAssumption
<1>3. RecordsInv => RecordsTypeOK /\ BatchesKept /\ ResumedIsReal /\ ReconciledWasDone /\ EndedHasSummary
  BY RecordsInvHolds
<1>4. RecordsInv /\ [RecordNext]_recordVars =>
        [\A s \in PublishSteps :
           /\ prRows'[s].epoch >= prRows[s].epoch
           /\ SubSeq(prRows'[s].batches, 1, Len(prRows[s].batches)) = prRows[s].batches]_recordVars
  BY RowsMoveOnStep, RecordAssumption DEF RowsAdvance
<1>5. RecordsInv /\ [RecordNext]_recordVars =>
        [\A x \in RecordRuns :
           AttemptAt(x, "load") /\ prRuns'[x].pc = "receipt"
             /\ prRows["inline_review"].item = prRuns[x].item /\ ~prRevived =>
             {b \in prTold : BatchItem[b] = prRuns[x].item} \subseteq prRuns'[x].resumed]_recordVars
  BY NothingForgottenStep DEF AttemptAt
<1> QED
  BY <1>1, <1>2, <1>3, <1>4, <1>5, PTL DEF RecordsSpec, RecordsSound, RowsMoveOn, NothingForgotten

=============================================================================
