---------------------------- MODULE ServingProofs ----------------------------
(***************************************************************************)
(* Proofs about the components that serve requests: the rate-limit         *)
(* circuits (RateLimit), search in pinned checkouts (WorkspaceSearch), and *)
(* what GitHub lets the App do in a repository (GithubAccess).             *)
(* Each part gives the inductive invariant of its component, the lemmas    *)
(* that its steps keep it, and the theorem that the component keeps what   *)
(* it promises.                                                            *)
(***************************************************************************)
EXTENDS RateLimit, WorkspaceSearch, GithubAccess, TLAPS

-----------------------------------------------------------------------------
(* RateLimit *)

Circuits ==
    [pc : {"queued", "starting", "hydrating", "running", "ended"}, open : BOOLEAN,
     until : Nat, consecutive : 0 .. Threshold, retries : Nat, streak : 0 .. Threshold,
     opened : 0 .. Threshold, seen : Nat]

\* A circuit the run opened itself has counted to the threshold, and a closed one has counted
\* no more requests than really ran out of retries in a row.
Counts(c) ==
    /\ c.open /\ c.until = 0 => c.opened = Threshold
    /\ ~c.open => c.consecutive < Threshold /\ c.consecutive <= c.streak

CircuitInv ==
    /\ rlClock \in 0 .. MaxClock /\ rlShared \in Nat
    /\ rlUpserts \subseteq Nat /\ rlLanded \subseteq Nat
    /\ rlRun \in [CircuitRuns -> Circuits]
    /\ \A r \in CircuitRuns : Counts(rlRun[r])
    /\ CooldownsCovered

\* The operations of createRateLimitCircuit keep the counts, and none of them closes a circuit
\* that has no expiry.
LEMMA CircuitOperations ==
  ASSUME NEW c \in Circuits, Counts(c), rlClock \in Nat
  PROVE  /\ \A d \in {clearExpiredSharedOpen(c), [recordSuccess(c) EXCEPT !.retries = 0, !.streak = 0]} :
              d \in Circuits /\ Counts(d) /\ (c.open /\ c.until = 0 => d.open)
         /\ \A u \in Nat : LET d == hydrateOpenFromShared(c, u) IN
              d \in Circuits /\ Counts(d) /\ (c.open => d.open)
<1>0. 0 \in 0 .. Threshold /\ Threshold \in 0 .. Threshold /\ 0 < Threshold /\ \A n \in 0 .. Threshold : n >= 0
  BY CircuitAssumption
<1>1. LET d == clearExpiredSharedOpen(c) IN
        d \in Circuits /\ Counts(d) /\ (c.open /\ c.until = 0 => d.open)
  <2>1. CASE c.open /\ c.until # 0 /\ rlClock >= c.until
    <3> DEFINE d == [c EXCEPT !.open = FALSE, !.until = 0, !.consecutive = 0]
    <3>1. clearExpiredSharedOpen(c) = d
      BY <2>1 DEF clearExpiredSharedOpen
    <3>2. d \in Circuits
      BY <1>0 DEF Circuits
    <3>3. d.open = FALSE /\ d.consecutive = 0 /\ d.streak = c.streak /\ c.streak >= 0
      BY <1>0 DEF Circuits
    <3> HIDE DEF d
    <3> QED
      BY <1>0, <2>1, <3>1, <3>2, <3>3 DEF Counts
  <2>2. CASE ~(c.open /\ c.until # 0 /\ rlClock >= c.until)
    BY <2>2 DEF clearExpiredSharedOpen
  <2> QED
    BY <2>1, <2>2
<1>2. LET d == [recordSuccess(c) EXCEPT !.retries = 0, !.streak = 0] IN
        d \in Circuits /\ Counts(d) /\ (c.open /\ c.until = 0 => d.open)
  <2> DEFINE expired == c.open /\ c.until # 0 /\ rlClock >= c.until
             e == [c EXCEPT !.consecutive = 0, !.open = @ /\ ~expired,
                            !.until = IF expired THEN 0 ELSE @]
             d == [e EXCEPT !.retries = 0, !.streak = 0]
  <2>1. recordSuccess(c) = e
    BY DEF recordSuccess
  <2>2. /\ c.open \in BOOLEAN /\ c.until \in Nat
    BY DEF Circuits
  <2> HIDE DEF expired
  <2>3. e \in Circuits /\ e.open = (c.open /\ ~expired) /\ e.until = IF expired THEN 0 ELSE c.until
    BY <1>0, <2>2 DEF Circuits
  <2>4. e.consecutive = 0 /\ e.opened = c.opened
    BY DEF Circuits
  <2> HIDE DEF e
  <2>5. d \in Circuits /\ d.open = e.open /\ d.until = e.until /\ d.consecutive = 0
        /\ d.opened = c.opened /\ d.streak = 0
    BY <1>0, <2>3, <2>4 DEF Circuits
  <2> HIDE DEF d
  <2>6. d.open /\ d.until = 0 => c.open /\ c.until = 0
    BY <2>2, <2>3, <2>5 DEF expired
  <2>7. Counts(d)
    BY <1>0, <2>5, <2>6 DEF Counts
  <2>8. c.open /\ c.until = 0 => d.open
    BY <2>3, <2>5 DEF expired
  <2> QED
    BY <2>1, <2>5, <2>7, <2>8 DEF d
<1>3. ASSUME NEW u \in Nat
      PROVE  LET d == hydrateOpenFromShared(c, u) IN
               d \in Circuits /\ Counts(d) /\ (c.open => d.open)
  <2>1. CASE rlClock >= u
    BY <2>1 DEF hydrateOpenFromShared
  <2>2. CASE ~(rlClock >= u)
    <3> DEFINE d == [c EXCEPT !.open = TRUE, !.until = u, !.consecutive = Threshold]
    <3>1. hydrateOpenFromShared(c, u) = d /\ u # 0
      BY <2>2 DEF hydrateOpenFromShared
    <3>2. d \in Circuits /\ d.open = TRUE /\ d.until = u
      BY <1>0 DEF Circuits
    <3> HIDE DEF d
    <3> QED
      BY <3>1, <3>2 DEF Counts
  <2> QED
    BY <2>1, <2>2
<1> QED
  BY <1>1, <1>2, <1>3

\* noteRateLimitRetryExhausted counts one request more, and opens the circuit at the threshold.
LEMMA FailureCounts ==
  ASSUME NEW c \in Circuits, Counts(c), rlClock \in Nat
  PROVE  LET d == recordFailure([c EXCEPT !.streak = IF @ < Threshold THEN @ + 1 ELSE @,
                                          !.retries = 0])
         IN  d \in Circuits /\ Counts(d) /\ (c.open /\ c.until = 0 => d.open)
<1> DEFINE s == IF c.streak < Threshold THEN c.streak + 1 ELSE c.streak
           e == [c EXCEPT !.streak = s, !.retries = 0]
           now == clearExpiredSharedOpen(e)
           d == recordFailure(e)
<1> SUFFICES d \in Circuits /\ Counts(d) /\ (c.open /\ c.until = 0 => d.open)
  OBVIOUS
<1>0. /\ Threshold \in Nat /\ Threshold >= 1 /\ 0 \in 0 .. Threshold /\ Threshold \in 0 .. Threshold
      /\ c.streak \in 0 .. Threshold /\ c.consecutive \in 0 .. Threshold /\ c.opened \in 0 .. Threshold
      /\ c.until \in Nat /\ c.open \in BOOLEAN
  BY CircuitAssumption DEF Circuits
<1>1. s \in 0 .. Threshold /\ s >= 1 /\ (s = c.streak + 1 \/ s = Threshold) /\ s >= c.streak
  BY <1>0
<1> HIDE DEF s
<1>2. /\ e \in Circuits
      /\ e.open = c.open /\ e.until = c.until /\ e.consecutive = c.consecutive
      /\ e.streak = s /\ e.opened = c.opened
  BY <1>1 DEF Circuits
<1> HIDE DEF e
<1>3. /\ now \in Circuits /\ now.streak = s
      /\ now.open => now = e
      /\ ~now.open => now.consecutive < Threshold /\ (now.consecutive + 1 <= s \/ s = Threshold)
      /\ c.open /\ c.until = 0 => now.open
  <2>1. CASE e.open /\ e.until # 0 /\ rlClock >= e.until
    <3> DEFINE f == [e EXCEPT !.open = FALSE, !.until = 0, !.consecutive = 0]
    <3>1. now = f
      BY <2>1 DEF clearExpiredSharedOpen
    <3>2. f \in Circuits /\ f.open = FALSE /\ f.consecutive = 0 /\ f.streak = s
      BY <1>0, <1>2 DEF Circuits
    <3> HIDE DEF f
    <3>3. 0 < Threshold /\ 0 + 1 <= s
      BY <1>0, <1>1
    <3> HIDE DEF now
    <3> QED
      BY <1>2, <2>1, <3>1, <3>2, <3>3
  <2>2. CASE ~(e.open /\ e.until # 0 /\ rlClock >= e.until)
    <3>1. now = e
      BY <2>2 DEF clearExpiredSharedOpen
    <3>2. ~e.open => c.consecutive < Threshold /\ c.consecutive <= c.streak
      BY <1>2 DEF Counts
    <3>3. ~e.open => e.consecutive < Threshold /\ (e.consecutive + 1 <= s \/ s = Threshold)
      BY <1>0, <1>1, <1>2, <3>2
    <3> HIDE DEF now
    <3> QED
      BY <1>2, <2>2, <3>1, <3>3
  <2> QED
    BY <2>1, <2>2
<1>4. d = IF now.open THEN now
          ELSE IF now.consecutive + 1 < Threshold
               THEN [now EXCEPT !.consecutive = @ + 1]
               ELSE [now EXCEPT !.consecutive = Threshold, !.open = TRUE, !.until = 0,
                                !.opened = now.streak]
  BY DEF recordFailure
<1>5. now.consecutive \in 0 .. Threshold
  BY <1>3 DEF Circuits
<1> HIDE DEF now, d
<1>6. CASE now.open
  BY <1>2, <1>3, <1>4, <1>6 DEF Counts
<1>7. CASE ~now.open /\ now.consecutive + 1 < Threshold
  <2> DEFINE n == now.consecutive + 1
  <2>1. n \in 0 .. Threshold /\ n < Threshold /\ n <= s
    BY <1>0, <1>1, <1>3, <1>5, <1>7
  <2>2. d = [now EXCEPT !.consecutive = n]
    BY <1>4, <1>7
  <2> HIDE DEF n
  <2>3. d \in Circuits /\ d.consecutive = n /\ d.open = now.open /\ d.streak = s
    BY <1>3, <2>1, <2>2 DEF Circuits
  <2> QED
    BY <1>3, <1>7, <2>1, <2>3 DEF Counts
<1>8. CASE ~now.open /\ ~(now.consecutive + 1 < Threshold)
  <2>1. d = [now EXCEPT !.consecutive = Threshold, !.open = TRUE, !.until = 0,
                        !.opened = now.streak]
    BY <1>4, <1>8
  <2>2. s = Threshold
    BY <1>0, <1>1, <1>3, <1>5, <1>8
  <2>3. d \in Circuits /\ d.open = TRUE /\ d.opened = Threshold
    BY <1>0, <1>3, <2>1, <2>2 DEF Circuits
  <2> QED
    BY <2>3 DEF Counts
<1> QED
  BY <1>6, <1>7, <1>8

\* A step of one run: its circuit still counts, and one it opened stays open or ends with it.
LEMMA RunSteps ==
  ASSUME CircuitInv, NEW r \in CircuitRuns,
         \/ AdmitRun(r) \/ ReadShared(r) \/ openRunRateLimitCircuit(r)
         \/ RequestSucceeds(r) \/ RequestLimited(r) \/ UseTool(r) \/ EndCircuitRun(r)
  PROVE  /\ \E d \in Circuits :
              /\ rlRun' = [rlRun EXCEPT ![r] = d] /\ Counts(d)
              /\ rlRun[r].open /\ rlRun[r].until = 0 => d.open \/ d.pc = "ended"
         /\ UNCHANGED <<rlClock, rlShared, rlLanded>> /\ rlUpserts' \subseteq Nat
<1> DEFINE c == rlRun[r]
<1>1. c \in Circuits /\ Counts(c) /\ rlClock \in Nat /\ rlShared \in Nat
  BY CircuitAssumption DEF CircuitInv
<1>2. CASE AdmitRun(r)
  <2> DEFINE d == [c EXCEPT !.pc = "starting"]
  <2>1. rlRun' = [rlRun EXCEPT ![r] = d] /\ UNCHANGED <<rlClock, rlShared, rlLanded, rlUpserts>>
    BY <1>2 DEF AdmitRun
  <2>2. d \in Circuits /\ Counts(d) /\ d.open = c.open
    BY <1>1 DEF Circuits, Counts
  <2> QED
    BY <2>1, <2>2 DEF CircuitInv
<1>3. CASE ReadShared(r)
  <2>1. PICK answered \in BOOLEAN :
          rlRun' = [rlRun EXCEPT ![r].pc = IF answered /\ SharedOpen THEN "hydrating" ELSE "running",
                                 ![r].seen = IF answered THEN rlShared ELSE 0]
    BY <1>3 DEF ReadShared
  <2> DEFINE d == [c EXCEPT !.pc = IF answered /\ SharedOpen THEN "hydrating" ELSE "running",
                            !.seen = IF answered THEN rlShared ELSE 0]
  <2>2. rlRun' = [rlRun EXCEPT ![r] = d] /\ UNCHANGED <<rlClock, rlShared, rlLanded, rlUpserts>>
    BY <1>3, <2>1 DEF ReadShared, CircuitInv
  <2>3. d \in Circuits /\ Counts(d) /\ d.open = c.open
    BY <1>1 DEF Circuits, Counts
  <2> QED
    BY <2>2, <2>3 DEF CircuitInv
<1>4. CASE openRunRateLimitCircuit(r)
  <2> DEFINE h == hydrateOpenFromShared(c, c.seen)
             d == [h EXCEPT !.pc = "running"]
  <2>1. rlRun' = [rlRun EXCEPT ![r] = d] /\ UNCHANGED <<rlClock, rlShared, rlLanded, rlUpserts>>
    BY <1>4 DEF openRunRateLimitCircuit
  <2>2. h \in Circuits /\ Counts(h) /\ (c.open => h.open)
    BY <1>1, CircuitOperations DEF Circuits
  <2> HIDE DEF h
  <2>3. d \in Circuits /\ Counts(d) /\ d.open = h.open
    BY <2>2 DEF Circuits, Counts
  <2> QED
    BY <2>1, <2>2, <2>3 DEF CircuitInv
<1>5. CASE RequestSucceeds(r)
  <2> DEFINE d == [recordSuccess(c) EXCEPT !.retries = 0, !.streak = 0]
  <2>1. rlRun' = [rlRun EXCEPT ![r] = d] /\ UNCHANGED <<rlClock, rlShared, rlLanded, rlUpserts>>
    BY <1>5 DEF RequestSucceeds
  <2>2. d \in Circuits /\ Counts(d) /\ (c.open /\ c.until = 0 => d.open)
    BY <1>1, CircuitOperations
  <2> HIDE DEF d
  <2> QED
    BY <2>1, <2>2 DEF CircuitInv
<1>6. CASE RequestLimited(r)
  <2>1. UNCHANGED <<rlClock, rlShared, rlLanded>>
    BY <1>6 DEF RequestLimited
  <2>2. CASE rlRun' = [rlRun EXCEPT ![r].retries = @ + 1] /\ UNCHANGED rlUpserts
    <3> DEFINE d == [c EXCEPT !.retries = @ + 1]
    <3>1. rlRun' = [rlRun EXCEPT ![r] = d]
      BY <2>2
    <3>2. d \in Circuits /\ Counts(d) /\ d.open = c.open
      BY <1>1 DEF Circuits, Counts
    <3> QED
      BY <2>1, <2>2, <3>1, <3>2 DEF CircuitInv
  <2>3. CASE noteRateLimitRetryExhausted(r)
    <3> DEFINE d == recordFailure([c EXCEPT !.streak = IF @ < Threshold THEN @ + 1 ELSE @,
                                            !.retries = 0])
    <3>1. rlRun' = [rlRun EXCEPT ![r] = d]
      BY <2>3 DEF noteRateLimitRetryExhausted
    <3>2. rlUpserts' \subseteq Nat
      BY <1>1, <2>3, CircuitAssumption DEF noteRateLimitRetryExhausted, CircuitInv
    <3>3. d \in Circuits /\ Counts(d) /\ (c.open /\ c.until = 0 => d.open)
      BY <1>1, FailureCounts
    <3> HIDE DEF d
    <3> QED
      BY <2>1, <3>1, <3>2, <3>3
  <2> QED
    BY <1>6, <2>2, <2>3 DEF RequestLimited
<1>7. CASE UseTool(r)
  <2> DEFINE d == clearExpiredSharedOpen(c)
  <2>1. rlRun' = [rlRun EXCEPT ![r] = d] /\ UNCHANGED <<rlClock, rlShared, rlLanded, rlUpserts>>
    BY <1>7 DEF UseTool
  <2>2. d \in Circuits /\ Counts(d) /\ (c.open /\ c.until = 0 => d.open)
    BY <1>1, CircuitOperations
  <2> HIDE DEF d
  <2> QED
    BY <2>1, <2>2 DEF CircuitInv
<1>8. CASE EndCircuitRun(r)
  <2> DEFINE d == [NewCircuit EXCEPT !.pc = "ended"]
  <2>1. rlRun' = [rlRun EXCEPT ![r] = d] /\ UNCHANGED <<rlClock, rlShared, rlLanded, rlUpserts>>
    BY <1>8 DEF EndCircuitRun
  <2>2. /\ d \in Circuits /\ d.pc = "ended" /\ d.open = FALSE /\ d.consecutive = 0
        /\ d.streak = 0
    <3>1. /\ NewCircuit \in Circuits /\ NewCircuit.open = FALSE
          /\ NewCircuit.consecutive = 0 /\ NewCircuit.streak = 0
      BY CircuitAssumption DEF Circuits, NewCircuit
    <3> QED
      BY <3>1 DEF Circuits
  <2>3. Counts(d)
    BY <2>2, CircuitAssumption DEF Counts
  <2> HIDE DEF d
  <2> QED
    BY <2>1, <2>2, <2>3 DEF CircuitInv
<1> QED
  BY <1>2, <1>3, <1>4, <1>5, <1>6, <1>7, <1>8

\* A run's own failures open its circuit at the threshold and for the rest of the run, and the
\* shared row covers every cooldown the database took: for any number of runs and retries, any
\* threshold, any cooldown, and upserts that land in any order or not at all.
THEOREM CircuitIsSound == CircuitSpec => CircuitSound
<1>1. CircuitInit => CircuitInv
  <2> SUFFICES ASSUME CircuitInit PROVE CircuitInv
    OBVIOUS
  <2>1. NewCircuit \in Circuits /\ Counts(NewCircuit)
    BY CircuitAssumption DEF NewCircuit, Circuits, Counts
  <2> QED
    BY <2>1, CircuitAssumption DEF CircuitInit, CircuitInv, CooldownsCovered
<1> DEFINE StaysOpen == \A r \in CircuitRuns :
             (rlRun[r].open /\ rlRun[r].until = 0) => (rlRun'[r].open \/ rlRun'[r].pc = "ended")
<1>2. CircuitInv /\ CircuitNext => CircuitInv' /\ StaysOpen
  <2> SUFFICES ASSUME CircuitInv, CircuitNext PROVE CircuitInv' /\ StaysOpen
    OBVIOUS
  <2>1. ASSUME NEW r \in CircuitRuns,
               \/ AdmitRun(r) \/ ReadShared(r) \/ openRunRateLimitCircuit(r)
               \/ RequestSucceeds(r) \/ RequestLimited(r) \/ UseTool(r) \/ EndCircuitRun(r)
        PROVE  CircuitInv' /\ StaysOpen
    <3>1. PICK d \in Circuits :
              /\ rlRun' = [rlRun EXCEPT ![r] = d] /\ Counts(d)
              /\ rlRun[r].open /\ rlRun[r].until = 0 => d.open \/ d.pc = "ended"
      BY <2>1, RunSteps
    <3>2. UNCHANGED <<rlClock, rlShared, rlLanded>> /\ rlUpserts' \subseteq Nat
      BY <2>1, RunSteps
    <3>3. rlRun' \in [CircuitRuns -> Circuits] /\ rlRun'[r] = d
          /\ \A q \in CircuitRuns \ {r} : rlRun'[q] = rlRun[q]
      BY <3>1 DEF CircuitInv
    <3>4. \A q \in CircuitRuns : Counts(rlRun'[q])
      BY <3>1, <3>3 DEF CircuitInv
    <3> QED
      BY <3>1, <3>2, <3>3, <3>4 DEF CircuitInv, CooldownsCovered
  <2>2. CASE UpsertAnswered
    <3>1. PICK u \in rlUpserts :
            /\ rlUpserts' = rlUpserts \ {u}
            /\ \/ rlShared' = upserted(u) /\ rlLanded' = rlLanded \cup {u}
               \/ UNCHANGED <<rlShared, rlLanded>>
            /\ UNCHANGED <<rlClock, rlRun>>
      BY <2>2 DEF UpsertAnswered
    <3>2. u \in Nat /\ upserted(u) \in Nat /\ upserted(u) >= rlShared /\ upserted(u) >= u
      BY DEF CircuitInv, upserted
    <3>3. rlShared' \in Nat /\ rlShared' >= rlShared
      BY <3>1, <3>2 DEF CircuitInv
    <3>4. rlUpserts' \subseteq Nat /\ rlLanded' \subseteq Nat
      BY <3>1, <3>2 DEF CircuitInv
    <3>5. CooldownsCovered'
      <4> SUFFICES ASSUME NEW v \in rlLanded' PROVE v <= rlShared'
        BY DEF CooldownsCovered
      <4>1. v \in rlLanded \/ (v = u /\ rlShared' = upserted(u))
        BY <3>1
      <4>2. CASE v \in rlLanded
        <5>1. v \in Nat /\ v <= rlShared /\ rlShared \in Nat
          BY <4>2 DEF CircuitInv, CooldownsCovered
        <5> QED
          BY <3>3, <5>1
      <4>3. CASE v = u /\ rlShared' = upserted(u)
        BY <3>2, <4>3
      <4> QED
        BY <4>1, <4>2, <4>3
    <3> QED
      BY <3>1, <3>3, <3>4, <3>5 DEF CircuitInv
  <2>3. CASE ClockTicks
    BY <2>3, CircuitAssumption DEF ClockTicks, CircuitInv, CooldownsCovered
  <2> QED
    BY <2>1, <2>2, <2>3 DEF CircuitNext
<1>3. CircuitInv /\ UNCHANGED circuitVars => CircuitInv'
  BY DEF circuitVars, CircuitInv, CooldownsCovered
<1>4. CircuitInv => RateLimitTypeOK /\ OpensAtThreshold /\ CooldownsCovered
  BY DEF CircuitInv, RateLimitTypeOK, OpensAtThreshold, Circuits, Counts
<1> QED
  BY <1>1, <1>2, <1>3, <1>4, PTL DEF CircuitSpec, CircuitSound, OpenedStaysOpen

-----------------------------------------------------------------------------
(* WorkspaceSearch *)

SearchStates ==
    [pc : {"idle", "opening", "granted", "grepping", "done"}, awaits : Nat,
     answeredBy : Searches \cup {NoSearch, "git"}]

ReaderStates ==
    [index : Nat, known : {"pending", "ready", "none"}, opened : BOOLEAN, disposed : BOOLEAN]

\* Requests have ids of their own, those at the host are its own and are waited for, and
\* nobody waits for a request that is gone.
JobsConsistent ==
    /\ \A j, k \in wsJobs : j.id = k.id => j = k
    /\ \A j \in wsJobs : j.id \in 1 .. wsNextId - 1
    /\ \A j \in wsJobs : j.at \in {"sent", "scanning"} =>
          j.host = wsHost /\ wsHost # 0 /\ j.id \in wsPending
    /\ \A j \in wsJobs : j.at \in {"scanning", "ready"} => j.op = "open"
    /\ \A p \in wsPending : \E j \in wsJobs : j.id = p

\* A search waits for a request of its kind, and for a grep of its own.
SearchWaits(x) ==
    /\ IF wsSearch[x].pc \in {"opening", "grepping"}
       THEN wsSearch[x].awaits \in wsPending
       ELSE wsSearch[x].awaits = 0
    /\ \A j \in wsJobs : j.id = wsSearch[x].awaits =>
          IF wsSearch[x].pc = "opening" THEN j.op = "open"
          ELSE j.op = "grep" /\ j.search = x
    /\ wsSearch[x].pc = "done" => wsSearch[x].answeredBy \in {x, "git"}

\* A reader that expects an index has a request for it.
ReaderWaits(r) ==
    wsReader[r].index # 0 /\ wsReader[r].known = "pending" =>
        \E j \in wsJobs : /\ j.id = wsReader[r].index /\ j.id \in wsPending
                          /\ j.op = "open" /\ j.reader = r

\* A request at which the index of its reader is closed, or becomes known to it.
Owes(j, r) ==
    /\ j.reader = r /\ j.id \in wsPending
    /\ \/ j.op = "open" /\ j.at = "ready"
       \/ j.op = "close" /\ j.at = "sent"

\* An index at the host belongs to a reader that will close it, or such a request is under way.
IndexOwned(r) ==
    HasIndex(r) => \/ wsReader[r].opened /\ ~wsReader[r].disposed
                   \/ \E j \in wsJobs : Owes(j, r)

FindersConsistent ==
    /\ wsHost = 0 => wsFinders = <<>>
    /\ \A m, n \in DOMAIN wsFinders : wsFinders[m] = wsFinders[n] => m = n

SearchInv ==
    /\ WorkspaceSearchTypeOK /\ JobsConsistent /\ FindersConsistent
    /\ \A x \in Searches : SearchWaits(x)
    /\ \A r \in Readers : ReaderWaits(r) /\ IndexOwned(r)

\* The list without a key has every other key once.
LEMMA ClosedIndex ==
  ASSUME wsFinders \in Seq(Readers), FindersConsistent, NEW r \in Readers
  PROVE  /\ closeIndex(r) \in Seq(Readers)
         /\ \A m, n \in DOMAIN closeIndex(r) : closeIndex(r)[m] = closeIndex(r)[n] => m = n
         /\ \A m \in DOMAIN closeIndex(r) : closeIndex(r)[m] # r /\ HasIndex(closeIndex(r)[m])
<1>1. CASE ~HasIndex(r)
  BY <1>1 DEF closeIndex, HasIndex, FindersConsistent
<1>2. CASE HasIndex(r)
  <2> DEFINE at == CHOOSE i \in DOMAIN wsFinders : wsFinders[i] = r
             rest == [i \in 1 .. Len(wsFinders) - 1 |-> wsFinders[IF i < at THEN i ELSE i + 1]]
  <2>1. at \in 1 .. Len(wsFinders) /\ wsFinders[at] = r
    BY <1>2 DEF HasIndex
  <2>2. Len(wsFinders) - 1 \in Nat /\ DOMAIN wsFinders = 1 .. Len(wsFinders)
        /\ \A i \in 1 .. Len(wsFinders) : wsFinders[i] \in Readers
    BY <2>1
  <2> HIDE DEF at
  <2>3. \A i \in 1 .. Len(wsFinders) - 1 : (IF i < at THEN i ELSE i + 1) \in 1 .. Len(wsFinders) \ {at}
    BY <2>1, <2>2
  <2>4. rest \in Seq(Readers) /\ DOMAIN rest = 1 .. Len(wsFinders) - 1
    <3>1. rest \in [1 .. Len(wsFinders) - 1 -> Readers]
      BY <2>2, <2>3
    <3> QED
      BY <2>2, <3>1
  <2>5. ASSUME NEW m \in DOMAIN rest
        PROVE  rest[m] # r /\ HasIndex(rest[m])
    BY <2>1, <2>2, <2>3, <2>4 DEF HasIndex, FindersConsistent
  <2>6. ASSUME NEW m \in DOMAIN rest, NEW n \in DOMAIN rest, rest[m] = rest[n]
        PROVE  m = n
    <3>1. (IF m < at THEN m ELSE m + 1) = (IF n < at THEN n ELSE n + 1)
      BY <2>2, <2>3, <2>4, <2>6 DEF FindersConsistent
    <3> QED
      BY <2>1, <2>2, <2>4, <3>1
  <2>7. closeIndex(r) = rest
    BY <1>2 DEF closeIndex, at
  <2> QED
    BY <2>4, <2>5, <2>6, <2>7
<1> QED
  BY <1>1, <1>2

\* A list with one key more at its end.
Appended(new, old, key) ==
    /\ DOMAIN new = 1 .. Len(old) + 1 /\ new[Len(old) + 1] = key
    /\ \A i \in 1 .. Len(old) : new[i] = old[i]
    /\ \A m \in DOMAIN new : new[m] = key \/ \E i \in DOMAIN old : old[i] = new[m]
    /\ new \in Seq(Readers)

LEMMA AppendedSays ==
  ASSUME NEW old \in Seq(Readers), NEW key \in Readers
  PROVE  Appended(Append(old, key), old, key)
<1> DEFINE new == Append(old, key)
<1>1. Len(old) \in Nat /\ DOMAIN old = 1 .. Len(old)
  OBVIOUS
<1>2. /\ new \in Seq(Readers) /\ DOMAIN new = 1 .. Len(old) + 1 /\ new[Len(old) + 1] = key
      /\ \A i \in 1 .. Len(old) : new[i] = old[i]
  BY <1>1
<1> HIDE DEF new
<1>3. ASSUME NEW m \in DOMAIN new
      PROVE  new[m] = key \/ \E i \in DOMAIN old : old[i] = new[m]
  <2>1. m = Len(old) + 1 \/ m \in 1 .. Len(old)
    BY <1>1, <1>2
  <2> QED
    BY <1>1, <1>2, <2>1
<1> QED
  BY <1>2, <1>3 DEF Appended, new

LEMMA AppendedKeeps ==
  ASSUME NEW old \in Seq(Readers), NEW key \in Readers, NEW new, Appended(new, old, key),
         \A m, n \in DOMAIN old : old[m] = old[n] => m = n,
         \A m \in DOMAIN old : old[m] # key
  PROVE  new \in Seq(Readers) /\ \A m, n \in DOMAIN new : new[m] = new[n] => m = n
<1>1. Len(old) \in Nat /\ DOMAIN old = 1 .. Len(old)
  OBVIOUS
<1>2. ASSUME NEW m \in DOMAIN new, NEW n \in DOMAIN new, new[m] = new[n]
      PROVE  m = n
  <2>1. /\ m = Len(old) + 1 \/ m \in 1 .. Len(old)
        /\ n = Len(old) + 1 \/ n \in 1 .. Len(old)
    BY <1>1 DEF Appended
  <2> QED
    BY <1>1, <1>2, <2>1 DEF Appended
<1> QED
  BY <1>2 DEF Appended

\* What a request adds to the books.
SentOff(op, r, x) ==
    /\ wsJobs \subseteq wsJobs' /\ wsPending \subseteq wsPending' /\ wsNextId \in wsPending'
    /\ \A j \in wsJobs' : \/ j \in wsJobs
                          \/ /\ j.id = wsNextId /\ j.op = op /\ j.reader = r
                             /\ j.search = x /\ j.at = "sent"
    /\ \E j \in wsJobs' : /\ j.id = wsNextId /\ j.op = op /\ j.reader = r
                          /\ j.search = x /\ j.at = "sent"
    /\ wsFinders' = wsFinders

\* The types of what the client and the host keep.
ClientTyped ==
    /\ wsHost \in Nat /\ wsSpawned \in Nat /\ wsBackoff \in BOOLEAN
    /\ wsFinders \in Seq(Readers)
    /\ wsNextId \in Nat \ {0}
    /\ wsPending \subseteq 1 .. wsNextId - 1
    /\ wsJobs \subseteq Jobs

LEMMA SearchTypes ==
  WorkspaceSearchTypeOK <=> /\ ClientTyped
                            /\ wsReader \in [Readers -> ReaderStates]
                            /\ wsSearch \in [Searches -> SearchStates]
BY DEF WorkspaceSearchTypeOK, ClientTyped, ReaderStates, SearchStates

LEMMA InvHolds ==
  ASSUME ClientTyped', JobsConsistent', FindersConsistent',
         wsReader' \in [Readers -> ReaderStates], wsSearch' \in [Searches -> SearchStates],
         \A x \in Searches : SearchWaits(x)',
         \A r \in Readers : ReaderWaits(r)' /\ IndexOwned(r)'
  PROVE  SearchInv'
BY DEF SearchInv, WorkspaceSearchTypeOK, ClientTyped, ReaderStates, SearchStates

\* A request gets an id that no other one has.
LEMMA SendKeeps ==
  ASSUME SearchInv, NEW op \in {"open", "grep", "close"}, NEW r \in Readers,
         NEW x \in Searches \cup {NoSearch}, sendRequest(op, r, x)
  PROVE  ClientTyped' /\ JobsConsistent' /\ FindersConsistent' /\ SentOff(op, r, x)
<1> DEFINE job == [id |-> RequestId, host |-> HostAsked, op |-> op, reader |-> r,
                   search |-> x, at |-> "sent"]
<1>1. ClientTyped /\ JobsConsistent /\ FindersConsistent
  BY SearchTypes DEF SearchInv
<1>2. /\ wsHost' = HostAsked /\ wsNextId' = wsNextId + 1
      /\ wsPending' = wsPending \cup {wsNextId} /\ wsJobs' = wsJobs \cup {job}
      /\ wsBackoff' = wsBackoff /\ wsFinders' = wsFinders
      /\ wsSpawned' = IF wsHost = 0 THEN wsSpawned + 1 ELSE wsSpawned
  BY DEF sendRequest, RequestId
<1>3. HostAsked \in Nat \ {0} /\ (wsHost # 0 => HostAsked = wsHost)
  BY <1>1 DEF HostAsked, ClientTyped
<1>4. job \in Jobs /\ job.id = wsNextId /\ job.host = HostAsked /\ job.op = op
      /\ job.reader = r /\ job.search = x /\ job.at = "sent"
  BY <1>1, <1>3 DEF Jobs, RequestId, ClientTyped
<1> HIDE DEF job
<1>5. ClientTyped'
  BY <1>1, <1>2, <1>3, <1>4 DEF ClientTyped
<1>6. \A j \in wsJobs : j.id # wsNextId /\ j.id \in 1 .. wsNextId
  BY <1>1 DEF JobsConsistent, ClientTyped
<1>7. JobsConsistent'
  <2>1. ASSUME NEW j \in wsJobs', NEW k \in wsJobs', j.id = k.id
        PROVE  j = k
    BY <1>1, <1>2, <1>4, <1>6, <2>1 DEF JobsConsistent
  <2>2. ASSUME NEW j \in wsJobs'
        PROVE  /\ j.id \in 1 .. wsNextId' - 1
               /\ j.at \in {"sent", "scanning"} =>
                    j.host = wsHost' /\ wsHost' # 0 /\ j.id \in wsPending'
               /\ j.at \in {"scanning", "ready"} => j.op = "open"
    <3>1. CASE j = job
      BY <1>1, <1>2, <1>3, <1>4, <3>1 DEF ClientTyped
    <3>2. CASE j \in wsJobs
      BY <1>1, <1>2, <1>3, <1>6, <3>2 DEF ClientTyped, JobsConsistent
    <3> QED
      BY <1>2, <3>1, <3>2
  <2>3. \A p \in wsPending' : \E j \in wsJobs' : j.id = p
    BY <1>1, <1>2, <1>4 DEF JobsConsistent
  <2> QED
    BY <2>1, <2>2, <2>3 DEF JobsConsistent
<1>8. FindersConsistent'
  BY <1>1, <1>2, <1>3 DEF FindersConsistent
<1> QED
  BY <1>2, <1>4, <1>5, <1>7, <1>8 DEF SentOff

\* What a request leaves alone.
LEMMA SendFrame ==
  ASSUME SearchInv, NEW op, NEW r, NEW y, SentOff(op, r, y)
  PROVE  /\ \A x \in Searches : wsSearch'[x] = wsSearch[x] => SearchWaits(x)'
         /\ \A q \in Readers : wsReader'[q] = wsReader[q] => ReaderWaits(q)' /\ IndexOwned(q)'
         /\ \A q \in Readers :
              /\ wsReader'[q].opened = wsReader[q].opened
              /\ wsReader'[q].disposed = wsReader[q].disposed
              => IndexOwned(q)'
<1>1. \A p \in wsPending : p # wsNextId /\ p # 0
  BY DEF SearchInv, WorkspaceSearchTypeOK
<1>2. ASSUME NEW x \in Searches, wsSearch'[x] = wsSearch[x]
      PROVE  SearchWaits(x)'
  <2>1. SearchWaits(x) /\ wsSearch[x].awaits # wsNextId
    BY <1>1 DEF SearchInv, SearchWaits, WorkspaceSearchTypeOK
  <2> QED
    BY <1>2, <2>1 DEF SearchWaits, SentOff
<1>3. ASSUME NEW q \in Readers, wsReader'[q] = wsReader[q]
      PROVE  ReaderWaits(q)'
  <2>1. ReaderWaits(q)
    BY DEF SearchInv
  <2> QED
    BY <1>3, <2>1 DEF ReaderWaits, SentOff
<1>4. ASSUME NEW q \in Readers, wsReader'[q].opened = wsReader[q].opened,
             wsReader'[q].disposed = wsReader[q].disposed
      PROVE  IndexOwned(q)'
  <2>1. IndexOwned(q) /\ (HasIndex(q)' => HasIndex(q))
    BY DEF SearchInv, SentOff, HasIndex
  <2> QED
    BY <1>4, <2>1 DEF IndexOwned, SentOff, Owes
<1> QED
  BY <1>2, <1>3, <1>4

\* The books of the client and the host as they were.
LEMMA ClientRests ==
  ASSUME SearchInv, UNCHANGED clientVars
  PROVE  /\ ClientTyped' /\ JobsConsistent' /\ FindersConsistent'
         /\ \A x \in Searches : wsSearch'[x] = wsSearch[x] => SearchWaits(x)'
         /\ \A q \in Readers : wsReader'[q] = wsReader[q] => ReaderWaits(q)'
         /\ \A q \in Readers :
              /\ wsReader'[q].opened = wsReader[q].opened
              /\ wsReader'[q].disposed = wsReader[q].disposed
              => IndexOwned(q)'
BY SearchTypes DEF SearchInv, clientVars, ClientTyped, JobsConsistent, FindersConsistent,
     SearchWaits, ReaderWaits, IndexOwned, HasIndex, Owes

LEMMA GitState ==
  ASSUME NEW s \in SearchStates, NEW t,
         t = [s EXCEPT !.pc = "done", !.awaits = 0, !.answeredBy = "git"]
  PROVE  t \in SearchStates /\ t.pc = "done" /\ t.awaits = 0 /\ t.answeredBy = "git"
BY DEF SearchStates

LEMMA GrantedState ==
  ASSUME NEW s \in SearchStates, NEW t, t = [s EXCEPT !.pc = "granted", !.awaits = 0]
  PROVE  t \in SearchStates /\ t.pc = "granted" /\ t.awaits = 0
BY DEF SearchStates

AnsweredBy(s, a) == [s EXCEPT !.pc = "done", !.awaits = 0, !.answeredBy = a]

LEMMA DoneState ==
  ASSUME NEW s \in SearchStates, NEW a \in Searches \cup {NoSearch}
  PROVE  /\ AnsweredBy(s, a) \in SearchStates /\ AnsweredBy(s, a).pc = "done"
         /\ AnsweredBy(s, a).awaits = 0 /\ AnsweredBy(s, a).answeredBy = a
BY DEF SearchStates, AnsweredBy

\* A reader that forgets its index remembers whether it had one.
LEMMA ForgottenIndex ==
  ASSUME NEW q \in ReaderStates, NEW p, p = [q EXCEPT !.index = 0, !.known = "pending"]
  PROVE  p \in ReaderStates /\ p.index = 0 /\ p.opened = q.opened /\ p.disposed = q.disposed
BY DEF ReaderStates

\* A search that git answers waits for nothing.
LEMMA GitAnswers ==
  ASSUME SearchInv, NEW x \in Searches, wsSearch'[x] = AnsweredByGit(x)
  PROVE  /\ wsSearch'[x] \in SearchStates
         /\ (\A j \in wsJobs' : j.id # 0) => SearchWaits(x)'
<1>1. wsSearch[x] \in SearchStates
  BY SearchTypes DEF SearchInv
<1> PICK s \in SearchStates : s = wsSearch[x]
  BY <1>1
<1> PICK t : t = wsSearch'[x]
  OBVIOUS
<1>2. wsSearch'[x] \in SearchStates /\ wsSearch'[x].pc = "done" /\ wsSearch'[x].awaits = 0
      /\ wsSearch'[x].answeredBy = "git"
  <2>1. t = [s EXCEPT !.pc = "done", !.awaits = 0, !.answeredBy = "git"]
    BY DEF AnsweredByGit
  <2>2. t \in SearchStates /\ t.pc = "done" /\ t.awaits = 0 /\ t.answeredBy = "git"
    BY <2>1, GitState
  <2> QED
    BY <2>2
<1>3. ASSUME \A j \in wsJobs' : j.id # 0
      PROVE  SearchWaits(x)'
  BY <1>2, <1>3 DEF SearchWaits
<1> QED
  BY <1>2, <1>3

LEMMA IdsPositive ==
  ASSUME JobsConsistent, ClientTyped
  PROVE  \A j \in wsJobs : j.id # 0
BY DEF JobsConsistent, ClientTyped

\* searchCheckout and grep: the search waits for the request it made or shares, or git answers.
LEMMA SearchesKeep ==
  ASSUME SearchInv, NEW x \in Searches, searchCheckout(x) \/ grepFffIndex(x)
  PROVE  SearchInv'
<1> DEFINE r == ReaderOf[x]
<1>0. r \in Readers
  BY WorkspaceSearchAssumption
<1>1. /\ wsReader \in [Readers -> ReaderStates] /\ wsSearch \in [Searches -> SearchStates]
      /\ wsNextId \in Nat \ {0} /\ ClientTyped /\ JobsConsistent
  BY SearchTypes DEF SearchInv, ClientTyped
<1> HIDE DEF r
<1>2. ASSUME NEW op \in {"open", "grep"}, NEW pc \in {"opening", "grepping"},
             op = "open" <=> pc = "opening", sendRequest(op, r, x),
             wsSearch' = [wsSearch EXCEPT ![x].pc = pc, ![x].awaits = RequestId],
             \/ wsReader' = wsReader
             \/ /\ op = "open"
                /\ wsReader' = [wsReader EXCEPT ![r].index = RequestId, ![r].known = "pending"]
      PROVE  SearchInv'
  <2>1. ClientTyped' /\ JobsConsistent' /\ FindersConsistent' /\ SentOff(op, r, x)
    BY <1>0, <1>2, SendKeeps
  <2>2. /\ wsSearch' \in [Searches -> SearchStates]
        /\ wsSearch'[x].pc = pc /\ wsSearch'[x].awaits = wsNextId
        /\ \A y \in Searches \ {x} : wsSearch'[y] = wsSearch[y]
    BY <1>1, <1>2 DEF SearchStates, RequestId
  <2>3. SearchWaits(x)'
    <3>1. \A j \in wsJobs' : j.id = wsNextId => j.op = op /\ j.search = x
      BY <1>1, <2>1 DEF SentOff, JobsConsistent, ClientTyped
    <3> QED
      BY <1>2, <2>1, <2>2, <3>1 DEF SearchWaits, SentOff
  <2>4. \A y \in Searches : SearchWaits(y)'
    BY <2>1, <2>2, <2>3, SendFrame
  <2>5. /\ wsReader' \in [Readers -> ReaderStates]
        /\ \A q \in Readers : /\ wsReader'[q].opened = wsReader[q].opened
                              /\ wsReader'[q].disposed = wsReader[q].disposed
        /\ \A q \in Readers \ {r} : wsReader'[q] = wsReader[q]
        /\ \/ wsReader'[r] = wsReader[r]
           \/ op = "open" /\ wsReader'[r].index = wsNextId
    BY <1>0, <1>1, <1>2 DEF ReaderStates, RequestId
  <2>6. \A q \in Readers : IndexOwned(q)'
    BY <2>1, <2>5, SendFrame
  <2>7. ReaderWaits(r)'
    <3>1. CASE wsReader'[r] = wsReader[r]
      BY <1>0, <2>1, <3>1, SendFrame
    <3>2. CASE op = "open" /\ wsReader'[r].index = wsNextId
      BY <2>1, <3>2 DEF ReaderWaits, SentOff
    <3> QED
      BY <2>5, <3>1, <3>2
  <2>8. \A q \in Readers : ReaderWaits(q)'
    BY <2>1, <2>5, <2>7, SendFrame
  <2> QED
    BY <2>1, <2>2, <2>4, <2>5, <2>6, <2>8, InvHolds
<1>3. ASSUME wsSearch' = [wsSearch EXCEPT ![x] = AnsweredByGit(x)], UNCHANGED clientVars,
             \/ wsReader' = wsReader
             \/ wsReader' = [wsReader EXCEPT ![r].index = 0, ![r].known = "pending"]
      PROVE  SearchInv'
  <2>1. ClientTyped' /\ JobsConsistent' /\ FindersConsistent'
    BY <1>3, ClientRests
  <2>2. wsSearch'[x] = AnsweredByGit(x) /\ \A y \in Searches \ {x} : wsSearch'[y] = wsSearch[y]
    BY <1>1, <1>3
  <2>3. SearchWaits(x)' /\ wsSearch'[x] \in SearchStates
    <3>1. \A j \in wsJobs' : j.id # 0
      BY <1>1, <1>3, IdsPositive DEF clientVars
    <3> QED
      BY <2>2, <3>1, GitAnswers
  <2>4. \A y \in Searches : SearchWaits(y)'
    BY <1>3, <2>2, <2>3, ClientRests
  <2>5. wsSearch' \in [Searches -> SearchStates]
    BY <1>1, <1>3, <2>2, <2>3
  <2>6. /\ wsReader' \in [Readers -> ReaderStates]
        /\ \A q \in Readers : /\ wsReader'[q].opened = wsReader[q].opened
                              /\ wsReader'[q].disposed = wsReader[q].disposed
                              /\ wsReader'[q] = wsReader[q] \/ wsReader'[q].index = 0
    BY <1>0, <1>1, <1>3 DEF ReaderStates
  <2>7. \A q \in Readers : IndexOwned(q)'
    BY <1>3, <2>6, ClientRests
  <2>8. ASSUME NEW q \in Readers
        PROVE  ReaderWaits(q)'
    <3>1. CASE wsReader'[q] = wsReader[q]
      BY <1>3, <3>1, ClientRests
    <3>2. CASE wsReader'[q].index = 0
      BY <3>2 DEF ReaderWaits
    <3> QED
      BY <2>6, <3>1, <3>2
  <2> QED
    BY <2>1, <2>4, <2>5, <2>6, <2>7, <2>8, InvHolds
<1>4. ASSUME NEW pc \in {"opening", "granted"}, NEW awaited \in Nat,
             wsSearch[x].pc = "idle",
             wsSearch' = [wsSearch EXCEPT ![x].pc = pc, ![x].awaits = awaited],
             UNCHANGED <<clientVars, wsReader>>,
             IF pc = "opening"
             THEN \E j \in wsJobs : j.id = awaited /\ j.id \in wsPending /\ j.op = "open"
             ELSE awaited = 0
      PROVE  SearchInv'
  <2>1. UNCHANGED clientVars /\ wsReader' = wsReader
    BY <1>4
  <2>2. ClientTyped' /\ JobsConsistent' /\ FindersConsistent'
        /\ \A q \in Readers : ReaderWaits(q)' /\ IndexOwned(q)'
    BY <2>1, ClientRests
  <2>3. /\ wsSearch' \in [Searches -> SearchStates]
        /\ wsSearch'[x].pc = pc /\ wsSearch'[x].awaits = awaited
        /\ \A y \in Searches \ {x} : wsSearch'[y] = wsSearch[y]
    BY <1>1, <1>4 DEF SearchStates
  <2>4. SearchWaits(x)'
    BY <1>1, <1>4, <2>1, <2>3, IdsPositive DEF SearchWaits, clientVars, JobsConsistent
  <2>5. \A y \in Searches : SearchWaits(y)'
    BY <2>1, <2>3, <2>4, ClientRests
  <2> QED
    BY <1>1, <2>1, <2>2, <2>3, <2>5, InvHolds
<1>5. CASE grepFffIndex(x)
  <2>1. CASE Accepts
    BY <1>2, <1>5, <2>1 DEF grepFffIndex, r
  <2>2. CASE ~Accepts
    BY <1>3, <1>5, <2>2 DEF grepFffIndex, r
  <2> QED
    BY <2>1, <2>2
<1>6. CASE searchCheckout(x)
  <2>1. CASE wsReader[r].index = 0
    <3>1. CASE Accepts
      BY <1>2, <1>6, <2>1, <3>1 DEF searchCheckout, r
    <3>2. CASE ~Accepts
      BY <1>3, <1>6, <2>1, <3>2 DEF searchCheckout, r
    <3> QED
      BY <3>1, <3>2
  <2>2. CASE wsReader[r].index # 0 /\ wsReader[r].known = "pending"
    <3>1. \E j \in wsJobs : j.id = wsReader[r].index /\ j.id \in wsPending /\ j.op = "open"
      BY <1>0, <2>2 DEF SearchInv, ReaderWaits
    <3>2. wsReader[r].index \in Nat
      BY <1>0, <1>1 DEF ReaderStates
    <3> QED
      BY <1>4, <1>6, <2>2, <3>1, <3>2 DEF searchCheckout, r
  <2>3. CASE wsReader[r].index # 0 /\ wsReader[r].known = "none"
    BY <1>3, <1>6, <2>3 DEF searchCheckout, r
  <2>4. CASE wsReader[r].index # 0 /\ wsReader[r].known = "ready"
    <3>1. wsSearch[x].awaits = 0 /\ wsSearch[x].pc = "idle" /\ wsSearch[x] \in SearchStates
      BY <1>1, <1>6 DEF SearchInv, SearchWaits, searchCheckout
    <3>2. wsSearch' = [wsSearch EXCEPT ![x].pc = "granted"] /\ UNCHANGED <<clientVars, wsReader>>
      BY <1>6, <2>4 DEF searchCheckout, r
    <3>3. wsSearch' = [wsSearch EXCEPT ![x].pc = "granted", ![x].awaits = 0]
      BY <1>1, <3>1, <3>2 DEF SearchStates
    <3> DEFINE pc == "granted"
    <3>4. pc \in {"opening", "granted"} /\ pc # "opening" /\ 0 \in Nat
      OBVIOUS
    <3>5. wsSearch' = [wsSearch EXCEPT ![x].pc = pc, ![x].awaits = 0]
      BY <3>3
    <3> HIDE DEF pc
    <3> QED
      BY <1>4, <3>1, <3>2, <3>4, <3>5
  <2> QED
    BY <1>0, <1>1, <2>1, <2>2, <2>3, <2>4 DEF ReaderStates
<1> QED
  BY <1>5, <1>6

\* A disposal that finds an index known closes it; one that does not leaves it to the reply.
LEMMA DisposalKeeps ==
  ASSUME SearchInv, NEW r \in Readers, disposeReader(r)
  PROVE  SearchInv'
<1>1. wsReader \in [Readers -> ReaderStates] /\ wsSearch \in [Searches -> SearchStates]
  BY SearchTypes DEF SearchInv
<1>2. /\ ~wsReader[r].disposed /\ wsReader' = [wsReader EXCEPT ![r].disposed = TRUE]
      /\ wsSearch' = wsSearch
  BY DEF disposeReader
<1>3. /\ wsReader' \in [Readers -> ReaderStates]
      /\ \A q \in Readers : /\ wsReader'[q].index = wsReader[q].index
                            /\ wsReader'[q].known = wsReader[q].known
                            /\ wsReader'[q].opened = wsReader[q].opened
      /\ \A q \in Readers \ {r} : wsReader'[q] = wsReader[q]
      /\ wsReader'[r].disposed
  BY <1>1, <1>2 DEF ReaderStates
<1>4. CASE wsReader[r].opened /\ wsHost # 0
  <2>1. sendRequest("close", r, NoSearch)
    BY <1>4 DEF disposeReader
  <2>2. ClientTyped' /\ JobsConsistent' /\ FindersConsistent' /\ SentOff("close", r, NoSearch)
    BY <2>1, SendKeeps
  <2>3. /\ \A x \in Searches : SearchWaits(x)'
        /\ \A q \in Readers \ {r} : ReaderWaits(q)' /\ IndexOwned(q)'
    BY <1>2, <1>3, <2>2, SendFrame
  <2>4. ReaderWaits(r)'
    BY <1>3, <2>2 DEF SearchInv, ReaderWaits, SentOff
  <2>5. IndexOwned(r)'
    BY <2>2 DEF IndexOwned, Owes, SentOff
  <2> QED
    BY <1>1, <1>2, <1>3, <2>2, <2>3, <2>4, <2>5, InvHolds
<1>5. CASE ~(wsReader[r].opened /\ wsHost # 0)
  <2>1. UNCHANGED clientVars
    BY <1>5 DEF disposeReader
  <2>2. /\ ClientTyped' /\ JobsConsistent' /\ FindersConsistent'
        /\ \A x \in Searches : SearchWaits(x)'
        /\ \A q \in Readers \ {r} : ReaderWaits(q)' /\ IndexOwned(q)'
    BY <1>2, <1>3, <2>1, ClientRests
  <2>3. ReaderWaits(r)'
    BY <1>3, <2>1 DEF SearchInv, ReaderWaits, clientVars
  <2>4. IndexOwned(r)'
    <3>1. IndexOwned(r) /\ FindersConsistent /\ HasIndex(r)' = HasIndex(r)
      BY <2>1 DEF SearchInv, HasIndex, clientVars
    <3>2. HasIndex(r) => wsHost # 0
      BY <3>1 DEF FindersConsistent, HasIndex
    <3>3. HasIndex(r) => \E j \in wsJobs : Owes(j, r)
      BY <1>5, <3>1, <3>2 DEF IndexOwned
    <3> QED
      BY <2>1, <3>1, <3>3 DEF IndexOwned, Owes, clientVars
  <2> QED
    BY <1>1, <1>2, <1>3, <2>2, <2>3, <2>4, InvHolds
<1> QED
  BY <1>4, <1>5

-----------------------------------------------------------------------------
\* A reply leaves the books, with its id.
LEMMA ReplyLeaves ==
  ASSUME SearchInv, NEW j \in wsJobs, wsJobs' = wsJobs \ {j},
         wsPending' = wsPending \ {j.id},
         UNCHANGED <<wsHost, wsSpawned, wsBackoff, wsFinders, wsNextId>>
  PROVE  /\ ClientTyped' /\ JobsConsistent' /\ FindersConsistent'
         /\ \A x \in Searches : wsSearch'[x] = wsSearch[x] /\ wsSearch[x].awaits # j.id =>
              SearchWaits(x)'
         /\ \A r \in Readers : /\ wsReader'[r].index = wsReader[r].index
                               /\ wsReader'[r].known = wsReader[r].known
                               /\ wsReader[r].index # j.id
                               => ReaderWaits(r)'
         /\ \A r \in Readers : /\ wsReader[r].opened => wsReader'[r].opened
                               /\ wsReader'[r].disposed = wsReader[r].disposed
                               /\ ~Owes(j, r)
                               => IndexOwned(r)'
<1>1. ClientTyped /\ JobsConsistent /\ FindersConsistent
  BY SearchTypes DEF SearchInv
<1>2. ClientTyped' /\ FindersConsistent'
  BY <1>1 DEF ClientTyped, FindersConsistent
<1>3. \A k \in wsJobs' : k \in wsJobs /\ k.id # j.id
  BY <1>1 DEF JobsConsistent
<1>4. JobsConsistent'
  BY <1>1, <1>3 DEF JobsConsistent
<1>5. ASSUME NEW x \in Searches, wsSearch'[x] = wsSearch[x], wsSearch[x].awaits # j.id
      PROVE  SearchWaits(x)'
  BY <1>3, <1>5 DEF SearchInv, SearchWaits
<1>6. ASSUME NEW r \in Readers, wsReader'[r].index = wsReader[r].index,
             wsReader'[r].known = wsReader[r].known, wsReader[r].index # j.id
      PROVE  ReaderWaits(r)'
  <2>1. ReaderWaits(r)
    BY DEF SearchInv
  <2>2. \A k \in wsJobs : k.id # j.id /\ k.id \in wsPending => k \in wsJobs' /\ k.id \in wsPending'
    OBVIOUS
  <2> QED
    BY <1>6, <2>1, <2>2 DEF ReaderWaits
<1>7. ASSUME NEW r \in Readers, wsReader[r].opened => wsReader'[r].opened,
             wsReader'[r].disposed = wsReader[r].disposed, ~Owes(j, r)
      PROVE  IndexOwned(r)'
  <2>1. IndexOwned(r) /\ HasIndex(r)' = HasIndex(r)
    BY DEF SearchInv, HasIndex
  <2>2. \A k \in wsJobs : Owes(k, r) => k \in wsJobs' /\ k.id # j.id
    BY <1>1, <1>7 DEF JobsConsistent
  <2>3. \A k \in wsJobs : Owes(k, r) => k \in wsJobs' /\ Owes(k, r)'
    BY <2>2 DEF Owes
  <2> QED
    BY <1>7, <2>1, <2>3 DEF IndexOwned
<1> QED
  BY <1>2, <1>4, <1>5, <1>6, <1>7

\* A request that fails: its reader forgets the index, and git answers who waited.
LEMMA FailureAnswered ==
  ASSUME SearchInv, NEW j \in wsJobs, j.id \in wsPending, j.at # "sent", Answered(j),
         \/ /\ wsReader' = FailedReaders({j.id}) /\ j.op # "close"
            /\ j.at # "ready"
         \/ /\ j.at = "too_large"
            /\ wsReader' = [wsReader EXCEPT
                  ![j.reader].known = IF wsReader[j.reader].index = j.id THEN "none" ELSE @],
         wsSearch' = FailedSearches({j.id})
  PROVE  SearchInv'
<1>1. /\ wsReader \in [Readers -> ReaderStates] /\ wsSearch \in [Searches -> SearchStates]
      /\ ClientTyped /\ JobsConsistent
  BY SearchTypes DEF SearchInv
<1>2. j.reader \in Readers /\ j.id # 0 /\ \A k \in wsJobs : k.id # 0
  BY <1>1, IdsPositive DEF ClientTyped, Jobs
<1>3. /\ wsJobs' = wsJobs \ {j} /\ wsPending' = wsPending \ {j.id}
      /\ UNCHANGED <<wsHost, wsSpawned, wsBackoff, wsFinders, wsNextId>>
  BY DEF Answered
<1>4. \A x \in Searches : wsSearch'[x] = IF wsSearch[x].awaits = j.id
                                         THEN AnsweredByGit(x) ELSE wsSearch[x]
  BY DEF FailedSearches
<1>5. ASSUME NEW x \in Searches
      PROVE  SearchWaits(x)' /\ wsSearch'[x] \in SearchStates
  <2>1. CASE wsSearch[x].awaits = j.id
    <3>1. \A k \in wsJobs' : k.id # 0
      BY <1>2, <1>3
    <3>2. wsSearch'[x] = AnsweredByGit(x)
      BY <1>4, <2>1
    <3> QED
      BY <3>1, <3>2, GitAnswers
  <2>2. CASE wsSearch[x].awaits # j.id
    BY <1>1, <1>3, <1>4, <2>2, ReplyLeaves
  <2> QED
    BY <2>1, <2>2
<1>6. wsSearch' \in [Searches -> SearchStates]
  BY <1>5 DEF FailedSearches
<1>7. /\ wsReader' \in [Readers -> ReaderStates]
      /\ \A r \in Readers : /\ wsReader'[r].opened = wsReader[r].opened
                            /\ wsReader'[r].disposed = wsReader[r].disposed
                            /\ \/ wsReader'[r].index = 0
                               \/ /\ wsReader'[r].index = wsReader[r].index
                                  /\ wsReader'[r].known = wsReader[r].known
                                  /\ r = j.reader => j.op = "close" \/ wsReader[r].index # j.id
                               \/ wsReader'[r].known = "none"
  <2>1. CASE wsReader' = FailedReaders({j.id}) /\ j.op # "close"
    <3>1. \A r \in Readers : wsReader'[r] =
            IF r = j.reader THEN [wsReader[r] EXCEPT !.index = 0, !.known = "pending"]
            ELSE wsReader[r]
      BY <1>1, <2>1 DEF FailedReaders, JobsConsistent
    <3>2. wsReader' = [r \in Readers |->
            IF r = j.reader THEN [wsReader[r] EXCEPT !.index = 0, !.known = "pending"]
            ELSE wsReader[r]]
      BY <2>1, <3>1 DEF FailedReaders
    <3>3. \A r \in Readers : wsReader[r] \in ReaderStates
      BY <1>1
    <3>5. ASSUME NEW r \in Readers
          PROVE  /\ wsReader'[r] \in ReaderStates /\ wsReader'[r].opened = wsReader[r].opened
                 /\ wsReader'[r].disposed = wsReader[r].disposed
                 /\ r = j.reader => wsReader'[r].index = 0
                 /\ r # j.reader => wsReader'[r] = wsReader[r]
      <4>1. CASE r # j.reader
        <5>1. wsReader'[r] = wsReader[r]
          BY <3>1, <4>1
        <5> QED
          BY <3>3, <4>1, <5>1
      <4>2. CASE r = j.reader
        <5>1. wsReader'[r] = [wsReader[r] EXCEPT !.index = 0, !.known = "pending"]
          BY <3>1, <4>2
        <5>2. wsReader[r] \in ReaderStates
          BY <3>3
        <5>3. /\ wsReader'[r] \in ReaderStates /\ wsReader'[r].index = 0
              /\ wsReader'[r].opened = wsReader[r].opened
              /\ wsReader'[r].disposed = wsReader[r].disposed
          BY <5>1, <5>2, ForgottenIndex
        <5> QED
          BY <4>2, <5>3
      <4> QED
        BY <4>1, <4>2
    <3>6. wsReader' \in [Readers -> ReaderStates]
      BY <3>2, <3>5
    <3> QED
      BY <3>5, <3>6
  <2>2. CASE /\ j.at = "too_large"
             /\ wsReader' = [wsReader EXCEPT
                  ![j.reader].known = IF wsReader[j.reader].index = j.id THEN "none" ELSE @]
    BY <1>1, <1>2, <2>2 DEF ReaderStates
  <2> QED
    BY <2>1, <2>2
<1>8. ASSUME NEW r \in Readers
      PROVE  IndexOwned(r)'
  <2>1. ~Owes(j, r)
    BY DEF Owes
  <2> QED
    BY <1>3, <1>7, <2>1, ReplyLeaves
<1>9. ASSUME NEW r \in Readers
      PROVE  ReaderWaits(r)'
  <2>1. CASE wsReader'[r].index = 0 \/ wsReader'[r].known = "none"
    BY <2>1 DEF ReaderWaits
  <2>2. CASE /\ wsReader'[r].index = wsReader[r].index
             /\ wsReader'[r].known = wsReader[r].known
             /\ r = j.reader => j.op = "close" \/ wsReader[r].index # j.id
    <3>1. CASE wsReader[r].index # j.id
      BY <1>3, <2>2, <3>1, ReplyLeaves
    <3>2. CASE wsReader[r].index = j.id
      <4>1. ~(wsReader[r].index # 0 /\ wsReader[r].known = "pending")
        BY <1>1, <2>2, <3>2 DEF SearchInv, ReaderWaits, JobsConsistent
      <4> QED
        BY <2>2, <4>1 DEF ReaderWaits
    <3> QED
      BY <3>1, <3>2
  <2> QED
    BY <1>7, <2>1, <2>2
<1>10. ClientTyped' /\ JobsConsistent' /\ FindersConsistent'
  BY <1>3, ReplyLeaves
<1> QED
  BY <1>5, <1>6, <1>7, <1>8, <1>9, <1>10, InvHolds

\* The reply to an open whose reader was disposed meanwhile: a close takes its place.
CloseFollows(j) ==
    /\ wsPending' = (wsPending \ {j.id}) \cup {RequestId}
    /\ wsJobs' = (wsJobs \ {j}) \cup
          {[id |-> RequestId, host |-> wsHost, op |-> "close", reader |-> j.reader,
            search |-> NoSearch, at |-> "sent"]}
    /\ wsNextId' = RequestId + 1
    /\ wsHost # 0
    /\ UNCHANGED <<wsHost, wsSpawned, wsBackoff, wsFinders>>

LEMMA CloseInPlace ==
  ASSUME SearchInv, NEW j \in wsJobs, CloseFollows(j)
  PROVE  /\ ClientTyped' /\ JobsConsistent' /\ FindersConsistent'
         /\ \A x \in Searches : wsSearch'[x] = wsSearch[x] /\ wsSearch[x].awaits # j.id =>
              SearchWaits(x)'
         /\ \A r \in Readers : /\ wsReader'[r].index = wsReader[r].index
                               /\ wsReader'[r].known = wsReader[r].known
                               /\ wsReader[r].index # j.id
                               => ReaderWaits(r)'
         /\ \A r \in Readers : /\ wsReader[r].opened => wsReader'[r].opened
                               /\ wsReader'[r].disposed = wsReader[r].disposed
                               /\ r # j.reader
                               => IndexOwned(r)'
         /\ IndexOwned(j.reader)'
<1> DEFINE job == [id |-> RequestId, host |-> wsHost, op |-> "close", reader |-> j.reader,
                   search |-> NoSearch, at |-> "sent"]
<1>1. ClientTyped /\ JobsConsistent /\ FindersConsistent
  BY SearchTypes DEF SearchInv
<1>2. /\ wsHost' = wsHost /\ wsNextId' = wsNextId + 1 /\ wsHost # 0
      /\ wsPending' = (wsPending \ {j.id}) \cup {wsNextId} /\ wsJobs' = (wsJobs \ {j}) \cup {job}
      /\ wsBackoff' = wsBackoff /\ wsFinders' = wsFinders /\ wsSpawned' = wsSpawned
  BY DEF CloseFollows, RequestId
<1>3. job \in Jobs /\ job.id = wsNextId /\ job.host = wsHost /\ job.op = "close"
      /\ job.reader = j.reader /\ job.at = "sent"
  BY <1>1 DEF Jobs, RequestId, ClientTyped
<1> HIDE DEF job
<1>4. ClientTyped' /\ FindersConsistent'
  <2>1. wsNextId' \in Nat \ {0} /\ wsPending' \subseteq 1 .. wsNextId' - 1
    <3>1. wsNextId \in Nat \ {0} /\ wsPending \subseteq 1 .. wsNextId - 1
      BY <1>1 DEF ClientTyped
    <3>2. wsPending' \subseteq wsPending \cup {wsNextId} /\ wsNextId' = wsNextId + 1
      BY <1>2
    <3> QED
      BY <3>1, <3>2
  <2>2. wsJobs' \subseteq Jobs
    BY <1>1, <1>2, <1>3 DEF ClientTyped
  <2>3. FindersConsistent'
    BY <1>1, <1>2 DEF FindersConsistent
  <2> QED
    BY <1>1, <1>2, <2>1, <2>2, <2>3 DEF ClientTyped
<1>5. \A k \in wsJobs : k.id # wsNextId /\ k.id \in 1 .. wsNextId
  BY <1>1 DEF JobsConsistent, ClientTyped
<1>6. \A k \in wsJobs' : k = job \/ (k \in wsJobs /\ k.id # j.id)
  BY <1>1, <1>2 DEF JobsConsistent
<1>7. JobsConsistent'
  <2>1. ASSUME NEW k \in wsJobs', NEW l \in wsJobs', k.id = l.id
        PROVE  k = l
    BY <1>1, <1>3, <1>5, <1>6, <2>1 DEF JobsConsistent
  <2>2. ASSUME NEW k \in wsJobs'
        PROVE  /\ k.id \in 1 .. wsNextId' - 1
               /\ k.at \in {"sent", "scanning"} =>
                    k.host = wsHost' /\ wsHost' # 0 /\ k.id \in wsPending'
               /\ k.at \in {"scanning", "ready"} => k.op = "open"
    <3>1. CASE k = job
      BY <1>1, <1>2, <1>3, <3>1 DEF ClientTyped
    <3>2. CASE k \in wsJobs /\ k.id # j.id
      BY <1>1, <1>2, <1>5, <3>2 DEF ClientTyped, JobsConsistent
    <3> QED
      BY <1>6, <3>1, <3>2
  <2>3. \A p \in wsPending' : \E k \in wsJobs' : k.id = p
    BY <1>1, <1>2, <1>3 DEF JobsConsistent
  <2> QED
    BY <2>1, <2>2, <2>3 DEF JobsConsistent
<1>8. ASSUME NEW x \in Searches, wsSearch'[x] = wsSearch[x], wsSearch[x].awaits # j.id
      PROVE  SearchWaits(x)'
  <2>1. SearchWaits(x) /\ wsSearch[x].awaits # wsNextId
    BY DEF SearchInv, SearchWaits, WorkspaceSearchTypeOK
  <2> QED
    BY <1>2, <1>3, <1>6, <1>8, <2>1 DEF SearchWaits
<1>9. ASSUME NEW r \in Readers, wsReader'[r].index = wsReader[r].index,
             wsReader'[r].known = wsReader[r].known, wsReader[r].index # j.id
      PROVE  ReaderWaits(r)'
  <2>1. ReaderWaits(r)
    BY DEF SearchInv
  <2>2. \A k \in wsJobs : k.id # j.id /\ k.id \in wsPending => k \in wsJobs' /\ k.id \in wsPending'
    BY <1>2
  <2> QED
    BY <1>9, <2>1, <2>2 DEF ReaderWaits
<1>10. ASSUME NEW r \in Readers, wsReader[r].opened => wsReader'[r].opened,
              wsReader'[r].disposed = wsReader[r].disposed, r # j.reader
       PROVE  IndexOwned(r)'
  <2>1. IndexOwned(r) /\ HasIndex(r)' = HasIndex(r)
    BY <1>2 DEF SearchInv, HasIndex
  <2>2. \A k \in wsJobs : Owes(k, r) => k \in wsJobs' /\ k.id # j.id
    BY <1>1, <1>2, <1>10 DEF JobsConsistent, Owes
  <2>3. \A k \in wsJobs : Owes(k, r) => k \in wsJobs' /\ Owes(k, r)'
    BY <1>2, <2>2 DEF Owes
  <2> QED
    BY <1>10, <2>1, <2>3 DEF IndexOwned
<1>11. IndexOwned(j.reader)'
  BY <1>2, <1>3 DEF IndexOwned, Owes
<1> QED
  BY <1>4, <1>7, <1>8, <1>9, <1>10, <1>11

\* An index that arrives: its reader knows it and who waited goes on, or it is closed again.
LEMMA ArrivalKeeps ==
  ASSUME SearchInv, NEW j \in wsJobs, j.op = "open", j.id \in wsPending, j.at = "ready",
         openIndex(j)
  PROVE  SearchInv'
<1> DEFINE r == j.reader
           away == wsReader[r].disposed
           known == IF wsReader[r].index # j.id THEN wsReader[r].known
                    ELSE IF away THEN "none" ELSE "ready"
<1>1. /\ wsReader \in [Readers -> ReaderStates] /\ wsSearch \in [Searches -> SearchStates]
      /\ ClientTyped /\ JobsConsistent
  BY SearchTypes DEF SearchInv
<1>2. r \in Readers /\ j.id # 0 /\ \A k \in wsJobs : k.id # 0
  BY <1>1, IdsPositive DEF ClientTyped, Jobs
<1>3. /\ wsReader' = [wsReader EXCEPT ![r].opened = TRUE, ![r].known = known]
      /\ wsSearch' = [x \in Searches |->
            IF wsSearch[x].awaits # j.id THEN wsSearch[x]
            ELSE IF away THEN AnsweredByGit(x)
            ELSE [wsSearch[x] EXCEPT !.pc = "granted", !.awaits = 0]]
      /\ IF away /\ wsHost # 0 THEN CloseFollows(j) ELSE Answered(j)
  BY DEF openIndex, CloseFollows, closeAfterOpen
<1>4. known \in {"pending", "ready", "none"} /\ (wsReader[r].index = j.id => known # "pending")
      /\ (wsReader[r].index # j.id => known = wsReader[r].known)
  BY <1>1, <1>2 DEF ReaderStates
<1> HIDE DEF r, known
<1>5. /\ wsReader' \in [Readers -> ReaderStates]
      /\ \A q \in Readers \ {r} : wsReader'[q] = wsReader[q]
      /\ wsReader'[r].known = known /\ wsReader'[r].opened
      /\ wsReader'[r].index = wsReader[r].index /\ wsReader'[r].disposed = wsReader[r].disposed
  BY <1>1, <1>2, <1>3, <1>4 DEF ReaderStates
<1>6. /\ ClientTyped' /\ JobsConsistent' /\ FindersConsistent'
      /\ \A x \in Searches : wsSearch'[x] = wsSearch[x] /\ wsSearch[x].awaits # j.id =>
              SearchWaits(x)'
      /\ \A q \in Readers : /\ wsReader'[q].index = wsReader[q].index
                            /\ wsReader'[q].known = wsReader[q].known
                            /\ wsReader[q].index # j.id
                            => ReaderWaits(q)'
      /\ \A q \in Readers : /\ wsReader[q].opened => wsReader'[q].opened
                            /\ wsReader'[q].disposed = wsReader[q].disposed
                            /\ r # q
                            => IndexOwned(q)'
      /\ IndexOwned(r)'
      /\ \A k \in wsJobs' : k.id # 0
  <2>1. CASE away /\ wsHost # 0
    <3>1. CloseFollows(j)
      BY <1>3, <2>1
    <3>2. ClientTyped' /\ JobsConsistent'
      BY <3>1, CloseInPlace
    <3>3. \A k \in wsJobs' : k.id # 0
      BY <3>2 DEF ClientTyped, JobsConsistent
    <3> QED
      BY <3>1, <3>3, CloseInPlace DEF r
  <2>2. CASE ~(away /\ wsHost # 0)
    <3>1. /\ wsJobs' = wsJobs \ {j} /\ wsPending' = wsPending \ {j.id}
          /\ UNCHANGED <<wsHost, wsSpawned, wsBackoff, wsFinders, wsNextId>>
      BY <1>3, <2>2 DEF Answered
    <3>2. \A q \in Readers : r # q => ~Owes(j, q)
      BY DEF Owes, r
    <3>3. IndexOwned(r)'
      <4>1. CASE ~away
        BY <1>5, <4>1 DEF IndexOwned
      <4>2. CASE wsHost = 0
        BY <3>1, <4>2 DEF SearchInv, FindersConsistent, IndexOwned, HasIndex
      <4> QED
        BY <2>2, <4>1, <4>2
    <3>4. \A k \in wsJobs' : k.id # 0
      BY <1>2, <3>1
    <3> QED
      BY <3>1, <3>2, <3>3, <3>4, ReplyLeaves
  <2> QED
    BY <2>1, <2>2
<1>7. ASSUME NEW x \in Searches
      PROVE  SearchWaits(x)' /\ wsSearch'[x] \in SearchStates
  <2>1. CASE wsSearch[x].awaits # j.id
    BY <1>1, <1>3, <1>6, <2>1
  <2>2. CASE wsSearch[x].awaits = j.id /\ away
    BY <1>3, <1>6, <2>2, GitAnswers
  <2>3. CASE wsSearch[x].awaits = j.id /\ ~away
    <3>1. wsSearch'[x] = [wsSearch[x] EXCEPT !.pc = "granted", !.awaits = 0]
      BY <1>3, <2>3
    <3>2. wsSearch'[x] \in SearchStates /\ wsSearch'[x].pc = "granted" /\ wsSearch'[x].awaits = 0
      BY <1>1, <3>1, GrantedState
    <3> QED
      BY <1>6, <3>2 DEF SearchWaits
  <2> QED
    BY <2>1, <2>2, <2>3
<1>8. wsSearch' \in [Searches -> SearchStates]
  BY <1>3, <1>7
<1>9. ASSUME NEW q \in Readers
      PROVE  ReaderWaits(q)'
  <2>1. CASE wsReader[q].index # j.id
    BY <1>4, <1>5, <1>6, <2>1
  <2>2. CASE wsReader[q].index = j.id /\ q = r
    BY <1>4, <1>5, <2>2 DEF ReaderWaits
  <2>3. CASE wsReader[q].index = j.id /\ q # r
    <3>1. ~(wsReader[q].index # 0 /\ wsReader[q].known = "pending")
      BY <1>1, <2>3 DEF SearchInv, ReaderWaits, JobsConsistent, r
    <3> QED
      BY <1>5, <2>3, <3>1 DEF ReaderWaits
  <2> QED
    BY <2>1, <2>2, <2>3
<1>10. \A q \in Readers : IndexOwned(q)'
  BY <1>5, <1>6
<1> QED
  BY <1>5, <1>6, <1>7, <1>8, <1>9, <1>10, InvHolds

\* A grep's reply reaches only the search that asked.
LEMMA HitsKeep ==
  ASSUME SearchInv, NEW j \in wsJobs, j.op = "grep", j.id \in wsPending, j.at = "ok",
         grepAnswered(j)
  PROVE  SearchInv'
<1>1. /\ wsReader \in [Readers -> ReaderStates] /\ wsSearch \in [Searches -> SearchStates]
      /\ ClientTyped /\ JobsConsistent
  BY SearchTypes DEF SearchInv
<1>2. PICK readable \in BOOLEAN : wsSearch' = [x \in Searches |->
                    IF wsSearch[x].awaits # j.id THEN wsSearch[x]
                    ELSE IF ~readable THEN AnsweredByGit(x)
                    ELSE [wsSearch[x] EXCEPT !.pc = "done", !.awaits = 0,
                                             !.answeredBy = j.search]]
  BY DEF grepAnswered, Asked, readMatchedLines
<1>3. /\ wsJobs' = wsJobs \ {j} /\ wsPending' = wsPending \ {j.id} /\ wsReader' = wsReader
      /\ UNCHANGED <<wsHost, wsSpawned, wsBackoff, wsFinders, wsNextId>>
  BY DEF grepAnswered, Answered
<1>4. j.id # 0 /\ j.search \in Searches \cup {NoSearch} /\ \A k \in wsJobs' : k.id # 0
  BY <1>1, <1>3, IdsPositive DEF ClientTyped, Jobs
<1>5. ASSUME NEW x \in Searches
      PROVE  SearchWaits(x)' /\ wsSearch'[x] \in SearchStates
  <2>1. CASE wsSearch[x].awaits # j.id
    <3>1. wsSearch'[x] = wsSearch[x]
      BY <1>2, <2>1
    <3> QED
      BY <1>1, <1>3, <2>1, <3>1, ReplyLeaves
  <2>2. CASE wsSearch[x].awaits = j.id /\ ~readable
    <3>1. wsSearch'[x] = AnsweredByGit(x)
      BY <1>2, <2>2
    <3> QED
      BY <1>4, <3>1, GitAnswers
  <2>3. CASE wsSearch[x].awaits = j.id /\ readable
    <3>1. wsSearch'[x] = [wsSearch[x] EXCEPT !.pc = "done", !.awaits = 0, !.answeredBy = j.search]
      BY <1>2, <2>3
    <3>2. wsSearch[x] \in SearchStates
      BY <1>1
    <3> PICK a \in Searches \cup {NoSearch} : a = j.search
      BY <1>4
    <3>3. /\ wsSearch'[x] \in SearchStates /\ wsSearch'[x].pc = "done" /\ wsSearch'[x].awaits = 0
          /\ wsSearch'[x].answeredBy = j.search
      <4> PICK q \in SearchStates : q = wsSearch[x]
        BY <3>2
      <4> PICK t : t = wsSearch'[x]
        OBVIOUS
      <4>1. t = AnsweredBy(q, a)
        BY <3>1 DEF AnsweredBy
      <4>2. t \in SearchStates /\ t.pc = "done" /\ t.awaits = 0 /\ t.answeredBy = a
        BY <4>1, DoneState
      <4> QED
        BY <4>2
    <3>4. j.search = x
      BY <2>3 DEF SearchInv, SearchWaits
    <3> QED
      BY <1>4, <3>3, <3>4 DEF SearchWaits
  <2> QED
    BY <2>1, <2>2, <2>3
<1>6. wsSearch' \in [Searches -> SearchStates]
  BY <1>2, <1>5
<1>7. ASSUME NEW r \in Readers
      PROVE  ReaderWaits(r)' /\ IndexOwned(r)'
  <2>1. ~Owes(j, r)
    BY DEF Owes
  <2>2. IndexOwned(r)'
    BY <1>3, <2>1, ReplyLeaves
  <2>3. CASE wsReader[r].index # j.id
    BY <1>3, <2>2, <2>3, ReplyLeaves
  <2>4. CASE wsReader[r].index = j.id
    <3>1. ~(wsReader[r].index # 0 /\ wsReader[r].known = "pending")
      BY <1>1, <2>4 DEF SearchInv, ReaderWaits, JobsConsistent
    <3> QED
      BY <1>3, <2>2, <3>1 DEF ReaderWaits
  <2> QED
    BY <2>3, <2>4
<1>8. ClientTyped' /\ JobsConsistent' /\ FindersConsistent'
  BY <1>3, ReplyLeaves
<1> QED
  BY <1>1, <1>3, <1>5, <1>6, <1>7, <1>8, InvHolds

\* A reply that nobody waits for, and that to a close, only leave.
LEMMA QuietReplyKeeps ==
  ASSUME SearchInv, NEW j \in wsJobs, j.at # "sent", Dropped(j) \/ closeAnswered(j)
  PROVE  SearchInv'
<1>1. /\ wsJobs' = wsJobs \ {j} /\ wsPending' = wsPending \ {j.id}
      /\ wsReader' = wsReader /\ wsSearch' = wsSearch
      /\ UNCHANGED <<wsHost, wsSpawned, wsBackoff, wsFinders, wsNextId>>
      /\ j.id \notin wsPending \/ j.op = "close"
  BY DEF Dropped, closeAnswered, Answered
<1>2. /\ wsReader \in [Readers -> ReaderStates] /\ wsSearch \in [Searches -> SearchStates]
      /\ ClientTyped /\ JobsConsistent /\ j.id # 0
  BY SearchTypes, IdsPositive DEF SearchInv
<1>3. ASSUME NEW x \in Searches
      PROVE  SearchWaits(x)'
  <2>1. wsSearch[x].awaits # j.id
    BY <1>1, <1>2 DEF SearchInv, SearchWaits
  <2> QED
    BY <1>1, <2>1, ReplyLeaves
<1>4. ASSUME NEW r \in Readers
      PROVE  ReaderWaits(r)' /\ IndexOwned(r)'
  <2>1. ~Owes(j, r)
    BY <1>1 DEF Owes
  <2>2. IndexOwned(r)'
    BY <1>1, <2>1, ReplyLeaves
  <2>3. CASE wsReader[r].index # j.id
    BY <1>1, <2>2, <2>3, ReplyLeaves
  <2>4. CASE wsReader[r].index = j.id
    <3>1. ~(wsReader[r].index # 0 /\ wsReader[r].known = "pending")
      BY <1>1, <1>2, <2>4 DEF SearchInv, ReaderWaits, JobsConsistent
    <3> QED
      BY <1>1, <2>2, <3>1 DEF ReaderWaits
  <2> QED
    BY <2>3, <2>4
<1>5. ClientTyped' /\ JobsConsistent' /\ FindersConsistent'
  BY <1>1, ReplyLeaves
<1> QED
  BY <1>1, <1>2, <1>3, <1>4, <1>5, InvHolds

\* Every reply that the client reads.
LEMMA MessagesKeep ==
  ASSUME SearchInv, NEW j \in wsJobs, onMessage(j)
  PROVE  SearchInv'
<1>1. /\ j.at \in {"ready", "too_large", "ok", "error"}
      /\ Dropped(j) \/ openIndex(j) \/ grepAnswered(j) \/ closeAnswered(j)
  BY DEF onMessage
<1>2. CASE Dropped(j) \/ closeAnswered(j)
  BY <1>1, <1>2, QuietReplyKeeps
<1>3. CASE openIndex(j)
  <2>1. j.op = "open" /\ j.id \in wsPending /\ j.at \in {"ready", "too_large", "error"}
    BY <1>3 DEF openIndex
  <2>2. CASE j.at = "ready"
    BY <1>3, <2>1, <2>2, ArrivalKeeps
  <2>3. CASE j.at = "too_large"
    BY <1>3, <2>1, <2>3, FailureAnswered DEF openIndex
  <2>4. CASE j.at = "error"
    BY <1>3, <2>1, <2>4, FailureAnswered DEF openIndex
  <2> QED
    BY <2>1, <2>2, <2>3, <2>4
<1>4. CASE grepAnswered(j)
  <2>1. j.op = "grep" /\ j.id \in wsPending
    BY <1>4 DEF grepAnswered
  <2>2. CASE j.at = "ok"
    BY <1>4, <2>1, <2>2, HitsKeep
  <2>3. CASE j.at # "ok"
    <3>1. Answered(j) /\ wsReader' = FailedReaders({j.id}) /\ wsSearch' = FailedSearches({j.id})
      BY <1>4, <2>3 DEF grepAnswered
    <3>2. j.at # "ready" /\ j.at # "sent"
      BY <1>1, <2>1 DEF SearchInv, JobsConsistent
    <3> QED
      BY <2>1, <3>1, <3>2, FailureAnswered
  <2> QED
    BY <2>2, <2>3
<1> QED
  BY <1>1, <1>2, <1>3, <1>4

-----------------------------------------------------------------------------
\* A request that moves on at the host keeps its id, and whoever waits for it.
LEMMA HostStepKeeps ==
  ASSUME SearchInv, NEW j \in wsJobs, NEW at \in {"scanning", "ready", "too_large", "ok", "error"},
         at \in {"scanning", "ready"} => j.op = "open",
         j.at \in {"sent", "scanning"}, j.host = wsHost,
         Moves(j, at), UNCHANGED hostLeaves,
         wsFinders' \in Seq(Readers),
         \A m, n \in DOMAIN wsFinders' : wsFinders'[m] = wsFinders'[n] => m = n,
         \A r \in Readers : HasIndex(r)' =>
            \/ r = j.reader /\ at = "ready"
            \/ HasIndex(r) /\ (r = j.reader => j.op # "close")
  PROVE  SearchInv'
<1>0. PICK job : job = [j EXCEPT !.at = at]
  OBVIOUS
<1>1. /\ wsReader \in [Readers -> ReaderStates] /\ wsSearch \in [Searches -> SearchStates]
      /\ ClientTyped /\ JobsConsistent /\ FindersConsistent
  BY SearchTypes DEF SearchInv
<1>2. j \in Jobs
  BY <1>1 DEF ClientTyped
<1>3. /\ job \in Jobs /\ job.id = j.id /\ job.op = j.op /\ job.reader = j.reader
      /\ job.search = j.search /\ job.host = j.host /\ job.at = at
  BY <1>0, <1>2 DEF Jobs
<1>4. /\ wsJobs' = (wsJobs \ {j}) \cup {job}
      /\ wsReader' = wsReader /\ wsSearch' = wsSearch
      /\ UNCHANGED <<wsHost, wsSpawned, wsBackoff, wsNextId, wsPending>>
  BY <1>0 DEF Moves, hostLeaves
<1>5. wsHost # 0 /\ j.id \in wsPending
  BY <1>1 DEF JobsConsistent
<1>6. ClientTyped'
  BY <1>1, <1>3, <1>4 DEF ClientTyped
<1>7. FindersConsistent'
  BY <1>4, <1>5 DEF FindersConsistent
<1>8. \A k \in wsJobs' : k = job \/ (k \in wsJobs /\ k.id # j.id)
  BY <1>1, <1>4 DEF JobsConsistent
<1>9. JobsConsistent'
  <2>1. \A k, l \in wsJobs' : k.id = l.id => k = l
    BY <1>1, <1>3, <1>8 DEF JobsConsistent
  <2>2. ASSUME NEW k \in wsJobs'
        PROVE  /\ k.id \in 1 .. wsNextId' - 1
               /\ k.at \in {"sent", "scanning"} =>
                    k.host = wsHost' /\ wsHost' # 0 /\ k.id \in wsPending'
               /\ k.at \in {"scanning", "ready"} => k.op = "open"
    <3>1. CASE k = job
      BY <1>1, <1>3, <1>4, <1>5, <3>1 DEF JobsConsistent
    <3>2. CASE k \in wsJobs
      BY <1>1, <1>4, <3>2 DEF JobsConsistent
    <3> QED
      BY <1>8, <3>1, <3>2
  <2>3. ASSUME NEW p \in wsPending'
        PROVE  \E k \in wsJobs' : k.id = p
    <3>1. PICK k \in wsJobs : k.id = p
      BY <1>1, <1>4 DEF JobsConsistent
    <3> QED
      BY <1>3, <1>4, <3>1
  <2> QED
    BY <2>1, <2>2, <2>3 DEF JobsConsistent
<1>10. ASSUME NEW x \in Searches
       PROVE  SearchWaits(x)'
  <2>1. SearchWaits(x) /\ wsSearch'[x] = wsSearch[x]
    BY <1>4 DEF SearchInv
  <2> QED
    BY <1>3, <1>4, <1>8, <2>1 DEF SearchWaits
<1>11. ASSUME NEW r \in Readers
       PROVE  ReaderWaits(r)'
  <2>1. ReaderWaits(r) /\ wsReader'[r] = wsReader[r]
    BY <1>4 DEF SearchInv
  <2>2. CASE ~(wsReader[r].index # 0 /\ wsReader[r].known = "pending")
    BY <2>1, <2>2 DEF ReaderWaits
  <2>3. CASE wsReader[r].index # 0 /\ wsReader[r].known = "pending"
    <3>1. PICK k \in wsJobs : /\ k.id = wsReader[r].index /\ k.id \in wsPending
                              /\ k.op = "open" /\ k.reader = r
      BY <2>1, <2>3 DEF ReaderWaits
    <3>2. CASE k = j
      BY <1>3, <1>4, <2>1, <3>1, <3>2 DEF ReaderWaits
    <3>3. CASE k # j
      BY <1>4, <2>1, <3>1, <3>3 DEF ReaderWaits
    <3> QED
      BY <3>2, <3>3
  <2> QED
    BY <2>2, <2>3
<1>12. ASSUME NEW r \in Readers
       PROVE  IndexOwned(r)'
  <2>1. IndexOwned(r) /\ wsReader'[r] = wsReader[r]
    BY <1>4 DEF SearchInv
  <2>2. CASE ~HasIndex(r)'
    BY <2>2 DEF IndexOwned
  <2>3. CASE r = j.reader /\ at = "ready"
    <3>1. Owes(job, r)' /\ job \in wsJobs'
      BY <1>3, <1>4, <1>5, <2>3 DEF Owes
    <3> QED
      BY <3>1 DEF IndexOwned
  <2>4. CASE HasIndex(r) /\ (r = j.reader => j.op # "close")
    <3>1. ~Owes(j, r)
      BY <1>1, <2>4 DEF Owes
    <3>2. \A k \in wsJobs : Owes(k, r) => k \in wsJobs' /\ Owes(k, r)'
      BY <1>4, <3>1 DEF Owes
    <3> QED
      BY <2>1, <2>4, <3>2 DEF IndexOwned
  <2> QED
    BY <2>2, <2>3, <2>4
<1> QED
  BY <1>1, <1>4, <1>6, <1>7, <1>9, <1>10, <1>11, <1>12, InvHolds

\* Each operation of the host; an open makes room by closing what was used least recently.
LEMMA HostKeeps ==
  ASSUME SearchInv, NEW j \in wsJobs,
         hostOpens(j) \/ hostScanned(j) \/ hostGreps(j) \/ hostCloses(j)
  PROVE  SearchInv'
<1>1. /\ ClientTyped /\ JobsConsistent /\ FindersConsistent /\ wsFinders \in Seq(Readers)
      /\ j \in Jobs /\ j.reader \in Readers
  BY SearchTypes DEF SearchInv, ClientTyped, Jobs
<1> DEFINE rest == closeIndex(j.reader)
<1>2. /\ rest \in Seq(Readers) /\ \A m, n \in DOMAIN rest : rest[m] = rest[n] => m = n
      /\ \A m \in DOMAIN rest : rest[m] # j.reader /\ HasIndex(rest[m])
  BY <1>1, ClosedIndex
<1> HIDE DEF rest
<1>3. /\ \A m, n \in DOMAIN wsFinders : wsFinders[m] = wsFinders[n] => m = n
      /\ \A m \in DOMAIN wsFinders : HasIndex(wsFinders[m])
  BY <1>1 DEF FindersConsistent, HasIndex
<1>4. CASE hostOpens(j)
  <2> DEFINE over == Len(rest) + 1 - MaxLiveIndexes
             kept == SubSeq(rest, over + 1, Len(rest))
  <2>1. /\ j.op = "open" /\ j.at = "sent" /\ j.host = wsHost
        /\ wsFinders' = IF over <= 0 THEN rest ELSE kept
        /\ Moves(j, "scanning") /\ UNCHANGED hostLeaves
    BY <1>4 DEF hostOpens, rest
  <2>2. Len(rest) \in Nat /\ over \in Int /\ over <= Len(rest) /\ DOMAIN rest = 1 .. Len(rest)
        /\ \A m \in 1 .. Len(rest) : rest[m] \in Readers
    BY <1>2, WorkspaceSearchAssumption
  <2>3. CASE over <= 0
    <3>1. wsFinders' = rest
      BY <2>1, <2>3
    <3>2. \A r \in Readers : HasIndex(r)' => HasIndex(r)
      BY <1>2, <3>1 DEF HasIndex
    <3> QED
      BY <1>2, <2>1, <3>1, <3>2, HostStepKeeps
  <2>4. CASE ~(over <= 0)
    <3>1. wsFinders' = kept
      BY <2>1, <2>4
    <3>2. over \in Nat /\ over >= 1
      BY <2>2, <2>4
    <3> HIDE DEF over
    <3>3. /\ kept \in Seq(Readers) /\ DOMAIN kept = 1 .. Len(rest) - over
          /\ \A m \in 1 .. Len(rest) - over : kept[m] = rest[over + m] /\ over + m \in 1 .. Len(rest)
      <4>1. kept = [i \in 1 .. Len(rest) - over |-> rest[i + over]]
        BY <1>2, <2>2, <3>2
      <4> HIDE DEF kept
      <4>2. \A m \in 1 .. Len(rest) - over : m + over \in 1 .. Len(rest) /\ m + over = over + m
        BY <2>2, <3>2
      <4>3. Len(rest) - over \in Nat
        BY <2>2, <3>2
      <4>4. \A m \in 1 .. Len(rest) - over : rest[m + over] \in Readers
        BY <2>2, <4>2
      <4>5. kept \in [1 .. Len(rest) - over -> Readers]
        BY <4>1, <4>4
      <4>6. kept \in Seq(Readers) /\ DOMAIN kept = 1 .. Len(rest) - over
        BY <4>3, <4>5
      <4>7. \A m \in 1 .. Len(rest) - over : kept[m] = rest[over + m] /\ over + m \in 1 .. Len(rest)
        BY <4>1, <4>2
      <4> QED
        BY <4>6, <4>7
    <3> HIDE DEF kept
    <3>4. \A m, n \in DOMAIN kept : kept[m] = kept[n] => m = n
      <4> SUFFICES ASSUME NEW m \in 1 .. Len(rest) - over, NEW n \in 1 .. Len(rest) - over,
                          kept[m] = kept[n]
                   PROVE  m = n
        BY <3>3
      <4>1. over + m = over + n
        BY <1>2, <2>2, <3>3
      <4> QED
        BY <2>2, <3>2, <4>1
    <3>5. ASSUME NEW r \in Readers, HasIndex(r)'
          PROVE  HasIndex(r)
      <4>1. PICK m \in DOMAIN kept : kept[m] = r
        BY <3>1, <3>5 DEF HasIndex
      <4> QED
        BY <1>2, <2>2, <3>3, <4>1
    <3> QED
      BY <2>1, <3>1, <3>3, <3>4, <3>5, HostStepKeeps
  <2> QED
    BY <2>3, <2>4
<1>5. CASE hostScanned(j)
  <2>1. /\ j.at = "scanning" /\ j.host = wsHost /\ UNCHANGED hostLeaves
        /\ \/ /\ wsFinders' = IF HasIndex(j.reader) THEN wsFinders ELSE Append(wsFinders, j.reader)
              /\ Moves(j, "ready")
           \/ Moves(j, "too_large") /\ wsFinders' = wsFinders
           \/ Moves(j, "error") /\ wsFinders' = wsFinders
    BY <1>5 DEF hostScanned
  <2>2. j.op = "open"
    BY <1>1, <2>1 DEF JobsConsistent
  <2>3. ASSUME NEW at \in {"ready", "too_large", "error"}, Moves(j, at), wsFinders' = wsFinders
        PROVE  SearchInv'
    <3>1. \A r \in Readers : HasIndex(r)' => HasIndex(r)
      BY <2>3 DEF HasIndex
    <3> QED
      BY <1>1, <1>3, <2>1, <2>2, <2>3, <3>1, HostStepKeeps
  <2>4. CASE ~HasIndex(j.reader) /\ wsFinders' = Append(wsFinders, j.reader) /\ Moves(j, "ready")
    <3>1. Appended(wsFinders', wsFinders, j.reader)
      BY <1>1, <2>4, AppendedSays
    <3>2. wsFinders' \in Seq(Readers) /\ \A m, n \in DOMAIN wsFinders' : wsFinders'[m] = wsFinders'[n] => m = n
      BY <1>1, <1>3, <2>4, <3>1, AppendedKeeps DEF HasIndex
    <3>3. \A r \in Readers : HasIndex(r)' => r = j.reader \/ HasIndex(r)
      BY <3>1 DEF HasIndex, Appended
    <3> QED
      BY <2>1, <2>2, <2>4, <3>2, <3>3, HostStepKeeps
  <2> QED
    BY <2>1, <2>3, <2>4
<1>6. CASE hostGreps(j)
  <2>1. /\ j.op = "grep" /\ j.at = "sent" /\ j.host = wsHost /\ UNCHANGED hostLeaves
    BY <1>6 DEF hostGreps
  <2>2. CASE HasIndex(j.reader)
    <3>1. wsFinders' = Append(rest, j.reader) /\ Moves(j, "ok")
      BY <1>6, <2>2 DEF hostGreps, rest
    <3>2. Appended(wsFinders', rest, j.reader)
      BY <1>1, <1>2, <3>1, AppendedSays
    <3>3. wsFinders' \in Seq(Readers) /\ \A m, n \in DOMAIN wsFinders' : wsFinders'[m] = wsFinders'[n] => m = n
      BY <1>1, <1>2, <3>2, AppendedKeeps
    <3>4. \A r \in Readers : HasIndex(r)' => HasIndex(r)
      BY <1>2, <2>2, <3>2 DEF HasIndex, Appended
    <3> QED
      BY <2>1, <3>1, <3>3, <3>4, HostStepKeeps
  <2>3. CASE ~HasIndex(j.reader)
    <3>1. wsFinders' = wsFinders /\ Moves(j, "error")
      BY <1>6, <2>3 DEF hostGreps
    <3>2. \A r \in Readers : HasIndex(r)' => HasIndex(r)
      BY <3>1 DEF HasIndex
    <3> QED
      BY <1>1, <1>3, <2>1, <3>1, <3>2, HostStepKeeps
  <2> QED
    BY <2>2, <2>3
<1>7. CASE hostCloses(j)
  <2>1. /\ j.op = "close" /\ j.at = "sent" /\ j.host = wsHost /\ UNCHANGED hostLeaves
        /\ wsFinders' = rest /\ Moves(j, "ok")
    BY <1>7 DEF hostCloses, rest
  <2>2. \A r \in Readers : HasIndex(r)' => HasIndex(r) /\ r # j.reader
    BY <1>2, <2>1 DEF HasIndex
  <2> QED
    BY <1>2, <2>1, <2>2, HostStepKeeps
<1> QED
  BY <1>4, <1>5, <1>6, <1>7

\* A retired host leaves nobody waiting: what was pending failed, and with it every promise.
LEMMA RetireKeeps ==
  ASSUME SearchInv, retireHost
  PROVE  SearchInv'
<1>1. /\ wsReader \in [Readers -> ReaderStates] /\ wsSearch \in [Searches -> SearchStates]
      /\ ClientTyped /\ JobsConsistent
  BY SearchTypes DEF SearchInv
<1>2. /\ wsHost' = 0 /\ wsBackoff' = TRUE /\ wsFinders' = <<>> /\ wsPending' = {}
      /\ wsJobs' = {j \in wsJobs : j.at \notin {"sent", "scanning"}}
      /\ wsReader' = FailedReaders(wsPending) /\ wsSearch' = FailedSearches(wsPending)
      /\ UNCHANGED <<wsSpawned, wsNextId>>
  BY DEF retireHost, failPending
<1>3. ClientTyped'
  BY <1>1, <1>2 DEF ClientTyped
<1>4. JobsConsistent' /\ \A k \in wsJobs' : k.id # 0
  BY <1>1, <1>2, IdsPositive DEF JobsConsistent
<1>5. FindersConsistent'
  BY <1>2 DEF FindersConsistent
<1>6. ASSUME NEW x \in Searches
      PROVE  SearchWaits(x)' /\ wsSearch'[x] \in SearchStates
  <2>1. wsSearch'[x] = IF wsSearch[x].awaits \in wsPending THEN AnsweredByGit(x) ELSE wsSearch[x]
    BY <1>2 DEF FailedSearches
  <2>2. CASE wsSearch[x].awaits \in wsPending
    BY <1>4, <2>1, <2>2, GitAnswers
  <2>3. CASE wsSearch[x].awaits \notin wsPending
    <3>1. SearchWaits(x) /\ wsSearch'[x] = wsSearch[x]
      BY <2>1, <2>3 DEF SearchInv
    <3> QED
      BY <1>1, <1>4, <2>3, <3>1 DEF SearchWaits
  <2> QED
    BY <2>2, <2>3
<1>7. wsSearch' \in [Searches -> SearchStates]
  BY <1>2, <1>6 DEF FailedSearches
<1>8. ASSUME NEW r \in Readers
      PROVE  wsReader'[r] \in ReaderStates /\ ReaderWaits(r)' /\ IndexOwned(r)'
  <2> DEFINE failed == \E j \in wsJobs : j.id \in wsPending /\ j.reader = r /\ j.op # "close"
  <2>1. wsReader'[r] = IF failed THEN [wsReader[r] EXCEPT !.index = 0, !.known = "pending"]
                       ELSE wsReader[r]
    BY <1>2 DEF FailedReaders
  <2>2. IndexOwned(r)'
    BY <1>2 DEF IndexOwned, HasIndex
  <2>3. wsReader[r] \in ReaderStates
    BY <1>1
  <2>4. CASE failed
    <3>1. wsReader'[r] = [wsReader[r] EXCEPT !.index = 0, !.known = "pending"]
      BY <2>1, <2>4
    <3>2. wsReader'[r] \in ReaderStates /\ wsReader'[r].index = 0
      BY <2>3, <3>1, ForgottenIndex
    <3> QED
      BY <2>2, <3>2 DEF ReaderWaits
  <2>5. CASE ~failed
    <3>1. wsReader'[r] = wsReader[r]
      BY <2>1, <2>5
    <3>2. ~(wsReader[r].index # 0 /\ wsReader[r].known = "pending")
      BY <2>5 DEF SearchInv, ReaderWaits
    <3> QED
      BY <2>2, <2>3, <3>1, <3>2 DEF ReaderWaits
  <2> QED
    BY <2>4, <2>5
<1>9. wsReader' \in [Readers -> ReaderStates]
  BY <1>2, <1>8 DEF FailedReaders
<1> QED
  BY <1>3, <1>4, <1>5, <1>6, <1>7, <1>8, <1>9, InvHolds

LEMMA SearchStarts == WorkspaceSearchInit => SearchInv
<1> SUFFICES ASSUME WorkspaceSearchInit PROVE SearchInv
  OBVIOUS
<1>1. /\ wsHost = 0 /\ wsSpawned = 0 /\ wsBackoff = FALSE /\ wsFinders = <<>> /\ wsNextId = 1
      /\ wsPending = {} /\ wsJobs = {}
  BY DEF WorkspaceSearchInit
<1>2. /\ \A r \in Readers : wsReader[r].index = 0
      /\ \A x \in Searches : wsSearch[x].pc = "idle" /\ wsSearch[x].awaits = 0
  BY DEF WorkspaceSearchInit
<1>3. WorkspaceSearchTypeOK
  <2>1. wsReader \in [Readers -> ReaderStates]
    BY DEF WorkspaceSearchInit, ReaderStates
  <2>2. wsSearch \in [Searches -> SearchStates]
    BY DEF WorkspaceSearchInit, SearchStates
  <2>3. ClientTyped
    <3>1. wsFinders \in Seq(Readers)
      <4>1. <<>> \in Seq(Readers)
        OBVIOUS
      <4> QED
        BY <1>1, <4>1
    <3>2. wsPending \subseteq 1 .. wsNextId - 1 /\ wsJobs \subseteq Jobs /\ wsNextId \in Nat \ {0}
      BY <1>1
    <3>3. wsHost \in Nat /\ wsSpawned \in Nat /\ wsBackoff \in BOOLEAN
      BY <1>1
    <3> QED
      BY <3>1, <3>2, <3>3 DEF ClientTyped
  <2> QED
    BY <2>1, <2>2, <2>3, SearchTypes
<1>4. JobsConsistent /\ FindersConsistent
  BY <1>1 DEF JobsConsistent, FindersConsistent
<1>5. \A x \in Searches : SearchWaits(x)
  BY <1>1, <1>2 DEF SearchWaits
<1>6. \A r \in Readers : ReaderWaits(r) /\ IndexOwned(r)
  BY <1>1, <1>2 DEF ReaderWaits, IndexOwned, HasIndex
<1> QED
  BY <1>3, <1>4, <1>5, <1>6 DEF SearchInv

LEMMA SearchKept == SearchInv /\ [WorkspaceSearchNext]_searchVars => SearchInv'
<1> SUFFICES ASSUME SearchInv, [WorkspaceSearchNext]_searchVars PROVE SearchInv'
  OBVIOUS
<1>1. CASE UNCHANGED searchVars
  BY <1>1 DEF searchVars, SearchInv, WorkspaceSearchTypeOK, JobsConsistent, FindersConsistent,
              SearchWaits, ReaderWaits, IndexOwned, HasIndex, Owes
<1>2. ASSUME NEW x \in Searches, searchCheckout(x) \/ grepFffIndex(x)
      PROVE  SearchInv'
  BY <1>2, SearchesKeep
<1>3. ASSUME NEW r \in Readers, disposeReader(r)
      PROVE  SearchInv'
  BY <1>3, DisposalKeeps
<1>4. ASSUME NEW j \in wsJobs, onMessage(j)
      PROVE  SearchInv'
  BY <1>4, MessagesKeep
<1>5. ASSUME NEW j \in wsJobs, hostOpens(j) \/ hostScanned(j) \/ hostGreps(j) \/ hostCloses(j)
      PROVE  SearchInv'
  BY <1>5, HostKeeps
<1>6. CASE HostExits \/ RequestDeadline
  BY <1>6, RetireKeeps DEF HostExits, RequestDeadline
<1>7. CASE BackoffEnds
  <2>1. /\ wsBackoff' = FALSE
        /\ UNCHANGED <<wsHost, wsSpawned, wsFinders, wsNextId, wsPending, wsJobs, wsReader, wsSearch>>
    BY <1>7 DEF BackoffEnds
  <2>2. WorkspaceSearchTypeOK'
    BY <2>1 DEF SearchInv, WorkspaceSearchTypeOK
  <2>3. JobsConsistent' /\ FindersConsistent'
    BY <2>1 DEF SearchInv, JobsConsistent, FindersConsistent
  <2>4. \A x \in Searches : SearchWaits(x)'
    BY <2>1 DEF SearchInv, SearchWaits
  <2>5. \A r \in Readers : ReaderWaits(r)' /\ IndexOwned(r)'
    BY <2>1 DEF SearchInv, ReaderWaits, IndexOwned, HasIndex, Owes
  <2> QED
    BY <2>2, <2>3, <2>4, <2>5 DEF SearchInv
<1> QED
  BY <1>1, <1>2, <1>3, <1>4, <1>5, <1>6, <1>7 DEF WorkspaceSearchNext

\* For every set of readers and searches, limit of indexes and number of hosts: a search is
\* answered by its own request or by git grep, whatever a retired host had still sent, nobody
\* waits for a request that is gone, and a disposed reader leaves no index open, also when it
\* was disposed while its index was being opened (client.ts, workspaceSearch.ts, host.ts).
THEOREM SearchIsSound == WorkspaceSearchSpec => []SearchSound
<1>1. ASSUME SearchInv
      PROVE  SearchSound
  <2>1. AnswersAreOwn
    BY <1>1 DEF SearchInv, SearchWaits, AnswersAreOwn
  <2>2. WaitsAreLive
    BY <1>1 DEF SearchInv, SearchWaits, JobsConsistent, WaitsAreLive
  <2>3. DisposedIsClosed
    BY <1>1 DEF SearchInv, IndexOwned, Owes, DisposedIsClosed
  <2> QED
    BY <1>1, <2>1, <2>2, <2>3 DEF SearchInv, SearchSound
<1>2. SearchInv => SearchSound
  BY <1>1
<1> QED
  BY <1>2, SearchStarts, SearchKept, PTL DEF WorkspaceSearchSpec

-----------------------------------------------------------------------------
(* GithubAccess: the inductive invariant *)

Caps == {"unknown", "available", "denied"}

Observations == [gen : Nat, cap : [Operations -> Caps]]

Sources == [gen : Int, access : Caps, listing : BOOLEAN, unread : Nat]

Preflights == [gen : Nat, at : {"none", "lookup", "mint"}, waiters : SUBSET AccessRunners,
               meta : SUBSET Operations]

AccessPlaces == {"idle", "numbered", "waiting", "answered", "unavailable", "policy", "working",
                 "listing", "read", "retry", "denied", "exhausted", "stopped"}

AccessRuns ==
  [at : AccessPlaces, runs : Nat, misses : Nat, since : Nat, obs : Observations, availGen : Nat,
   seen : {"none", "complete", "partial", "denied", "unknown"}, seenAt : Nat, abort : BOOLEAN]

AccessTyped ==
  /\ gaGrants \subseteq Operations /\ gaLacked \subseteq Operations
  /\ gaChanges \in Nat /\ gaFaults \in Nat /\ gaChanges + gaFaults <= MaxAccessMoves
  /\ gaSeq \in Nat /\ gaStored \in Observations /\ gaSource \in Sources
  /\ gaClosed \in Nat /\ gaListed \in Int
  /\ gaPending \in [AccessHosts -> Preflights] /\ gaRun \in [AccessRunners -> AccessRuns]

\* An observation has a number that was drawn, and denies only what was lacking at some time.
ObservationFits(obs) ==
  /\ obs.gen <= gaSeq
  /\ \A o \in Operations : obs.cap[o] = "denied" => o \in gaLacked

PreflightFits(entry) ==
  /\ entry.gen <= gaSeq
  /\ entry.at = "mint" => Operations \ entry.meta \subseteq gaLacked

\* What an execution holds: its source was at its generation when it was synced, and a complete
\* listing of that generation is newer than the last closing, unless it was closed again since.
AccessRunFits(run) ==
  /\ ObservationFits(run.obs)
  /\ run.at = "denied" => "essential" \in gaLacked
  /\ run.at = "stopped" => run.abort
  /\ run.at \in {"listing", "read"} => run.availGen <= gaSource.gen
  /\ run.at = "read" => run.seen # "none"
  /\ run.seenAt <= gaClosed
  /\ run.at = "read" /\ run.seen = "complete" /\ run.availGen = gaSource.gen =>
       run.seenAt = gaClosed \/ gaSource.access = "denied"

SourceFits ==
  /\ -1 <= gaSource.gen /\ gaSource.gen <= gaSeq
  /\ -1 <= gaListed /\ gaListed <= gaClosed
  /\ CompleteMeansListed

AccessInv ==
  /\ AccessTyped /\ SourceFits /\ ObservationFits(gaStored)
  /\ Operations \ gaGrants \subseteq gaLacked
  /\ \A h \in AccessHosts : PreflightFits(gaPending[h])
  /\ \A r \in AccessRunners : AccessRunFits(gaRun[r])

\* How the source of a head may move: its generation never falls, it is closed only by a denial,
\* and a denial stands while the generation does.
SourceMoves ==
  /\ gaSource.gen <= gaSource'.gen /\ gaClosed <= gaClosed'
  /\ gaClosed' = gaClosed \/ gaSource'.access = "denied"
  /\ gaSource.access = "denied" /\ gaSource'.gen = gaSource.gen => gaSource'.access = "denied"

AccessOnward == gaSeq <= gaSeq' /\ gaLacked \subseteq gaLacked' /\ SourceMoves

AccessNumbers ==
  /\ gaSeq \in Nat /\ gaSeq' \in Nat /\ gaClosed \in Nat /\ gaClosed' \in Nat
  /\ gaSource \in Sources /\ gaSource' \in Sources

LEMMA ObservationKept ==
  ASSUME AccessOnward, AccessNumbers, NEW obs \in Observations, ObservationFits(obs)
  PROVE  ObservationFits(obs)'
BY DEF AccessOnward, AccessNumbers, ObservationFits, Observations

LEMMA PreflightKept ==
  ASSUME AccessOnward, AccessNumbers, NEW entry \in Preflights, PreflightFits(entry)
  PROVE  PreflightFits(entry)'
BY DEF AccessOnward, AccessNumbers, PreflightFits, Preflights

LEMMA AccessRunKept ==
  ASSUME AccessOnward, AccessNumbers, NEW run \in AccessRuns, AccessRunFits(run)
  PROVE  AccessRunFits(run)'
<1>1. run.obs \in Observations /\ run.availGen \in Nat /\ run.seenAt \in Nat
  BY DEF AccessRuns
<1>2. ObservationFits(run.obs)'
  BY <1>1, ObservationKept DEF AccessRunFits
<1>3. gaSource.gen \in Int /\ gaSource'.gen \in Int
  BY DEF AccessNumbers, Sources
<1>4. run.at \in {"listing", "read"} => run.availGen <= gaSource'.gen
  BY <1>1, <1>3 DEF AccessRunFits, AccessOnward, SourceMoves
<1>5. run.seenAt <= gaClosed'
  BY <1>1 DEF AccessRunFits, AccessOnward, SourceMoves, AccessNumbers
<1>6. ASSUME run.at = "read", run.seen = "complete", run.availGen = gaSource'.gen
      PROVE  run.seenAt = gaClosed' \/ gaSource'.access = "denied"
  <2>1. gaSource.gen = gaSource'.gen
    BY <1>1, <1>3, <1>6 DEF AccessRunFits, AccessOnward, SourceMoves
  <2> QED
    BY <1>6, <2>1 DEF AccessRunFits, AccessOnward, SourceMoves
<1> QED
  BY <1>2, <1>4, <1>5, <1>6 DEF AccessRunFits, AccessOnward

(* The source *)

LEMMA SyncFits ==
  ASSUME gaSource \in Sources, NEW obs \in Observations
  PROVE  /\ syncSources(obs) \in Sources
         /\ gaSource.gen <= syncSources(obs).gen /\ obs.gen <= syncSources(obs).gen
         /\ syncSources(obs).gen = gaSource.gen \/ syncSources(obs).gen = obs.gen
         /\ gaSource.access = "denied" /\ syncSources(obs).gen = gaSource.gen =>
              syncSources(obs).access = "denied"
         /\ syncSources(obs).access = "available" /\ ~syncSources(obs).listing =>
              gaSource.access = "available" /\ ~gaSource.listing
<1> PICK a : a = obs.cap["checksRead"]
  OBVIOUS
<1>1. a \in Caps /\ obs.gen \in Nat
  BY DEF Observations, Operations
<1>2. gaSource.gen \in Int /\ gaSource.listing \in BOOLEAN /\ gaSource.access \in Caps
  BY DEF Sources
<1> PICK fresh : fresh = [gen |-> obs.gen, access |-> a, unread |-> 0,
                          listing |-> gaSource.access # a \/ gaSource.listing]
  OBVIOUS
<1>3. fresh \in Sources /\ fresh.gen = obs.gen /\ fresh.access = a
      /\ (fresh.listing <=> gaSource.access # a \/ gaSource.listing)
  <2> PICK l : l = (gaSource.access # a \/ gaSource.listing)
    OBVIOUS
  <2>1. l \in BOOLEAN /\ (l <=> gaSource.access # a \/ gaSource.listing)
    BY <1>2
  <2>2. fresh = [gen |-> obs.gen, access |-> a, unread |-> 0, listing |-> l]
    OBVIOUS
  <2>3. fresh.gen = obs.gen /\ fresh.access = a /\ fresh.listing = l
    BY <2>2
  <2>4. obs.gen \in Int
    BY <1>1
  <2>5. fresh \in Sources
    BY <1>1, <2>1, <2>2, <2>4 DEF Sources
  <2> QED
    BY <2>1, <2>3, <2>5
<1>4. syncSources(obs) = IF \/ gaSource.gen < obs.gen
                            \/ gaSource.gen = obs.gen /\ a = "denied" /\ gaSource.access # "denied"
                         THEN fresh ELSE gaSource
  BY DEF syncSources
<1> QED
  BY <1>1, <1>2, <1>3, <1>4

LEMMA SourceBecomesFits ==
  ASSUME AccessInv, NEW s \in Sources, SourceBecomes(s), gaSource.gen <= s.gen, s.gen <= gaSeq,
         gaSource.access = "denied" /\ s.gen = gaSource.gen => s.access = "denied"
  PROVE  /\ gaSource' = s /\ SourceMoves /\ gaClosed' \in Nat
         /\ s.access = "available" => gaClosed' = gaClosed
<1>1. gaClosed \in Nat
  BY DEF AccessInv, AccessTyped
<1> QED
  BY <1>1 DEF SourceBecomes, SourceMoves

(* The next state, part by part *)

SourceGood ==
  /\ gaSource' \in Sources /\ gaClosed' \in Nat /\ gaListed' \in Int
  /\ SourceMoves /\ SourceFits'

StoredGood == gaStored' \in Observations /\ ObservationFits(gaStored)'

PendingGood ==
  /\ gaPending' \in [AccessHosts -> Preflights]
  /\ (\A h \in AccessHosts : PreflightFits(gaPending[h]))'

RunsGood ==
  /\ gaRun' \in [AccessRunners -> AccessRuns]
  /\ (\A r \in AccessRunners : AccessRunFits(gaRun[r]))'

CountsGood == gaChanges' \in Nat /\ gaFaults' \in Nat /\ gaChanges' + gaFaults' <= MaxAccessMoves

GrantsGood ==
  /\ gaGrants' \subseteq Operations /\ gaLacked' \subseteq Operations
  /\ gaLacked \subseteq gaLacked' /\ (Operations \ gaGrants \subseteq gaLacked)'

SeqGood == gaSeq' \in Nat /\ gaSeq <= gaSeq'

LEMMA AccessInvFrom ==
  ASSUME SourceGood, StoredGood, PendingGood, RunsGood, CountsGood, GrantsGood, SeqGood
  PROVE  AccessInv'
BY DEF SourceGood, StoredGood, PendingGood, RunsGood, CountsGood, GrantsGood, SeqGood, AccessInv,
       AccessTyped

LEMMA AccessMovesOn ==
  ASSUME AccessInv, SourceGood, SeqGood, gaLacked \subseteq gaLacked'
  PROVE  AccessOnward /\ AccessNumbers
BY DEF AccessInv, AccessTyped, SourceGood, SeqGood, AccessOnward, AccessNumbers

LEMMA GrantsKept ==
  ASSUME AccessInv, UNCHANGED <<gaGrants, gaLacked>>
  PROVE  GrantsGood
BY DEF AccessInv, AccessTyped, GrantsGood

LEMMA CountsKept ==
  ASSUME AccessInv, UNCHANGED gaChanges, gaFaults' = gaFaults \/ AccessFault
  PROVE  CountsGood
<1>1. gaChanges \in Nat /\ gaFaults \in Nat /\ gaChanges + gaFaults <= MaxAccessMoves
      /\ MaxAccessMoves \in Nat
  BY AccessAssumption DEF AccessInv, AccessTyped
<1> QED
  BY <1>1 DEF CountsGood, AccessFault

LEMMA SeqKept ==
  ASSUME AccessInv, UNCHANGED gaSeq
  PROVE  SeqGood
BY DEF AccessInv, AccessTyped, SeqGood

LEMMA StoredKept ==
  ASSUME AccessInv, AccessOnward, AccessNumbers, UNCHANGED gaStored
  PROVE  StoredGood
<1> PICK obs : obs = gaStored
  OBVIOUS
<1>1. obs \in Observations /\ ObservationFits(obs)
  BY DEF AccessInv, AccessTyped
<1>2. ObservationFits(obs)'
  BY <1>1, ObservationKept
<1> QED
  BY <1>1, <1>2 DEF StoredGood, ObservationFits

LEMMA PendingKept ==
  ASSUME AccessInv, AccessOnward, AccessNumbers, UNCHANGED gaPending
  PROVE  PendingGood
<1>1. gaPending' \in [AccessHosts -> Preflights]
  BY DEF AccessInv, AccessTyped
<1>2. ASSUME NEW h \in AccessHosts
      PROVE  PreflightFits(gaPending[h])'
  <2> PICK entry : entry = gaPending[h]
    OBVIOUS
  <2>1. entry \in Preflights /\ PreflightFits(entry)
    BY DEF AccessInv, AccessTyped
  <2>2. PreflightFits(entry)'
    BY <2>1, PreflightKept
  <2> QED
    BY <2>2 DEF PreflightFits
<1> QED
  BY <1>1, <1>2 DEF PendingGood

\* One entry becomes another one that fits.
LEMMA PendingChanged ==
  ASSUME AccessInv, AccessOnward, AccessNumbers, NEW k \in AccessHosts, NEW new \in Preflights,
         gaPending' = [gaPending EXCEPT ![k] = new], PreflightFits(new)'
  PROVE  PendingGood
<1>1. gaPending \in [AccessHosts -> Preflights]
  BY DEF AccessInv, AccessTyped
<1>2. gaPending' \in [AccessHosts -> Preflights]
  BY <1>1
<1>3. ASSUME NEW h \in AccessHosts
      PROVE  PreflightFits(gaPending[h])'
  <2>1. CASE h = k
    <3>1. gaPending'[h] = new
      BY <1>1, <2>1
    <3> QED
      BY <3>1 DEF PreflightFits
  <2>2. CASE h # k
    <3> PICK entry : entry = gaPending[h]
      OBVIOUS
    <3>1. entry \in Preflights /\ PreflightFits(entry)
      BY <1>1 DEF AccessInv
    <3>2. PreflightFits(entry)'
      BY <3>1, PreflightKept
    <3>3. gaPending'[h] = entry
      BY <1>1, <2>2
    <3> QED
      BY <3>2, <3>3 DEF PreflightFits
  <2> QED
    BY <2>1, <2>2
<1> QED
  BY <1>2, <1>3 DEF PendingGood

LEMMA RunPrimed ==
  ASSUME NEW r \in AccessRunners, NEW run, gaRun'[r] = run, AccessRunFits(run)'
  PROVE  AccessRunFits(gaRun[r])'
BY DEF AccessRunFits, ObservationFits

LEMMA RunsKept ==
  ASSUME AccessInv, AccessOnward, AccessNumbers, NEW r \in AccessRunners, gaRun'[r] = gaRun[r]
  PROVE  AccessRunFits(gaRun[r])'
<1> PICK run : run = gaRun[r]
  OBVIOUS
<1>1. run \in AccessRuns /\ AccessRunFits(run)
  BY DEF AccessInv, AccessTyped
<1>2. AccessRunFits(run)'
  BY <1>1, AccessRunKept
<1> QED
  BY <1>2, RunPrimed

LEMMA AllRunsKept ==
  ASSUME AccessInv, AccessOnward, AccessNumbers, UNCHANGED gaRun
  PROVE  RunsGood
<1>1. gaRun' \in [AccessRunners -> AccessRuns]
  BY DEF AccessInv, AccessTyped
<1> QED
  BY <1>1, RunsKept DEF RunsGood

LEMMA RunChanged ==
  ASSUME AccessInv, AccessOnward, AccessNumbers, NEW r \in AccessRunners, NEW run \in AccessRuns,
         RunGoes(r, run), AccessRunFits(run)'
  PROVE  RunsGood
<1>1. gaRun \in [AccessRunners -> AccessRuns] /\ gaRun' = [gaRun EXCEPT ![r] = run]
  BY DEF AccessInv, AccessTyped, RunGoes
<1>2. gaRun' \in [AccessRunners -> AccessRuns]
  BY <1>1
<1>3. ASSUME NEW x \in AccessRunners
      PROVE  AccessRunFits(gaRun[x])'
  <2>1. CASE x = r
    BY <1>1, <2>1, RunPrimed
  <2>2. CASE x # r
    BY <1>1, <2>2, RunsKept
  <2> QED
    BY <2>1, <2>2
<1> QED
  BY <1>2, <1>3 DEF RunsGood

\* A sync, by whatever observation: the source still fits.
LEMMA SourceSynced ==
  ASSUME AccessInv, NEW obs \in Observations, obs.gen <= gaSeq, SourceBecomes(syncSources(obs)),
         gaListed' = gaListed, gaSeq' = gaSeq
  PROVE  SourceGood
<1> PICK s : s = syncSources(obs)
  OBVIOUS
<1>1. gaSource \in Sources /\ gaSource.gen \in Int /\ obs.gen \in Nat /\ gaSeq \in Nat
      /\ gaClosed \in Nat /\ gaListed \in Int
  BY DEF AccessInv, AccessTyped, Sources, Observations
<1>2. /\ s \in Sources /\ gaSource.gen <= s.gen
      /\ s.gen = gaSource.gen \/ s.gen = obs.gen
      /\ gaSource.access = "denied" /\ s.gen = gaSource.gen => s.access = "denied"
      /\ s.access = "available" /\ ~s.listing => gaSource.access = "available" /\ ~gaSource.listing
  BY <1>1, SyncFits
<1>3. /\ -1 <= gaSource.gen /\ gaSource.gen <= gaSeq /\ -1 <= gaListed /\ gaListed <= gaClosed
      /\ gaSource.access = "available" /\ ~gaSource.listing => gaListed = gaClosed
  BY DEF AccessInv, SourceFits, CompleteMeansListed
<1>4. s.gen \in Int /\ s.gen <= gaSeq
  BY <1>1, <1>2, <1>3 DEF Sources
<1>5. /\ gaSource' = s /\ SourceMoves /\ gaClosed' \in Nat
      /\ s.access = "available" => gaClosed' = gaClosed
  BY <1>2, <1>4, SourceBecomesFits
<1>6. gaClosed <= gaClosed'
  BY <1>5 DEF SourceMoves
<1> QED
  BY <1>1, <1>2, <1>3, <1>4, <1>5, <1>6 DEF SourceGood, SourceFits, CompleteMeansListed

LEMMA SourceStays ==
  ASSUME AccessInv, UNCHANGED <<gaSource, gaClosed, gaListed>>, gaSeq' \in Nat, gaSeq <= gaSeq'
  PROVE  SourceGood
<1>1. gaSource \in Sources /\ gaSource.gen \in Int /\ gaSeq \in Nat /\ gaClosed \in Nat
      /\ gaListed \in Int
  BY DEF AccessInv, AccessTyped, Sources
<1> QED
  BY <1>1 DEF AccessInv, SourceGood, SourceFits, CompleteMeansListed, SourceMoves

(* The stored observation *)

LEMMA MergedFits ==
  ASSUME AccessInv, NEW obs \in Observations, ObservationFits(obs)
  PROVE  Merged(obs) \in Observations /\ ObservationFits(Merged(obs))
<1> PICK cap : cap = [o \in Operations |-> IF obs.cap[o] = "unknown" /\ gaStored.cap[o] = "denied"
                                             THEN "denied" ELSE obs.cap[o]]
  OBVIOUS
<1>1. obs.gen \in Nat /\ obs.gen <= gaSeq /\ obs.cap \in [Operations -> Caps]
  BY DEF Observations, ObservationFits
<1>2. \A o \in Operations : cap[o] = "denied" => obs.cap[o] = "denied" \/ gaStored.cap[o] = "denied"
  OBVIOUS
<1>3. \A o \in Operations : obs.cap[o] = "denied" \/ gaStored.cap[o] = "denied" => o \in gaLacked
  BY DEF AccessInv, ObservationFits
<1>4. cap \in [Operations -> Caps]
  BY <1>1 DEF Caps
<1>5. Merged(obs) = [gen |-> obs.gen, cap |-> cap]
  BY DEF Merged
<1>6. Merged(obs).gen = obs.gen /\ Merged(obs).cap = cap
  BY <1>5
<1>7. Merged(obs) \in Observations
  BY <1>1, <1>4, <1>5 DEF Observations
<1> QED
  BY <1>1, <1>2, <1>3, <1>6, <1>7 DEF ObservationFits

LEMMA FanOutGood ==
  ASSUME AccessInv, NEW obs \in Observations, ObservationFits(obs), FanOut(obs),
         UNCHANGED <<gaSeq, gaLacked>>
  PROVE  SourceGood /\ StoredGood
<1>1. gaStored' = obs /\ UNCHANGED gaListed
  BY DEF FanOut
<1>2. StoredGood
  BY <1>1 DEF StoredGood, ObservationFits
<1>3. SourceGood
  <2>1. CASE gaSource = NoSource
    <3>1. SourceBecomes(gaSource)
      BY <2>1 DEF FanOut
    <3>2. UNCHANGED <<gaSource, gaClosed, gaListed>> /\ gaSeq' \in Nat /\ gaSeq <= gaSeq'
      BY <1>1, <3>1 DEF SourceBecomes, AccessInv, AccessTyped
    <3> QED
      BY <3>2, SourceStays
  <2>2. CASE gaSource # NoSource
    <3>1. SourceBecomes(syncSources(obs)) /\ obs.gen <= gaSeq
      BY <2>2 DEF FanOut, ObservationFits
    <3> QED
      BY <1>1, <3>1, SourceSynced
  <2> QED
    BY <2>1, <2>2
<1> QED
  BY <1>2, <1>3

LEMMA SourceUnchanged ==
  ASSUME AccessInv, UNCHANGED <<gaStored, gaSource, gaClosed, gaListed>>, SeqGood, GrantsGood
  PROVE  SourceGood /\ StoredGood
<1>1. SourceGood
  BY SourceStays DEF SeqGood
<1>2. AccessOnward /\ AccessNumbers
  BY <1>1, AccessMovesOn DEF GrantsGood
<1> QED
  BY <1>1, <1>2, StoredKept

LEMMA ObservationSaved ==
  ASSUME AccessInv, NEW obs \in Observations, ObservationFits(obs),
         saveGithubCapabilityObservation(obs), UNCHANGED <<gaSeq, gaGrants, gaLacked>>
  PROVE  SourceGood /\ StoredGood
<1>1. CASE gaStored.gen < obs.gen
  <2>1. Merged(obs) \in Observations /\ ObservationFits(Merged(obs))
    BY MergedFits
  <2>2. FanOut(Merged(obs))
    BY <1>1 DEF saveGithubCapabilityObservation
  <2> QED
    BY <2>1, <2>2, FanOutGood
<1>2. CASE ~(gaStored.gen < obs.gen)
  <2>1. UNCHANGED <<gaStored, gaSource, gaClosed, gaListed>>
    BY <1>2 DEF saveGithubCapabilityObservation
  <2> QED
    BY <2>1, SourceUnchanged, SeqKept, GrantsKept
<1> QED
  BY <1>1, <1>2

LEMMA DenialRecorded ==
  ASSUME AccessInv, NEW gen, NEW o \in Operations, o \in gaLacked,
         recordGithubCapabilityDenial(gen, o), UNCHANGED <<gaSeq, gaGrants, gaLacked>>
  PROVE  SourceGood /\ StoredGood
<1>1. CASE gaStored.gen = gen /\ gen > 0
  <2> PICK obs : obs = [gaStored EXCEPT !.cap[o] = "denied"]
    OBVIOUS
  <2>1. gaStored \in [gen : Nat, cap : [Operations -> Caps]]
    BY DEF AccessInv, AccessTyped, Observations
  <2>2. obs \in [gen : Nat, cap : [Operations -> Caps]] /\ obs.gen = gaStored.gen
    BY <2>1 DEF Caps
  <2>3. \A x \in Operations : obs.cap[x] = IF x = o THEN "denied" ELSE gaStored.cap[x]
    BY <2>1
  <2>4. obs \in Observations
    BY <2>2 DEF Observations
  <2>5. ObservationFits(obs)
    BY <2>2, <2>3 DEF AccessInv, ObservationFits
  <2>6. FanOut(obs)
    BY <1>1 DEF recordGithubCapabilityDenial
  <2> QED
    BY <2>4, <2>5, <2>6, FanOutGood
<1>2. CASE ~(gaStored.gen = gen /\ gen > 0)
  <2>1. UNCHANGED <<gaStored, gaSource, gaClosed, gaListed>>
    BY <1>2 DEF recordGithubCapabilityDenial
  <2> QED
    BY <2>1, SourceUnchanged, SeqKept, GrantsKept
<1> QED
  BY <1>1, <1>2

(* The answers of a preflight *)

LEMMA PermissionsFit ==
  ASSUME AccessInv, NEW gen \in Nat, gen <= gaSeq, NEW permissions \in SUBSET Operations,
         Operations \ permissions \subseteq gaLacked
  PROVE  /\ installationCapabilitiesFromPermissions(gen, permissions) \in Observations
         /\ ObservationFits(installationCapabilitiesFromPermissions(gen, permissions))
<1> PICK cap : cap = [o \in Operations |-> IF o \in permissions THEN "available" ELSE "denied"]
  OBVIOUS
<1> PICK obs : obs = installationCapabilitiesFromPermissions(gen, permissions)
  OBVIOUS
<1>1. obs = [gen |-> gen, cap |-> cap]
  BY DEF installationCapabilitiesFromPermissions
<1>2. cap \in [Operations -> Caps]
  BY DEF Caps
<1>3. obs \in Observations /\ obs.gen = gen /\ obs.cap = cap
  BY <1>1, <1>2 DEF Observations
<1>4. \A o \in Operations : cap[o] = "denied" => o \in gaLacked
  OBVIOUS
<1> QED
  BY <1>3, <1>4 DEF ObservationFits

LEMMA UnknownFits ==
  ASSUME AccessInv, NEW gen \in Nat, gen <= gaSeq
  PROVE  /\ unavailableObservation(gen) \in Observations
         /\ ObservationFits(unavailableObservation(gen))
<1> PICK cap : cap = [o \in Operations |-> "unknown"]
  OBVIOUS
<1> PICK obs : obs = unavailableObservation(gen)
  OBVIOUS
<1>1. obs = [gen |-> gen, cap |-> cap]
  BY DEF unavailableObservation
<1>2. cap \in [Operations -> Caps] /\ \A o \in Operations : cap[o] = "unknown"
  BY DEF Caps
<1>3. obs \in Observations /\ obs.gen = gen /\ obs.cap = cap
  BY <1>1, <1>2 DEF Observations
<1> QED
  BY <1>2, <1>3 DEF ObservationFits

LEMMA ObservationOf ==
  ASSUME NEW gen \in Nat, NEW cap \in [Operations -> Caps]
  PROVE  [gen |-> gen, cap |-> cap] \in Observations
BY DEF Observations

LEMMA NothingFits ==
  ASSUME AccessInv
  PROVE  NoObservation \in Observations /\ ObservationFits(NoObservation)
<1> PICK cap : cap = [o \in Operations |-> "unknown"]
  OBVIOUS
<1>1. NoObservation = [gen |-> 0, cap |-> cap]
  BY DEF NoObservation
<1>2. cap \in [Operations -> Caps] /\ \A o \in Operations : cap[o] = "unknown"
  BY DEF Caps
<1>3. NoObservation \in Observations /\ NoObservation.gen = 0 /\ NoObservation.cap = cap
  BY <1>1, <1>2 DEF Observations
<1>4. gaSeq \in Nat
  BY DEF AccessInv, AccessTyped
<1> QED
  BY <1>2, <1>3, <1>4 DEF ObservationFits

(* Steps that change the execution of one runner *)

LEMMA OneRunStep ==
  ASSUME AccessInv, SourceGood, StoredGood, PendingGood, CountsGood, SeqGood,
         UNCHANGED <<gaGrants, gaLacked>>,
         NEW r \in AccessRunners, NEW run \in AccessRuns, RunGoes(r, run), AccessRunFits(run)'
  PROVE  AccessInv' /\ SourceMoves
<1>1. GrantsGood
  BY GrantsKept
<1>2. AccessOnward /\ AccessNumbers
  BY AccessMovesOn
<1>3. RunsGood
  BY <1>2, RunChanged
<1> QED
  BY <1>1, <1>3, AccessInvFrom DEF SourceGood

\* ... where neither the grants nor what is kept of them changes.
LEMMA QuietRunStep ==
  ASSUME AccessInv, NEW r \in AccessRunners, NEW run \in AccessRuns, RunGoes(r, run),
         AccessRunFits(run),
         UNCHANGED <<gaGrants, gaLacked, gaChanges, gaFaults, gaSeq, gaStored, gaSource, gaClosed,
                     gaListed, gaPending>>
  PROVE  AccessInv' /\ SourceMoves
<1>1. GrantsGood /\ SeqGood /\ CountsGood
  BY GrantsKept, SeqKept, CountsKept
<1>2. SourceGood /\ StoredGood
  BY <1>1, SourceUnchanged
<1>3. AccessOnward /\ AccessNumbers
  BY <1>1, <1>2, AccessMovesOn
<1>4. PendingGood
  BY <1>3, PendingKept
<1>5. AccessRunFits(run)'
  BY <1>3, AccessRunKept
<1> QED
  BY <1>1, <1>2, <1>4, <1>5, OneRunStep

LEMMA RestingFits ==
  ASSUME AccessInv, NEW run \in AccessRuns
  PROVE  Rest(run) \in AccessRuns /\ AccessRunFits(Rest(run))
<1> PICK rest : rest = Rest(run)
  OBVIOUS
<1>1. NoObservation \in Observations /\ ObservationFits(NoObservation)
  BY NothingFits
<1>2. run.runs \in Nat /\ gaClosed \in Nat
  BY DEF AccessRuns, AccessInv, AccessTyped
<1> PICK none : none = NoObservation
  OBVIOUS
<1>3. rest = [at |-> "idle", runs |-> run.runs, misses |-> 0, since |-> 0, obs |-> none,
              availGen |-> 0, seen |-> "none", seenAt |-> 0, abort |-> FALSE]
  BY DEF Rest, RestingRun
<1>4. rest.at = "idle" /\ rest.seenAt = 0 /\ rest.obs = NoObservation
  BY <1>3
<1>5. rest \in AccessRuns
  BY <1>1, <1>2, <1>3 DEF AccessRuns, AccessPlaces
<1> QED
  BY <1>1, <1>2, <1>4, <1>5 DEF AccessRunFits

(* Steps that change no execution, or the executions that wait together *)

LEMMA QuietStep ==
  ASSUME AccessInv,
         UNCHANGED <<gaGrants, gaLacked, gaChanges, gaFaults, gaSeq, gaStored, gaSource, gaClosed,
                     gaListed, gaPending, gaRun>>
  PROVE  AccessInv' /\ SourceMoves
<1>1. GrantsGood /\ SeqGood /\ CountsGood
  BY GrantsKept, SeqKept, CountsKept
<1>2. SourceGood /\ StoredGood
  BY <1>1, SourceUnchanged
<1>3. AccessOnward /\ AccessNumbers
  BY <1>1, <1>2, AccessMovesOn
<1>4. PendingGood /\ RunsGood
  BY <1>3, PendingKept, AllRunsKept
<1> QED
  BY <1>1, <1>2, <1>4, AccessInvFrom DEF SourceGood

LEMMA GrantStep ==
  ASSUME AccessInv, NEW o \in Operations, GrantChanges(o)
  PROVE  AccessInv' /\ SourceMoves
<1>1. GrantsGood
  <2>1. gaGrants' \subseteq Operations
    BY DEF GrantChanges, AccessInv, AccessTyped
  <2> QED
    BY <2>1 DEF GrantChanges, AccessInv, AccessTyped, GrantsGood
<1>2. SeqGood
  BY SeqKept DEF GrantChanges
<1>3. CountsGood
  <2>1. gaChanges \in Nat /\ gaFaults \in Nat /\ MaxAccessMoves \in Nat
    BY AccessAssumption DEF AccessInv, AccessTyped
  <2> QED
    BY <2>1 DEF GrantChanges, CountsGood
<1>4. UNCHANGED <<gaStored, gaSource, gaClosed, gaListed, gaPending, gaRun>>
  BY DEF GrantChanges
<1>5. SourceGood /\ StoredGood
  BY <1>1, <1>2, <1>4, SourceUnchanged
<1>6. AccessOnward /\ AccessNumbers
  BY <1>1, <1>2, <1>5, AccessMovesOn DEF GrantsGood
<1>7. PendingGood /\ RunsGood
  BY <1>4, <1>6, PendingKept, AllRunsKept
<1> QED
  BY <1>1, <1>2, <1>3, <1>5, <1>7, AccessInvFrom DEF SourceGood

LEMMA NoPreflightFits ==
  ASSUME AccessInv
  PROVE  NoPreflight \in Preflights /\ PreflightFits(NoPreflight)
<1>1. NoPreflight \in Preflights
  BY DEF NoPreflight, Preflights
<1>2. NoPreflight.gen = 0 /\ NoPreflight.at = "none"
  BY DEF NoPreflight
<1>3. gaSeq \in Nat
  BY DEF AccessInv, AccessTyped
<1> QED
  BY <1>1, <1>2, <1>3 DEF PreflightFits

AnsweredRun(run, at, obs) == [run EXCEPT !.at = at, !.obs = obs]

LEMMA AnsweredFits ==
  ASSUME AccessInv, NEW run \in AccessRuns, AccessRunFits(run),
         NEW at \in AccessPlaces \ {"denied", "stopped", "listing", "read"},
         NEW obs \in Observations, ObservationFits(obs)
  PROVE  AnsweredRun(run, at, obs) \in AccessRuns /\ AccessRunFits(AnsweredRun(run, at, obs))
<1> PICK new : new = AnsweredRun(run, at, obs)
  OBVIOUS
<1>1. new \in AccessRuns
  BY DEF AccessRuns, AnsweredRun
<1>2. new.at = at /\ new.obs = obs /\ new.seenAt = run.seenAt
  BY DEF AccessRuns, AnsweredRun
<1> QED
  BY <1>1, <1>2 DEF AccessRunFits

\* An answer for all who wait at one preflight.
LEMMA ResolvedGood ==
  ASSUME AccessInv, AccessOnward, AccessNumbers, NEW h \in AccessHosts,
         NEW at \in AccessPlaces \ {"denied", "stopped", "listing", "read"},
         NEW obs \in Observations, ObservationFits(obs), Resolved(h, at, obs)
  PROVE  PendingGood /\ RunsGood
<1>1. PendingGood
  <2> PICK none : none = NoPreflight
    OBVIOUS
  <2>1. none \in Preflights /\ PreflightFits(none)
    BY NoPreflightFits
  <2>2. PreflightFits(none)'
    BY <2>1, PreflightKept
  <2>3. gaPending' = [gaPending EXCEPT ![h] = none]
    BY DEF Resolved
  <2> QED
    BY <2>1, <2>2, <2>3, PendingChanged
<1>2. ASSUME NEW r \in AccessRunners
      PROVE  gaRun'[r] = gaRun[r] \/ gaRun'[r] = AnsweredRun(gaRun[r], at, obs)
  BY DEF Resolved, AnsweredRun
<1>3. ASSUME NEW r \in AccessRunners
      PROVE  gaRun'[r] \in AccessRuns /\ AccessRunFits(gaRun[r])'
  <2>1. gaRun[r] \in AccessRuns /\ AccessRunFits(gaRun[r])
    BY DEF AccessInv, AccessTyped
  <2>2. CASE gaRun'[r] = gaRun[r]
    BY <2>1, <2>2, RunsKept
  <2>3. CASE gaRun'[r] = AnsweredRun(gaRun[r], at, obs)
    <3> PICK run : run = AnsweredRun(gaRun[r], at, obs)
      OBVIOUS
    <3>1. run \in AccessRuns /\ AccessRunFits(run)
      BY <2>1, AnsweredFits
    <3>2. AccessRunFits(run)'
      BY <3>1, AccessRunKept
    <3> QED
      BY <2>3, <3>1, <3>2, RunPrimed
  <2> QED
    BY <1>2, <2>2, <2>3
<1>4. gaRun' \in [AccessRunners -> AccessRuns]
  <2> DEFINE next == gaRun'
  <2>1. next = [r \in AccessRunners |-> next[r]]
    BY DEF Resolved
  <2>2. \A r \in AccessRunners : next[r] \in AccessRuns
    BY <1>3
  <2> HIDE DEF next
  <2>3. next \in [AccessRunners -> AccessRuns]
    BY <2>1, <2>2
  <2> QED
    BY <2>3 DEF next
<1> QED
  BY <1>1, <1>3, <1>4 DEF RunsGood

LEMMA ResolvedStep ==
  ASSUME AccessInv, NEW h \in AccessHosts,
         NEW at \in AccessPlaces \ {"denied", "stopped", "listing", "read"},
         NEW obs \in Observations, ObservationFits(obs), Resolved(h, at, obs),
         gaFaults' = gaFaults \/ AccessFault,
         UNCHANGED <<gaGrants, gaLacked, gaChanges, gaSeq, gaStored, gaSource, gaClosed, gaListed>>
  PROVE  AccessInv' /\ SourceMoves
<1>1. GrantsGood /\ SeqGood /\ CountsGood
  BY GrantsKept, SeqKept, CountsKept
<1>2. SourceGood /\ StoredGood
  BY <1>1, SourceUnchanged
<1>3. AccessOnward /\ AccessNumbers
  BY <1>1, <1>2, AccessMovesOn
<1>4. PendingGood /\ RunsGood
  BY <1>3, ResolvedGood
<1> QED
  BY <1>1, <1>2, <1>4, AccessInvFrom DEF SourceGood

LEMMA EntryTyped ==
  ASSUME AccessInv, NEW h \in AccessHosts
  PROVE  /\ gaPending[h] \in Preflights /\ PreflightFits(gaPending[h])
         /\ gaPending[h].gen \in Nat /\ gaPending[h].gen <= gaSeq
         /\ gaPending[h].meta \subseteq Operations /\ gaPending[h].waiters \subseteq AccessRunners
BY DEF AccessInv, AccessTyped, Preflights, PreflightFits

LEMMA LookupStep ==
  ASSUME AccessInv, NEW h \in AccessHosts, lookupRepositoryInstallation(h)
  PROVE  AccessInv' /\ SourceMoves
<1> PICK entry : entry = gaPending[h]
  OBVIOUS
<1>1. entry \in Preflights /\ entry.gen \in Nat /\ entry.gen <= gaSeq
  BY EntryTyped
<1>2. gaGrants \in SUBSET Operations /\ Operations \ gaGrants \subseteq gaLacked
  BY DEF AccessInv, AccessTyped
<1>3. UNCHANGED <<gaGrants, gaLacked, gaChanges, gaFaults, gaSeq, gaStored, gaSource, gaClosed,
                  gaListed>>
  BY DEF lookupRepositoryInstallation
<1>4. CASE Resolved(h, "answered", installationCapabilitiesFromPermissions(entry.gen, gaGrants))
  <2> PICK obs : obs = installationCapabilitiesFromPermissions(entry.gen, gaGrants)
    OBVIOUS
  <2>1. obs \in Observations /\ ObservationFits(obs)
    BY <1>1, <1>2, PermissionsFit
  <2>2. Resolved(h, "answered", obs)
    BY <1>4
  <2>3. "answered" \in AccessPlaces \ {"denied", "stopped", "listing", "read"}
    BY DEF AccessPlaces
  <2> QED
    BY <1>3, <2>1, <2>2, <2>3, ResolvedStep
<1>5. CASE /\ gaPending' = [gaPending EXCEPT ![h] = [entry EXCEPT !.at = "mint", !.meta = gaGrants]]
           /\ UNCHANGED gaRun
  <2> PICK new : new = [entry EXCEPT !.at = "mint", !.meta = gaGrants]
    OBVIOUS
  <2>1. new \in Preflights /\ new.gen = entry.gen /\ new.meta = gaGrants
    BY <1>1, <1>2 DEF Preflights
  <2>2. PreflightFits(new)
    BY <1>1, <1>2, <2>1 DEF PreflightFits
  <2>3. gaPending' = [gaPending EXCEPT ![h] = new]
    BY <1>5
  <2>4. GrantsGood /\ SeqGood /\ CountsGood
    BY <1>3, GrantsKept, SeqKept, CountsKept
  <2>5. SourceGood /\ StoredGood
    BY <1>3, <2>4, SourceUnchanged
  <2>6. AccessOnward /\ AccessNumbers
    BY <1>3, <2>4, <2>5, AccessMovesOn
  <2>7. PreflightFits(new)'
    BY <2>1, <2>2, <2>6, PreflightKept
  <2>8. PendingGood /\ RunsGood
    BY <1>5, <2>1, <2>3, <2>6, <2>7, PendingChanged, AllRunsKept
  <2> QED
    BY <2>4, <2>5, <2>8, AccessInvFrom DEF SourceGood
<1> QED
  BY <1>4, <1>5 DEF lookupRepositoryInstallation

LEMMA MintStep ==
  ASSUME AccessInv, NEW h \in AccessHosts, scopedToken(h)
  PROVE  AccessInv' /\ SourceMoves
<1> PICK entry : entry = gaPending[h]
  OBVIOUS
<1> PICK both : both = entry.meta \cap gaGrants
  OBVIOUS
<1>1. /\ entry \in Preflights /\ entry.gen \in Nat /\ entry.gen <= gaSeq
      /\ entry.meta \subseteq Operations /\ PreflightFits(entry) /\ entry.at = "mint"
  BY EntryTyped DEF scopedToken
<1>2. both \in SUBSET Operations /\ Operations \ both \subseteq gaLacked
  BY <1>1 DEF AccessInv, AccessTyped, PreflightFits
<1> PICK obs : obs = installationCapabilitiesFromPermissions(entry.gen, both)
  OBVIOUS
<1>3. obs \in Observations /\ ObservationFits(obs)
  BY <1>1, <1>2, PermissionsFit
<1>4. Resolved(h, "answered", obs)
  BY DEF scopedToken
<1>5. "answered" \in AccessPlaces \ {"denied", "stopped", "listing", "read"}
  BY DEF AccessPlaces
<1>6. UNCHANGED <<gaGrants, gaLacked, gaChanges, gaFaults, gaSeq, gaStored, gaSource, gaClosed,
                  gaListed>>
  BY DEF scopedToken
<1> QED
  BY <1>3, <1>4, <1>5, <1>6, ResolvedStep

LEMMA PreflightFailsStep ==
  ASSUME AccessInv, NEW h \in AccessHosts, PreflightFails(h)
  PROVE  AccessInv' /\ SourceMoves
<1> PICK gen : gen = gaPending[h].gen
  OBVIOUS
<1>1. gen \in Nat /\ gen <= gaSeq
  BY EntryTyped
<1>2. {"answered", "unavailable"} \subseteq AccessPlaces \ {"denied", "stopped", "listing", "read"}
  BY DEF AccessPlaces
<1>3. /\ AccessFault
      /\ UNCHANGED <<gaGrants, gaLacked, gaChanges, gaSeq, gaStored, gaSource, gaClosed, gaListed>>
  BY DEF PreflightFails
<1>4. CASE Resolved(h, "answered", unavailableObservation(gen))
  <2> PICK obs : obs = unavailableObservation(gen)
    OBVIOUS
  <2>1. obs \in Observations /\ ObservationFits(obs)
    BY <1>1, UnknownFits
  <2>2. Resolved(h, "answered", obs)
    BY <1>4
  <2> QED
    BY <1>2, <1>3, <2>1, <2>2, ResolvedStep
<1>5. CASE Resolved(h, "unavailable", NoObservation)
  <2>1. NoObservation \in Observations /\ ObservationFits(NoObservation)
    BY NothingFits
  <2> QED
    BY <1>2, <1>3, <1>5, <2>1, ResolvedStep
<1> QED
  BY <1>4, <1>5 DEF PreflightFails

(* The steps of one runner *)

LEMMA RunTyped ==
  ASSUME AccessInv, NEW r \in AccessRunners
  PROVE  /\ gaRun[r] \in AccessRuns /\ AccessRunFits(gaRun[r])
         /\ gaRun[r].obs \in Observations /\ ObservationFits(gaRun[r].obs)
         /\ gaRun[r].seenAt \in Nat /\ gaRun[r].seenAt <= gaClosed
         /\ gaRun[r].availGen \in Nat /\ gaRun[r].runs \in Nat /\ gaRun[r].misses \in Nat
BY DEF AccessInv, AccessTyped, AccessRuns, AccessRunFits

\* An execution that is nowhere special fits when its observation does.
LEMMA RunFitsNext ==
  ASSUME NEW run \in AccessRuns, ObservationFits(run.obs)', run.seenAt <= gaClosed',
         run.at \notin {"denied", "stopped", "listing", "read"}
  PROVE  AccessRunFits(run)'
<1>1. ASSUME NEW obs, obs = run.obs
      PROVE  ObservationFits(obs)'
  BY <1>1 DEF ObservationFits
<1> QED
  BY DEF AccessRunFits

MovedRun(run, at, misses) == [run EXCEPT !.at = at, !.misses = misses]

LEMMA MovedFits ==
  ASSUME AccessInv, NEW run \in AccessRuns, AccessRunFits(run),
         NEW at \in AccessPlaces \ {"stopped", "listing", "read"}, NEW misses \in Nat,
         at = "denied" => "essential" \in gaLacked
  PROVE  MovedRun(run, at, misses) \in AccessRuns /\ AccessRunFits(MovedRun(run, at, misses))
<1> PICK new : new = MovedRun(run, at, misses)
  OBVIOUS
<1>1. new \in AccessRuns
  BY DEF AccessRuns, MovedRun
<1>2. new.at = at /\ new.obs = run.obs /\ new.seenAt = run.seenAt
  BY DEF AccessRuns, MovedRun
<1> QED
  BY <1>1, <1>2 DEF AccessRunFits

LEMMA OnlyPlaceMoved ==
  ASSUME NEW run \in AccessRuns, NEW at
  PROVE  [run EXCEPT !.at = at] = MovedRun(run, at, run.misses)
BY DEF AccessRuns, MovedRun

LEMMA LoadStep ==
  ASSUME AccessInv, NEW r \in AccessRunners, loadGithubCapabilityObservation(r)
  PROVE  AccessInv' /\ SourceMoves
<1> PICK run : run = gaRun[r]
  OBVIOUS
<1> PICK runs : runs = IF run.at = "idle" THEN run.runs + 1 ELSE run.runs
  OBVIOUS
<1> PICK since : since = gaChanges
  OBVIOUS
<1>1. run \in AccessRuns /\ run.seenAt \in Nat /\ run.seenAt <= gaClosed /\ runs \in Nat
  BY RunTyped
<1>2. since \in Nat /\ gaSeq \in Nat
  BY DEF AccessInv, AccessTyped
<1>3. UNCHANGED <<gaGrants, gaLacked, gaChanges, gaFaults, gaStored, gaSource, gaClosed, gaListed,
                  gaPending>>
  BY DEF loadGithubCapabilityObservation
<1>4. CASE /\ RunGoes(r, [run EXCEPT !.at = "policy", !.obs = gaStored, !.since = gaChanges,
                                     !.runs = IF run.at = "idle" THEN @ + 1 ELSE @])
           /\ UNCHANGED gaSeq
  <2> PICK obs : obs = gaStored
    OBVIOUS
  <2> PICK new : new = [run EXCEPT !.at = "policy", !.obs = obs, !.since = since, !.runs = runs]
    OBVIOUS
  <2>1. obs \in Observations /\ ObservationFits(obs)
    BY DEF AccessInv, AccessTyped
  <2>2. new \in AccessRuns
    BY <1>1, <1>2, <2>1 DEF AccessRuns, AccessPlaces
  <2>3. new.at = "policy" /\ new.obs = obs /\ new.seenAt = run.seenAt
    BY <1>1 DEF AccessRuns
  <2>4. AccessRunFits(new)
    BY <1>1, <2>1, <2>3 DEF AccessRunFits
  <2>5. RunGoes(r, new)
    BY <1>4
  <2> QED
    BY <1>3, <1>4, <2>2, <2>4, <2>5, QuietRunStep
<1>5. CASE /\ gaSeq' = gaSeq + 1
           /\ RunGoes(r, [run EXCEPT !.at = "numbered", !.since = gaChanges,
                            !.obs = [NoObservation EXCEPT !.gen = gaSeq + 1],
                            !.runs = IF run.at = "idle" THEN @ + 1 ELSE @])
  <2> PICK gen : gen = gaSeq + 1
    OBVIOUS
  <2> PICK cap : cap = [o \in Operations |-> "unknown"]
    OBVIOUS
  <2> PICK obs : obs = [NoObservation EXCEPT !.gen = gen]
    OBVIOUS
  <2> PICK new : new = [run EXCEPT !.at = "numbered", !.since = since, !.obs = obs, !.runs = runs]
    OBVIOUS
  <2>1. obs = [gen |-> gen, cap |-> cap]
    BY DEF NoObservation
  <2>2. cap \in [Operations -> Caps] /\ \A o \in Operations : cap[o] = "unknown"
    BY DEF Caps
  <2>3. obs \in Observations /\ obs.gen = gen /\ obs.cap = cap
    <3>1. gen \in Nat
      BY <1>2
    <3>2. obs.gen = gen /\ obs.cap = cap
      BY <2>1
    <3>3. obs \in Observations
      BY <2>1, <2>2, <3>1, ObservationOf
    <3> QED
      BY <3>2, <3>3
  <2>4. new \in AccessRuns
    BY <1>1, <1>2, <2>3 DEF AccessRuns, AccessPlaces
  <2>5. new.at = "numbered" /\ new.obs = obs /\ new.seenAt = run.seenAt
    BY <1>1 DEF AccessRuns
  <2>6. gen <= gaSeq'
    BY <1>2, <1>5
  <2>7. ObservationFits(new.obs)'
    BY <2>2, <2>3, <2>5, <2>6 DEF ObservationFits
  <2>8. AccessRunFits(new)'
    BY <1>1, <1>3, <2>4, <2>5, <2>7, RunFitsNext
  <2>9. SeqGood /\ GrantsGood /\ CountsGood
    BY <1>2, <1>3, <1>5, GrantsKept, CountsKept DEF SeqGood
  <2>10. SourceGood /\ StoredGood
    BY <1>3, <2>9, SourceUnchanged
  <2>11. AccessOnward /\ AccessNumbers
    BY <1>3, <2>9, <2>10, AccessMovesOn
  <2>12. PendingGood
    BY <1>3, <2>11, PendingKept
  <2>13. RunGoes(r, new)
    BY <1>5
  <2> QED
    BY <1>3, <2>4, <2>8, <2>9, <2>10, <2>12, <2>13, OneRunStep
<1> QED
  BY <1>4, <1>5 DEF loadGithubCapabilityObservation

LEMMA JoinStep ==
  ASSUME AccessInv, NEW r \in AccessRunners, preflight(r)
  PROVE  AccessInv' /\ SourceMoves
<1> PICK h : h = r.host
  OBVIOUS
<1> PICK entry : entry = gaPending[h]
  OBVIOUS
<1> PICK run : run = gaRun[r]
  OBVIOUS
<1>1. h \in AccessHosts
  BY DEF AccessHosts
<1>2. entry \in Preflights /\ PreflightFits(entry)
  BY <1>1, EntryTyped
<1>3. /\ run \in AccessRuns /\ AccessRunFits(run) /\ run.misses \in Nat
      /\ run.obs \in Observations /\ ObservationFits(run.obs)
  BY RunTyped
<1>4. UNCHANGED <<gaGrants, gaLacked, gaChanges, gaFaults, gaSeq, gaStored, gaSource, gaClosed,
                  gaListed>>
  BY DEF preflight
<1>5. GrantsGood /\ SeqGood /\ CountsGood
  BY <1>4, GrantsKept, SeqKept, CountsKept
<1>6. SourceGood /\ StoredGood
  BY <1>4, <1>5, SourceUnchanged
<1>7. AccessOnward /\ AccessNumbers
  BY <1>4, <1>5, <1>6, AccessMovesOn
<1>8. PendingGood
  <2> PICK joined : joined = [entry EXCEPT !.waiters = entry.waiters \cup {r}]
    OBVIOUS
  <2> PICK fresh : fresh = [gen |-> run.obs.gen, at |-> "lookup", waiters |-> {r}, meta |-> {}]
    OBVIOUS
  <2>1. joined \in Preflights /\ joined.gen = entry.gen /\ joined.at = entry.at
        /\ joined.meta = entry.meta
    BY <1>2 DEF Preflights
  <2>2. PreflightFits(joined)
    BY <1>2, <2>1 DEF PreflightFits
  <2>3. fresh \in Preflights /\ fresh.gen = run.obs.gen /\ fresh.at = "lookup"
    BY <1>3 DEF Preflights, Observations
  <2>4. PreflightFits(fresh)
    BY <1>3, <2>3 DEF PreflightFits, ObservationFits
  <2> PICK new : new = IF entry # NoPreflight THEN joined ELSE fresh
    OBVIOUS
  <2>5. new \in Preflights /\ PreflightFits(new)
    BY <2>1, <2>2, <2>3, <2>4
  <2>6. PreflightFits(new)'
    BY <1>7, <2>5, PreflightKept
  <2>7. gaPending' = [gaPending EXCEPT ![h] = new]
    BY DEF preflight
  <2> QED
    BY <1>1, <1>7, <2>5, <2>6, <2>7, PendingChanged
<1>9. PICK new : new = MovedRun(run, "waiting", run.misses)
  OBVIOUS
<1>10. new \in AccessRuns /\ AccessRunFits(new)
  BY <1>3, <1>9, MovedFits DEF AccessPlaces
<1>11. AccessRunFits(new)'
  BY <1>7, <1>10, AccessRunKept
<1>12. RunGoes(r, new)
  BY <1>3, <1>9, OnlyPlaceMoved DEF preflight
<1> QED
  BY <1>4, <1>5, <1>6, <1>8, <1>10, <1>11, <1>12, OneRunStep

LEMMA AbortStep ==
  ASSUME AccessInv, NEW r \in AccessRunners, AbortRunner(r)
  PROVE  AccessInv' /\ SourceMoves
<1> PICK h : h = r.host
  OBVIOUS
<1> PICK entry : entry = gaPending[h]
  OBVIOUS
<1> PICK run : run = gaRun[r]
  OBVIOUS
<1>1. h \in AccessHosts
  BY DEF AccessHosts
<1>2. entry \in Preflights /\ PreflightFits(entry)
  BY <1>1, EntryTyped
<1>3. run \in AccessRuns /\ AccessRunFits(run)
  BY RunTyped
<1>4. /\ AccessFault
      /\ UNCHANGED <<gaGrants, gaLacked, gaChanges, gaSeq, gaStored, gaSource, gaClosed, gaListed>>
  BY DEF AbortRunner
<1>5. GrantsGood /\ SeqGood /\ CountsGood
  BY <1>4, GrantsKept, SeqKept, CountsKept
<1>6. SourceGood /\ StoredGood
  BY <1>4, <1>5, SourceUnchanged
<1>7. AccessOnward /\ AccessNumbers
  BY <1>4, <1>5, <1>6, AccessMovesOn
<1>8. PendingGood
  <2> PICK left : left = [entry EXCEPT !.waiters = entry.waiters \ {r}]
    OBVIOUS
  <2>1. left \in Preflights /\ left.gen = entry.gen /\ left.at = entry.at /\ left.meta = entry.meta
    BY <1>2 DEF Preflights
  <2>2. PreflightFits(left)
    BY <1>2, <2>1 DEF PreflightFits
  <2> PICK new : new = IF entry.waiters = {r} THEN NoPreflight ELSE left
    OBVIOUS
  <2>3. new \in Preflights /\ PreflightFits(new)
    BY <2>1, <2>2, NoPreflightFits
  <2>4. PreflightFits(new)'
    BY <1>7, <2>3, PreflightKept
  <2>5. gaPending' = [gaPending EXCEPT ![h] = new]
    BY DEF AbortRunner, leavePreflight
  <2> QED
    BY <1>1, <1>7, <2>3, <2>4, <2>5, PendingChanged
<1>9. PICK new : new = [run EXCEPT !.at = "stopped", !.abort = TRUE]
  OBVIOUS
<1>10. new \in AccessRuns
  BY <1>3, <1>9 DEF AccessRuns, AccessPlaces
<1>11. new.at = "stopped" /\ new.abort /\ new.obs = run.obs /\ new.seenAt = run.seenAt
  BY <1>3, <1>9 DEF AccessRuns
<1>12. AccessRunFits(new)
  BY <1>3, <1>11 DEF AccessRunFits
<1>13. AccessRunFits(new)'
  BY <1>7, <1>10, <1>12, AccessRunKept
<1>14. RunGoes(r, new)
  BY <1>9 DEF AbortRunner, leavePreflight
<1> QED
  BY <1>4, <1>5, <1>6, <1>8, <1>10, <1>13, <1>14, OneRunStep

LEMMA SaveStep ==
  ASSUME AccessInv, NEW r \in AccessRunners, SaveAnswer(r)
  PROVE  AccessInv' /\ SourceMoves
<1> PICK run : run = gaRun[r]
  OBVIOUS
<1> PICK answer : answer = run.obs
  OBVIOUS
<1>1. /\ run \in AccessRuns /\ run.seenAt \in Nat /\ run.seenAt <= gaClosed
      /\ answer \in Observations /\ ObservationFits(answer)
  BY RunTyped
<1>2. UNCHANGED <<gaGrants, gaLacked, gaChanges, gaFaults, gaSeq, gaPending>>
  BY DEF SaveAnswer
<1>3. SourceGood /\ StoredGood
  BY <1>1, <1>2, ObservationSaved DEF SaveAnswer
<1>4. GrantsGood /\ SeqGood /\ CountsGood
  BY <1>2, GrantsKept, SeqKept, CountsKept
<1>5. AccessOnward /\ AccessNumbers
  BY <1>2, <1>3, <1>4, AccessMovesOn
<1>6. PendingGood
  BY <1>2, <1>5, PendingKept
<1> PICK obs : obs = IF r.kind = "review" THEN answer ELSE gaStored'
  OBVIOUS
<1>7. obs \in Observations /\ ObservationFits(obs)'
  <2>1. ObservationFits(answer)'
    BY <1>1, <1>5, ObservationKept
  <2>2. CASE r.kind = "review"
    BY <1>1, <2>1, <2>2
  <2>3. CASE r.kind # "review"
    <3>1. obs = gaStored'
      BY <2>3
    <3> QED
      BY <1>3, <3>1 DEF StoredGood, ObservationFits
  <2> QED
    BY <2>2, <2>3
<1> PICK new : new = [run EXCEPT !.at = "policy", !.obs = obs]
  OBVIOUS
<1>8. new \in AccessRuns
  BY <1>1, <1>7 DEF AccessRuns, AccessPlaces
<1>9. new.at = "policy" /\ new.obs = obs /\ new.seenAt = run.seenAt
  BY <1>1 DEF AccessRuns
<1>10. new.seenAt <= gaClosed'
  BY <1>1, <1>5, <1>9 DEF AccessOnward, SourceMoves, AccessNumbers
<1>11. ObservationFits(new.obs)'
  BY <1>7, <1>9
<1>12. AccessRunFits(new)'
  BY <1>8, <1>9, <1>10, <1>11, RunFitsNext
<1>13. RunGoes(r, new)
  BY DEF SaveAnswer
<1> QED
  BY <1>2, <1>3, <1>4, <1>6, <1>8, <1>12, <1>13, OneRunStep

\* A runner that goes to another place, or rests, and leaves everything else alone.
LEMMA MovedStep ==
  ASSUME AccessInv, NEW r \in AccessRunners,
         NEW at \in AccessPlaces \ {"stopped", "listing", "read"}, NEW misses \in Nat,
         at = "denied" => "essential" \in gaLacked, RunGoes(r, MovedRun(gaRun[r], at, misses)),
         UNCHANGED <<gaGrants, gaLacked, gaChanges, gaFaults, gaSeq, gaStored, gaSource, gaClosed,
                     gaListed, gaPending>>
  PROVE  AccessInv' /\ SourceMoves
<1> PICK new : new = MovedRun(gaRun[r], at, misses)
  OBVIOUS
<1>1. new \in AccessRuns /\ AccessRunFits(new)
  BY RunTyped, MovedFits
<1>2. RunGoes(r, new)
  OBVIOUS
<1> QED
  BY <1>1, <1>2, QuietRunStep

LEMMA RestStep ==
  ASSUME AccessInv, NEW r \in AccessRunners, RunGoes(r, Rest(gaRun[r])),
         UNCHANGED <<gaGrants, gaLacked, gaChanges, gaFaults, gaSeq, gaStored, gaSource, gaClosed,
                     gaListed, gaPending>>
  PROVE  AccessInv' /\ SourceMoves
<1> PICK new : new = Rest(gaRun[r])
  OBVIOUS
<1>1. new \in AccessRuns /\ AccessRunFits(new)
  BY RunTyped, RestingFits
<1>2. RunGoes(r, new)
  OBVIOUS
<1> QED
  BY <1>1, <1>2, QuietRunStep

LEMMA EnsureStep ==
  ASSUME AccessInv, NEW r \in AccessRunners, ensureReviewAccess(r)
  PROVE  AccessInv' /\ SourceMoves
<1> PICK run : run = gaRun[r]
  OBVIOUS
<1> PICK access : access = IF run.at = "unavailable" THEN "unknown" ELSE run.obs.cap["essential"]
  OBVIOUS
<1> PICK more : more = run.misses + 1
  OBVIOUS
<1>1. /\ run \in AccessRuns /\ run.misses \in Nat /\ more \in Nat
      /\ run.obs \in Observations /\ ObservationFits(run.obs)
  BY RunTyped
<1>2. UNCHANGED <<gaGrants, gaLacked, gaChanges, gaFaults, gaSeq, gaStored, gaSource, gaClosed,
                  gaListed, gaPending>>
  BY DEF ensureReviewAccess
<1>3. \/ access = "denied" /\ RunGoes(r, MovedRun(run, "denied", run.misses))
      \/ RunGoes(r, MovedRun(run, "working", 0))
      \/ RunGoes(r, MovedRun(run, "working", run.misses))
      \/ RunGoes(r, Rest(run))
      \/ RunGoes(r, MovedRun(run, "retry", more))
      \/ RunGoes(r, MovedRun(run, "exhausted", run.misses))
  <2>1. access \in Caps
    BY <1>1 DEF Observations, Operations, Caps
  <2>2. CASE access = "denied"
    <3>1. RunGoes(r, [run EXCEPT !.at = "denied"])
      BY <2>2 DEF ensureReviewAccess
    <3> QED
      BY <1>1, <2>2, <3>1, OnlyPlaceMoved
  <2>3. CASE access = "available"
    <3>1. RunGoes(r, [run EXCEPT !.at = "working", !.misses = 0])
      BY <2>3 DEF ensureReviewAccess, changeGithubPreflightFailureCount
    <3> QED
      BY <3>1 DEF MovedRun
  <2>4. CASE access = "unknown" /\ r.kind = "projector"
    <3>1. RunGoes(r, IF run.at = "policy" THEN [run EXCEPT !.at = "working"] ELSE Rest(run))
      BY <2>4 DEF ensureReviewAccess
    <3> QED
      BY <1>1, <3>1, OnlyPlaceMoved
  <2>5. CASE access = "unknown" /\ r.kind # "projector"
    <3>1. RunGoes(r, IF more < PreflightBudget
                       THEN [run EXCEPT !.at = "retry", !.misses = more]
                       ELSE [run EXCEPT !.at = "exhausted"])
      BY <2>5 DEF ensureReviewAccess, changeGithubPreflightFailureCount
    <3> QED
      BY <1>1, <3>1, OnlyPlaceMoved DEF MovedRun
  <2> QED
    BY <2>1, <2>2, <2>3, <2>4, <2>5 DEF Caps
<1>4. access = "denied" => "essential" \in gaLacked
  BY <1>1 DEF ObservationFits, Operations
<1>5. {"denied", "working", "retry", "exhausted"} \subseteq AccessPlaces \ {"stopped", "listing", "read"}
  BY DEF AccessPlaces
<1>6. CASE access = "denied" /\ RunGoes(r, MovedRun(run, "denied", run.misses))
  BY <1>1, <1>2, <1>4, <1>5, <1>6, MovedStep
<1>7. CASE RunGoes(r, MovedRun(run, "working", 0))
  BY <1>2, <1>5, <1>7, MovedStep
<1>8. CASE RunGoes(r, MovedRun(run, "working", run.misses))
  BY <1>1, <1>2, <1>5, <1>8, MovedStep
<1>9. CASE RunGoes(r, Rest(run))
  BY <1>2, <1>9, RestStep
<1>10. CASE RunGoes(r, MovedRun(run, "retry", more))
  BY <1>1, <1>2, <1>5, <1>10, MovedStep
<1>11. CASE RunGoes(r, MovedRun(run, "exhausted", run.misses))
  BY <1>1, <1>2, <1>5, <1>11, MovedStep
<1> QED
  BY <1>3, <1>6, <1>7, <1>8, <1>9, <1>10, <1>11

LEMMA EndRunStep ==
  ASSUME AccessInv, NEW r \in AccessRunners, EndRun(r)
  PROVE  AccessInv' /\ SourceMoves
BY RestStep DEF EndRun

LEMMA CallStep ==
  ASSUME AccessInv, NEW r \in AccessRunners, NEW o \in Operations, CallEndpoint(r, o)
  PROVE  AccessInv' /\ SourceMoves
<1> PICK run : run = gaRun[r]
  OBVIOUS
<1> PICK gen : gen = run.obs.gen
  OBVIOUS
<1>1. run \in AccessRuns /\ AccessRunFits(run) /\ run.misses \in Nat
  BY RunTyped
<1>2. UNCHANGED <<gaGrants, gaLacked, gaChanges, gaFaults, gaSeq, gaPending>>
  BY DEF CallEndpoint
<1>3. Operations \ gaGrants \subseteq gaLacked
  BY DEF AccessInv
<1>4. GrantsGood /\ SeqGood /\ CountsGood
  BY <1>2, GrantsKept, SeqKept, CountsKept
<1>5. SourceGood /\ StoredGood
  <2>1. CASE UNCHANGED <<gaStored, gaSource, gaClosed, gaListed>>
    BY <1>4, <2>1, SourceUnchanged
  <2>2. CASE o \notin gaGrants /\ recordGithubCapabilityDenial(gen, o)
    <3>1. o \in gaLacked
      BY <1>3, <2>2
    <3> QED
      BY <1>2, <2>2, <3>1, DenialRecorded
  <2> QED
    BY <2>1, <2>2 DEF CallEndpoint
<1>6. AccessOnward /\ AccessNumbers
  BY <1>2, <1>4, <1>5, AccessMovesOn
<1>7. PendingGood
  BY <1>2, <1>6, PendingKept
<1> PICK new : new = IF o = "essential" /\ o \notin gaGrants
                       THEN MovedRun(run, "denied", run.misses) ELSE Rest(run)
  OBVIOUS
<1>8. new \in AccessRuns /\ AccessRunFits(new)
  <2>1. CASE o = "essential" /\ o \notin gaGrants
    <3>1. "essential" \in gaLacked /\ "denied" \in AccessPlaces \ {"stopped", "listing", "read"}
      BY <1>3, <2>1 DEF AccessPlaces
    <3> QED
      BY <1>1, <2>1, <3>1, MovedFits
  <2>2. CASE ~(o = "essential" /\ o \notin gaGrants)
    BY <1>1, <2>2, RestingFits
  <2> QED
    BY <2>1, <2>2
<1>9. AccessRunFits(new)'
  BY <1>6, <1>8, AccessRunKept
<1>10. RunGoes(r, new)
  <2>1. RunGoes(r, IF o = "essential" /\ o \notin gaGrants THEN [run EXCEPT !.at = "denied"]
                                                           ELSE Rest(run))
    BY DEF CallEndpoint
  <2> QED
    BY <1>1, <2>1, OnlyPlaceMoved
<1> QED
  BY <1>2, <1>4, <1>5, <1>7, <1>8, <1>9, <1>10, OneRunStep

(* The listing of the head *)

LEMMA LoadSourceStep ==
  ASSUME AccessInv, NEW r \in AccessRunners, loadGithubCiSourceAvailability(r)
  PROVE  AccessInv' /\ SourceMoves
<1> PICK run : run = gaRun[r]
  OBVIOUS
<1> PICK gen : gen = gaStored.gen
  OBVIOUS
<1>1. /\ run \in AccessRuns /\ AccessRunFits(run) /\ run.seenAt \in Nat
      /\ run.seenAt <= gaClosed
  BY RunTyped
<1>2. UNCHANGED <<gaGrants, gaLacked, gaChanges, gaFaults, gaSeq, gaStored, gaListed, gaPending>>
  BY DEF loadGithubCiSourceAvailability
<1>3. /\ gaStored \in Observations /\ gaStored.gen <= gaSeq /\ gen \in Nat
      /\ gaSource \in Sources
  BY DEF AccessInv, AccessTyped, Observations, ObservationFits
<1>4. SourceBecomes(syncSources(gaStored))
  BY DEF loadGithubCiSourceAvailability
<1>5. SourceGood
  BY <1>2, <1>3, <1>4, SourceSynced
<1>6. GrantsGood /\ SeqGood /\ CountsGood
  BY <1>2, GrantsKept, SeqKept, CountsKept
<1>7. AccessOnward /\ AccessNumbers
  BY <1>2, <1>5, <1>6, AccessMovesOn
<1>8. PendingGood /\ StoredGood
  BY <1>2, <1>7, PendingKept, StoredKept
<1>9. gen <= gaSource'.gen
  BY <1>3, <1>4, SyncFits DEF SourceBecomes
<1> PICK listing : listing = [run EXCEPT !.at = "listing", !.availGen = gen]
  OBVIOUS
<1>10. listing \in AccessRuns /\ AccessRunFits(listing)'
  <2>1. listing \in AccessRuns
    BY <1>1, <1>3 DEF AccessRuns, AccessPlaces
  <2>2. listing.at = "listing" /\ listing.availGen = gen /\ listing.obs = run.obs
        /\ listing.seenAt = run.seenAt
    BY <1>1 DEF AccessRuns
  <2>3. AccessRunFits(run)'
    BY <1>1, <1>7, AccessRunKept
  <2> QED
    BY <1>9, <2>1, <2>2, <2>3 DEF AccessRunFits
<1> PICK rest : rest = Rest(run)
  OBVIOUS
<1>11. rest \in AccessRuns /\ AccessRunFits(rest)'
  BY <1>1, <1>7, RestingFits, AccessRunKept
<1>12. RunGoes(r, listing) \/ RunGoes(r, rest)
  BY DEF loadGithubCiSourceAvailability
<1>13. CASE RunGoes(r, listing)
  BY <1>2, <1>5, <1>6, <1>8, <1>10, <1>13, OneRunStep
<1>14. CASE RunGoes(r, rest)
  BY <1>2, <1>5, <1>6, <1>8, <1>11, <1>14, OneRunStep
<1> QED
  BY <1>12, <1>13, <1>14

LEMMA ReadListingStep ==
  ASSUME AccessInv, NEW r \in AccessRunners, readCiStatusSources(r)
  PROVE  AccessInv' /\ SourceMoves
<1> PICK run : run = gaRun[r]
  OBVIOUS
<1> PICK gen : gen = run.obs.gen
  OBVIOUS
<1> PICK closed : closed = gaClosed
  OBVIOUS
<1>1. /\ run \in AccessRuns /\ AccessRunFits(run) /\ run.at = "listing"
      /\ run.availGen <= gaSource.gen /\ run.availGen \in Nat /\ run.seenAt <= gaClosed
  BY RunTyped DEF readCiStatusSources, AccessRunFits
<1>2. closed \in Nat /\ Operations \ gaGrants \subseteq gaLacked
  BY DEF AccessInv, AccessTyped
<1>3. /\ UNCHANGED <<gaGrants, gaLacked, gaChanges, gaSeq, gaPending>>
      /\ gaFaults' = gaFaults \/ AccessFault
  BY DEF readCiStatusSources
<1>4. GrantsGood /\ SeqGood /\ CountsGood
  BY <1>3, GrantsKept, SeqKept, CountsKept
<1>5. SourceGood /\ StoredGood
  <2>1. CASE UNCHANGED <<gaStored, gaSource, gaClosed, gaListed>>
    BY <1>4, <2>1, SourceUnchanged
  <2>2. CASE "checksRead" \notin gaGrants /\ recordGithubCapabilityDenial(gen, "checksRead")
    <3>1. "checksRead" \in Operations /\ "checksRead" \in gaLacked
      BY <1>2, <2>2 DEF Operations
    <3> QED
      BY <1>3, <2>2, <3>1, DenialRecorded
  <2> QED
    BY <2>1, <2>2 DEF readCiStatusSources
<1>6. AccessOnward /\ AccessNumbers
  BY <1>3, <1>4, <1>5, AccessMovesOn
<1>7. PendingGood
  BY <1>3, <1>6, PendingKept
<1>8. PICK new : new \in AccessRuns /\ RunGoes(r, new) /\ AccessRunFits(new)
  <2>1. CASE \E result \in {"complete", "partial"} :
               RunGoes(r, [run EXCEPT !.at = "read", !.seen = result, !.seenAt = closed])
    <3> PICK result \in {"complete", "partial"} :
               RunGoes(r, [run EXCEPT !.at = "read", !.seen = result, !.seenAt = closed])
      BY <2>1
    <3> PICK new : new = [run EXCEPT !.at = "read", !.seen = result, !.seenAt = closed]
      OBVIOUS
    <3>1. new \in AccessRuns
      BY <1>1, <1>2 DEF AccessRuns, AccessPlaces
    <3>2. /\ new.at = "read" /\ new.seen = result /\ new.seenAt = closed /\ new.obs = run.obs
          /\ new.availGen = run.availGen
      BY <1>1 DEF AccessRuns
    <3>3. AccessRunFits(new)
      BY <1>1, <1>2, <3>2 DEF AccessRunFits
    <3> QED
      BY <3>1, <3>3
  <2>2. ASSUME NEW seen \in {"denied", "unknown"},
               RunGoes(r, [run EXCEPT !.at = "read", !.seen = seen])
        PROVE  \E new : new \in AccessRuns /\ RunGoes(r, new) /\ AccessRunFits(new)
    <3> PICK new : new = [run EXCEPT !.at = "read", !.seen = seen]
      OBVIOUS
    <3>1. new \in AccessRuns
      BY <1>1 DEF AccessRuns, AccessPlaces
    <3>2. /\ new.at = "read" /\ new.seen = seen /\ new.seenAt = run.seenAt /\ new.obs = run.obs
          /\ new.availGen = run.availGen
      BY <1>1 DEF AccessRuns
    <3>3. AccessRunFits(new)
      BY <1>1, <3>2 DEF AccessRunFits
    <3> QED
      BY <2>2, <3>1, <3>3
  <2>3. \/ \E result \in {"complete", "partial"} :
             RunGoes(r, [run EXCEPT !.at = "read", !.seen = result, !.seenAt = closed])
        \/ RunGoes(r, [run EXCEPT !.at = "read", !.seen = "denied"])
        \/ RunGoes(r, [run EXCEPT !.at = "read", !.seen = "unknown"])
    BY DEF readCiStatusSources
  <2> QED
    BY <2>1, <2>2, <2>3
<1>9. AccessRunFits(new)'
  BY <1>6, <1>8, AccessRunKept
<1> QED
  BY <1>3, <1>4, <1>5, <1>7, <1>8, <1>9, OneRunStep

\* The read is recorded: a complete listing that counts was read after the last closing.
LEMMA RecordReadStep ==
  ASSUME AccessInv, NEW r \in AccessRunners, recordGithubCiSourceRead(r)
  PROVE  AccessInv' /\ SourceMoves
<1> PICK run : run = gaRun[r]
  OBVIOUS
<1> PICK s : s = syncSources(gaStored)
  OBVIOUS
<1> PICK access : access = IF run.seen \in {"complete", "partial"} THEN "available" ELSE run.seen
  OBVIOUS
<1>1. /\ run \in AccessRuns /\ AccessRunFits(run) /\ run.at = "read" /\ run.seenAt \in Nat
      /\ run.availGen \in Nat /\ run.seenAt <= gaClosed
  BY RunTyped DEF recordGithubCiSourceRead
<1>2. UNCHANGED <<gaGrants, gaLacked, gaChanges, gaFaults, gaSeq, gaStored, gaPending>>
  BY DEF recordGithubCiSourceRead
<1>3. /\ gaStored \in Observations /\ gaStored.gen <= gaSeq /\ gaStored.gen \in Nat
      /\ gaSource \in Sources /\ gaSource.gen \in Int /\ gaSource.gen <= gaSeq /\ gaSeq \in Nat
      /\ -1 <= gaSource.gen /\ gaListed \in Int /\ gaClosed \in Nat
      /\ -1 <= gaListed /\ gaListed <= gaClosed
  BY DEF AccessInv, AccessTyped, Observations, ObservationFits, Sources, SourceFits
<1>4. GrantsGood /\ SeqGood /\ CountsGood
  BY <1>2, GrantsKept, SeqKept, CountsKept
<1>5. /\ s \in Sources /\ gaSource.gen <= s.gen
      /\ s.gen = gaSource.gen \/ s.gen = gaStored.gen
      /\ gaSource.access = "denied" /\ s.gen = gaSource.gen => s.access = "denied"
  BY <1>3, SyncFits
<1>6. s.gen \in Int /\ s.gen <= gaSeq
  BY <1>3, <1>5 DEF Sources
<1>7. SourceGood
  <2>1. CASE ~ReadApplies(s, run)
    <3>1. SourceBecomes(syncSources(gaStored)) /\ gaListed' = gaListed
      BY <2>1 DEF recordGithubCiSourceRead
    <3> QED
      BY <1>2, <1>3, <3>1, SourceSynced
  <2>2. CASE ReadApplies(s, run)
    <3> PICK unread : unread = IF access = "unknown" THEN s.unread + 1 ELSE 0
      OBVIOUS
    <3> PICK listing : listing = (run.seen # "complete")
      OBVIOUS
    <3> PICK t : t = [s EXCEPT !.access = access, !.listing = listing, !.unread = unread]
      OBVIOUS
    <3>1. access \in Caps /\ unread \in Nat /\ listing \in BOOLEAN
      <4>1. run.seen \in {"none", "complete", "partial", "denied", "unknown"} /\ s.unread \in Nat
        BY <1>1, <1>5 DEF AccessRuns, Sources
      <4>2. run.seen # "none"
        BY <1>1 DEF AccessRunFits
      <4> QED
        BY <4>1, <4>2 DEF Caps
    <3>2. t \in Sources
      BY <1>5, <3>1 DEF Sources
    <3>3. t.gen = s.gen /\ t.access = access /\ (t.listing <=> run.seen # "complete")
      BY <1>5 DEF Sources
    <3>4. /\ SourceBecomes(t)
          /\ gaListed' = IF run.seen = "complete" THEN run.seenAt ELSE gaListed
      BY <2>2 DEF recordGithubCiSourceRead
    <3>5. s.gen = run.availGen /\ ~(s.access = "denied" /\ run.seen # "denied")
      BY <2>2 DEF ReadApplies
    <3>6. gaSource.access = "denied" /\ t.gen = gaSource.gen => t.access = "denied"
      BY <1>5, <3>3, <3>5
    <3>7. /\ gaSource' = t /\ SourceMoves /\ gaClosed' \in Nat
          /\ t.access = "available" => gaClosed' = gaClosed
      BY <1>5, <1>6, <3>2, <3>3, <3>4, <3>6, SourceBecomesFits
    <3>8. run.seen = "complete" => run.seenAt = gaClosed
      <4>1. ASSUME run.seen = "complete"
            PROVE  run.seenAt = gaClosed
        <5>1. run.availGen <= gaSource.gen
          BY <1>1 DEF AccessRunFits
        <5>2. run.availGen = gaSource.gen
          BY <1>1, <1>3, <1>5, <1>6, <3>5, <5>1
        <5>3. gaSource.access # "denied"
          BY <1>5, <3>5, <4>1, <5>2
        <5> QED
          BY <1>1, <4>1, <5>2, <5>3 DEF AccessRunFits
      <4> QED
        BY <4>1
    <3>9. gaListed' \in Int /\ -1 <= gaListed' /\ gaListed' <= gaClosed'
      <4>1. gaClosed <= gaClosed'
        BY <3>7 DEF SourceMoves
      <4> QED
        BY <1>1, <1>3, <3>4, <3>7, <4>1
    <3>10. gaSource'.access = "available" /\ ~gaSource'.listing => gaListed' = gaClosed'
      BY <3>3, <3>4, <3>7, <3>8
    <3> QED
      BY <1>2, <1>3, <1>5, <1>6, <3>2, <3>3, <3>7, <3>9, <3>10
      DEF SourceGood, SourceFits, CompleteMeansListed
  <2> QED
    BY <2>1, <2>2
<1>8. AccessOnward /\ AccessNumbers
  BY <1>2, <1>4, <1>7, AccessMovesOn
<1>9. PendingGood /\ StoredGood
  BY <1>2, <1>8, PendingKept, StoredKept
<1> PICK rest : rest = Rest(run)
  OBVIOUS
<1>10. rest \in AccessRuns /\ AccessRunFits(rest)'
  BY <1>1, <1>8, RestingFits, AccessRunKept
<1>11. RunGoes(r, rest)
  BY DEF recordGithubCiSourceRead
<1> QED
  BY <1>2, <1>4, <1>7, <1>9, <1>10, <1>11, OneRunStep

LEMMA ExpireStep ==
  ASSUME AccessInv, deleteExpiredGithubCapabilities
  PROVE  AccessInv' /\ SourceMoves
<1>1. /\ UNCHANGED <<gaGrants, gaLacked, gaChanges, gaFaults, gaSeq, gaSource, gaClosed, gaListed,
                     gaPending, gaRun>>
      /\ gaStored' = NoObservation
  BY DEF deleteExpiredGithubCapabilities
<1>2. GrantsGood /\ SeqGood /\ CountsGood
  BY <1>1, GrantsKept, SeqKept, CountsKept
<1>3. SourceGood
  BY <1>1, <1>2, SourceStays DEF SeqGood
<1>4. AccessOnward /\ AccessNumbers
  BY <1>1, <1>2, <1>3, AccessMovesOn
<1>5. StoredGood
  BY <1>1, NothingFits DEF StoredGood, ObservationFits
<1>6. PendingGood /\ RunsGood
  BY <1>1, <1>4, PendingKept, AllRunsKept
<1> QED
  BY <1>2, <1>3, <1>5, <1>6, AccessInvFrom DEF SourceGood

LEMMA AccessInvInit ==
  ASSUME AccessInit
  PROVE  AccessInv
<1>1. /\ gaSeq = 0 /\ gaClosed = 0 /\ gaListed = -1 /\ gaChanges = 0 /\ gaFaults = 0
      /\ gaGrants = Operations /\ gaLacked = {} /\ MaxAccessMoves \in Nat
  BY AccessAssumption DEF AccessInit
<1> PICK cap : cap = [o \in Operations |-> "unknown"]
  OBVIOUS
<1> PICK none : none = NoObservation
  OBVIOUS
<1>2. none = [gen |-> 0, cap |-> cap]
  BY DEF NoObservation
<1>3. cap \in [Operations -> Caps] /\ \A o \in Operations : cap[o] = "unknown"
  BY DEF Caps
<1>4. none \in Observations /\ none.gen = 0 /\ none.cap = cap
  BY <1>2, <1>3 DEF Observations
<1>5. ObservationFits(none)
  BY <1>1, <1>3, <1>4 DEF ObservationFits
<1>6. NoSource \in Sources /\ NoSource.gen = -1 /\ NoSource.access = "unknown"
  BY DEF NoSource, Sources, Caps
<1>7. SourceFits
  BY <1>1, <1>6 DEF SourceFits, CompleteMeansListed, AccessInit
<1>8. NoPreflight \in Preflights /\ PreflightFits(NoPreflight)
  BY <1>1 DEF NoPreflight, Preflights, PreflightFits
<1> PICK rest : rest = RestingRun
  OBVIOUS
<1>9. rest = [at |-> "idle", runs |-> 0, misses |-> 0, since |-> 0, obs |-> none,
              availGen |-> 0, seen |-> "none", seenAt |-> 0, abort |-> FALSE]
  BY DEF RestingRun
<1>10. rest.at = "idle" /\ rest.seenAt = 0 /\ rest.obs = none
  BY <1>9
<1>11. rest \in AccessRuns
  BY <1>4, <1>9 DEF AccessRuns, AccessPlaces
<1>12. AccessRunFits(rest)
  BY <1>1, <1>5, <1>10 DEF AccessRunFits
<1>13. AccessTyped
  BY <1>1, <1>4, <1>6, <1>8, <1>11 DEF AccessTyped, AccessInit
<1>14. (\A h \in AccessHosts : PreflightFits(gaPending[h]))
       /\ (\A r \in AccessRunners : AccessRunFits(gaRun[r]))
  BY <1>8, <1>12 DEF AccessInit
<1> QED
  BY <1>1, <1>5, <1>7, <1>13, <1>14 DEF AccessInv, AccessInit

LEMMA AccessInvNext ==
  ASSUME AccessInv, [AccessNext]_accessVars
  PROVE  AccessInv' /\ SourceMoves
<1>1. CASE UNCHANGED accessVars
  BY <1>1, QuietStep DEF accessVars
<1>2. ASSUME NEW o \in Operations, GrantChanges(o)
      PROVE  AccessInv' /\ SourceMoves
  BY <1>2, GrantStep
<1>3. ASSUME NEW h \in AccessHosts,
             lookupRepositoryInstallation(h) \/ scopedToken(h) \/ PreflightFails(h) \/ TokenAges(h)
      PROVE  AccessInv' /\ SourceMoves
  <2>1. CASE TokenAges(h)
    BY <2>1, QuietStep DEF TokenAges
  <2> QED
    BY <1>3, <2>1, LookupStep, MintStep, PreflightFailsStep
<1>4. ASSUME NEW r \in AccessRunners, NEW o \in Operations, CallEndpoint(r, o)
      PROVE  AccessInv' /\ SourceMoves
  BY <1>4, CallStep
<1>5. ASSUME NEW r \in AccessRunners,
             \/ loadGithubCapabilityObservation(r) \/ preflight(r) \/ AbortRunner(r)
             \/ SaveAnswer(r) \/ ensureReviewAccess(r) \/ EndRun(r)
             \/ loadGithubCiSourceAvailability(r) \/ readCiStatusSources(r)
             \/ recordGithubCiSourceRead(r)
      PROVE  AccessInv' /\ SourceMoves
  BY <1>5, LoadStep, JoinStep, AbortStep, SaveStep, EnsureStep, EndRunStep, LoadSourceStep,
     ReadListingStep, RecordReadStep
<1>6. CASE deleteExpiredGithubCapabilities
  BY <1>6, ExpireStep
<1>7. CASE AccessNext
  BY <1>2, <1>3, <1>4, <1>5, <1>6, <1>7 DEF AccessNext
<1> QED
  BY <1>1, <1>7

LEMMA AccessInvSound ==
  ASSUME AccessInv
  PROVE  AccessTypeOK /\ CompleteMeansListed /\ DeniedIsReal /\ AbortIsPrivate
<1>1. AccessTyped /\ SourceFits
  BY DEF AccessInv
<1>2. AccessTypeOK
  <2>1. {gaChanges, gaFaults} \subseteq 0 .. MaxAccessMoves
    BY <1>1, AccessAssumption DEF AccessTyped
  <2>2. gaStored.gen \in 0 .. gaSeq
        /\ \A o \in Operations : gaStored.cap[o] \in {"unknown", "available", "denied", "unavailable"}
    BY <1>1 DEF AccessInv, AccessTyped, Observations, ObservationFits, Caps
  <2>3. gaSource.gen \in -1 .. gaSeq /\ gaListed \in -1 .. gaClosed
    BY <1>1 DEF AccessTyped, Sources, SourceFits
  <2>4. \A h \in AccessHosts : gaPending[h].waiters \subseteq AccessRunners
    BY EntryTyped
  <2>5. \A r \in AccessRunners : gaRun[r].at \in AccessPlaces
    BY <1>1 DEF AccessTyped, AccessRuns
  <2> QED
    BY <1>1, <2>1, <2>2, <2>3, <2>4, <2>5 DEF AccessTypeOK, AccessTyped, AccessPlaces
<1>3. DeniedIsReal /\ AbortIsPrivate
  BY DEF AccessInv, AccessRunFits, DeniedIsReal, AbortIsPrivate
<1> QED
  BY <1>1, <1>2, <1>3 DEF SourceFits

\* What a closed source is reopened by: a newer observation only.
LEMMA DenialStands ==
  ASSUME AccessInv, [AccessNext]_accessVars
  PROVE  gaSource.access = "denied" /\ gaSource'.access # "denied" => gaSource'.gen > gaSource.gen
<1>1. SourceMoves /\ AccessInv'
  BY AccessInvNext
<1>2. gaSource.gen \in Int /\ gaSource'.gen \in Int
  BY <1>1 DEF AccessInv, AccessTyped, Sources
<1> QED
  BY <1>1, <1>2 DEF SourceMoves

\* GithubAccess: a listing of the checks is called complete only if it was read after the source was
\* last closed, a denial stands until a newer observation, nobody is denied what was granted all
\* along, and an abort stops only its own execution, for every set of executions and worker
\* processes and any changes of the grants.
THEOREM AccessIsSound == AccessSpec => AccessSound
<1>1. AccessInit => AccessInv
  BY AccessInvInit
<1>2. AccessInv /\ [AccessNext]_accessVars => AccessInv'
  BY AccessInvNext
<1>3. AccessInv => AccessTypeOK /\ CompleteMeansListed /\ DeniedIsReal /\ AbortIsPrivate
  BY AccessInvSound
<1>4. AccessInv /\ [AccessNext]_accessVars
        => [gaSource.access = "denied" /\ gaSource'.access # "denied"
              => gaSource'.gen > gaSource.gen]_accessVars
  BY DenialStands
<1> QED
  BY <1>1, <1>2, <1>3, <1>4, PTL DEF AccessSpec, AccessSound, DenialHolds

=============================================================================
