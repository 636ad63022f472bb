------------------------------ MODULE RateLimit ------------------------------
(***************************************************************************)
(* The rate-limit circuits: one per run, in memory                         *)
(* (github/rateLimitCircuit.ts), and one row per installation that lets    *)
(* other runs and workers wait (github/sharedRateLimitCircuit.ts).  The    *)
(* Octokit throttle counts a run's requests that ran out of retries; the   *)
(* third in a row opens the run's circuit for the rest of the run and      *)
(* starts a best-effort upsert of the shared row.  A run that starts later *)
(* is opened from the row, until the row expires.                          *)
(***************************************************************************)
EXTENDS Naturals, FiniteSets

CONSTANTS
    CircuitRuns,       \* review and ask runs of one installation
    ReviewRuns,        \* those a shared circuit defers before they start
    Threshold,         \* RATE_LIMIT_CIRCUIT_THRESHOLD
    PrimaryRetries,    \* PRIMARY_RATE_LIMIT_MAX_RETRIES
    SecondaryRetries,  \* SECONDARY_RATE_LIMIT_MAX_RETRIES
    Cooldown,          \* SHARED_RATE_LIMIT_CIRCUIT_COOLDOWN_MS
    MaxClock

ASSUME CircuitAssumption ==
    /\ ReviewRuns \subseteq CircuitRuns
    /\ Threshold \in Nat \ {0} /\ Cooldown \in Nat \ {0}
    /\ PrimaryRetries \in Nat /\ SecondaryRetries \in Nat /\ MaxClock \in Nat

VARIABLES
    rlClock,
    rlShared,   \* open_until of the installation's row; 0 without a row
    rlRun,      \* per run: its circuit, and the retries of its request
    rlUpserts,  \* openUntil of upserts not yet answered
    rlLanded    \* openUntil of upserts the database took

circuitVars == <<rlClock, rlShared, rlRun, rlUpserts, rlLanded>>

(* until is openUntilMs, 0 when null; streak counts the requests that ran  *)
(* out of retries since the run's last success, whatever the circuit made  *)
(* of them, and opened is its value when the run opened its own circuit.   *)
NewCircuit == [pc |-> "queued", open |-> FALSE, until |-> 0, consecutive |-> 0,
               retries |-> 0, streak |-> 0, opened |-> 0, seen |-> 0]

RateLimitTypeOK ==
    /\ rlClock \in 0 .. MaxClock /\ rlShared \in Nat
    /\ \A r \in CircuitRuns :
         /\ rlRun[r].pc \in {"queued", "starting", "hydrating", "running", "ended"}
         /\ rlRun[r].open \in BOOLEAN
         /\ rlRun[r].consecutive \in 0 .. Threshold
    /\ rlUpserts \subseteq Nat /\ rlLanded \subseteq Nat

CircuitInit ==
    /\ rlClock = 0 /\ rlShared = 0
    /\ rlRun = [r \in CircuitRuns |-> NewCircuit]
    /\ rlUpserts = {} /\ rlLanded = {}

SharedOpen == rlShared > rlClock

-----------------------------------------------------------------------------
(* createRateLimitCircuit *)

clearExpiredSharedOpen_KeepsCount(c) ==
    IF c.open /\ c.until # 0 /\ rlClock >= c.until
    THEN [c EXCEPT !.open = FALSE, !.until = 0] ELSE c

clearExpiredSharedOpen(c) ==
    IF c.open /\ c.until # 0 /\ rlClock >= c.until
    THEN [c EXCEPT !.open = FALSE, !.until = 0, !.consecutive = 0] ELSE c

recordSuccess_Closes(c) == [c EXCEPT !.consecutive = 0, !.open = FALSE, !.until = 0]

recordSuccess(c) ==
    LET expired == c.open /\ c.until # 0 /\ rlClock >= c.until
    IN  [c EXCEPT !.consecutive = 0, !.open = @ /\ ~expired,
                  !.until = IF expired THEN 0 ELSE @]

(* The circuit after a request that ran out of retries; it opens itself    *)
(* once, at the threshold.                                                 *)
recordFailure(c) ==
    LET now == clearExpiredSharedOpen(c)
    IN  IF now.open THEN now
        ELSE IF now.consecutive + 1 < Threshold
             THEN [now EXCEPT !.consecutive = @ + 1]
             ELSE [now EXCEPT !.consecutive = Threshold, !.open = TRUE, !.until = 0,
                              !.opened = now.streak]

hydrateOpenFromShared(c, openUntil) ==
    IF rlClock >= openUntil THEN c
    ELSE [c EXCEPT !.open = TRUE, !.until = openUntil, !.consecutive = Threshold]

OpensItself(c) == LET d == recordFailure(c) IN d.open /\ ~clearExpiredSharedOpen(c).open

-----------------------------------------------------------------------------
(* A run *)

(* runDurableWorkItem defers a review while the row is open.               *)
AdmitRun(r) ==
    /\ rlRun[r].pc = "queued" /\ (r \in ReviewRuns => ~SharedOpen)
    /\ rlRun' = [rlRun EXCEPT ![r].pc = "starting"]
    /\ UNCHANGED <<rlClock, rlShared, rlUpserts, rlLanded>>

(* getSharedRateLimitCircuit; a failed read leaves the circuit closed.     *)
ReadShared(r) ==
    /\ rlRun[r].pc = "starting"
    /\ \E answered \in BOOLEAN :
         rlRun' = [rlRun EXCEPT ![r].pc = IF answered /\ SharedOpen THEN "hydrating" ELSE "running",
                                ![r].seen = IF answered THEN rlShared ELSE 0]
    /\ UNCHANGED <<rlClock, rlShared, rlUpserts, rlLanded>>

(* openRunRateLimitCircuit goes on with the row it read.                   *)
openRunRateLimitCircuit(r) ==
    /\ rlRun[r].pc = "hydrating"
    /\ rlRun' = [rlRun EXCEPT ![r] = [hydrateOpenFromShared(@, @.seen) EXCEPT !.pc = "running"]]
    /\ UNCHANGED <<rlClock, rlShared, rlUpserts, rlLanded>>

RequestSucceeds(r) ==
    /\ rlRun[r].pc = "running"
    /\ rlRun' = [rlRun EXCEPT ![r] = [recordSuccess(@) EXCEPT !.retries = 0, !.streak = 0]]
    /\ UNCHANGED <<rlClock, rlShared, rlUpserts, rlLanded>>

onRateLimit(retries) == retries < PrimaryRetries
onSecondaryRateLimit(retryAfter, retries) == retryAfter > 0 /\ retries < SecondaryRetries

(* noteRateLimitRetryExhausted: the circuit counts the request and, when   *)
(* it opens, starts the upsert without waiting for it.                     *)
noteRateLimitRetryExhausted(r) ==
    LET counted == [rlRun[r] EXCEPT !.streak = IF @ < Threshold THEN @ + 1 ELSE @, !.retries = 0]
    IN  /\ rlRun' = [rlRun EXCEPT ![r] = recordFailure(counted)]
        /\ rlUpserts' = rlUpserts \cup
             (IF OpensItself(counted) THEN {rlClock + Cooldown} ELSE {})

RequestLimited(r) ==
    /\ rlRun[r].pc = "running"
    /\ \E again \in {onRateLimit(rlRun[r].retries)}
               \cup {onSecondaryRateLimit(after, rlRun[r].retries) : after \in {0, 1}} :
         IF again THEN rlRun' = [rlRun EXCEPT ![r].retries = @ + 1] /\ UNCHANGED rlUpserts
         ELSE noteRateLimitRetryExhausted(r)
    /\ UNCHANGED <<rlClock, rlShared, rlLanded>>

(* shouldShortCircuitGithubTool asks isOpen, which may close the circuit.  *)
(* A tool that publishes is not asked about.                               *)
UseTool(r) ==
    /\ rlRun[r].pc = "running"
    /\ rlRun' = [rlRun EXCEPT ![r] = clearExpiredSharedOpen(@)]
    /\ UNCHANGED <<rlClock, rlShared, rlUpserts, rlLanded>>

EndCircuitRun(r) ==
    /\ rlRun[r].pc = "running"
    /\ rlRun' = [rlRun EXCEPT ![r] = [NewCircuit EXCEPT !.pc = "ended"]]
    /\ UNCHANGED <<rlClock, rlShared, rlUpserts, rlLanded>>

-----------------------------------------------------------------------------
(* The row *)

upserted_Latest(openUntil) == openUntil

upserted(openUntil) == IF openUntil > rlShared THEN openUntil ELSE rlShared

(* upsertSharedRateLimitCircuit, in the order the database takes them.     *)
UpsertAnswered ==
    \E u \in rlUpserts :
        /\ rlUpserts' = rlUpserts \ {u}
        /\ \/ rlShared' = upserted(u) /\ rlLanded' = rlLanded \cup {u}
           \/ UNCHANGED <<rlShared, rlLanded>>
        /\ UNCHANGED <<rlClock, rlRun>>

ClockTicks ==
    /\ rlClock < MaxClock /\ rlClock' = rlClock + 1
    /\ UNCHANGED <<rlShared, rlRun, rlUpserts, rlLanded>>

CircuitNext ==
    \/ \E r \in CircuitRuns :
         \/ AdmitRun(r) \/ ReadShared(r) \/ openRunRateLimitCircuit(r)
         \/ RequestSucceeds(r) \/ RequestLimited(r) \/ UseTool(r) \/ EndCircuitRun(r)
    \/ UpsertAnswered \/ ClockTicks

CircuitSpec == CircuitInit /\ [][CircuitNext]_circuitVars

-----------------------------------------------------------------------------
(* A run blocks its own tools only after as many exhausted requests in a   *)
(* row as the threshold says.  What it took over from another run's        *)
(* cooldown does not count once that cooldown is over.                     *)
OpensAtThreshold ==
    \A r \in CircuitRuns : (rlRun[r].open /\ rlRun[r].until = 0) => rlRun[r].opened = Threshold

(* A circuit the run opened stays open until the run ends, whatever        *)
(* requests succeed meanwhile.                                             *)
OpenedStaysOpen ==
    [][\A r \in CircuitRuns :
         (rlRun[r].open /\ rlRun[r].until = 0) => (rlRun'[r].open \/ rlRun'[r].pc = "ended")]_circuitVars

(* The row covers the cooldown of every opening the database took, in      *)
(* whatever order the upserts of several workers arrive.                   *)
CooldownsCovered == \A u \in rlLanded : u <= rlShared

(* What the circuits promise: a run's own failures open its circuit at the *)
(* threshold and for the rest of the run, and a later run waits for every  *)
(* cooldown that reached the shared row.                                   *)
CircuitSound ==
  /\ [](RateLimitTypeOK /\ OpensAtThreshold /\ CooldownsCovered)
  /\ OpenedStaysOpen

=============================================================================
