------------------------------ MODULE AskQuota ------------------------------
(***************************************************************************)
(* Admission of asks: admitAsk of askQuota.ts, the release trigger on      *)
(* agent_work_items, the usage receipts of the executions, and retention.  *)
(* An ask is one triggering mention.  Admission locks the installation     *)
(* bucket first and so does every other writer of the buckets, so each     *)
(* transaction is one step; only the trigger reads the provider window     *)
(* before it has that lock, and is two.                                    *)
(***************************************************************************)
EXTENDS Naturals, FiniteSets, FiniteSetsExt

CONSTANTS
  Asks,            \* triggering mentions
  Buckets,         \* scope keys: actors, repositories and the installation
  Provider,        \* the installation's bucket
  ScopesOf,        \* the three buckets of an ask
  MaxOutstanding,  \* by bucket
  Burst,           \* by bucket
  ProviderBudget,  \* providerBudgetTokens, 0 when disabled
  Reservation,     \* providerReservationTokens
  Usages,          \* token counts a computation may report
  MaxRuns,         \* computations of all asks (a bound)
  MaxWindows       \* provider windows (a bound)

ASSUME QuotaAssumption ==
  /\ Provider \in Buckets
  /\ ScopesOf \in [Asks -> SUBSET Buckets] /\ \A a \in Asks : Provider \in ScopesOf[a]
  /\ MaxOutstanding \in [Buckets -> Nat] /\ Burst \in [Buckets -> Nat]
  /\ ProviderBudget \in Nat /\ Reservation \in Nat /\ Usages \subseteq Nat
  /\ MaxRuns \in Nat /\ MaxWindows \in Nat

VARIABLES
  bucket,   \* ask_quota_buckets
  resv,     \* ask_quota_reservations, with the sum of the receipts
  ask,      \* the status of the ask's agent_work_items row
  runs,     \* computations started and not yet reported, and started in all
  windows   \* provider windows so far, and whether the current one has elapsed

quotaVars == <<bucket, resv, ask, runs, windows>>

-----------------------------------------------------------------------------
(* State *)

BucketRow == [present: BOOLEAN, tokens: Nat, out: Nat, used: Nat, reserved: Nat, window: Nat]

NoBucket == [present |-> FALSE, tokens |-> 0, out |-> 0, used |-> 0, reserved |-> 0, window |-> 0]

\* label is unknown_usage_window_started_at; since is the window of created_at.
ReservationRow ==
  [st: {"none", "held", "releasing", "released"}, reserved: Nat, known: BOOLEAN, tokens: Nat,
   unknown: Nat, label: Nat, since: Nat]

NoReservation == [st |-> "none", reserved |-> 0, known |-> FALSE, tokens |-> 0, unknown |-> 0,
                  label |-> 0, since |-> 0]

QuotaInit ==
  /\ bucket = [b \in Buckets |-> NoBucket]
  /\ resv = [a \in Asks |-> NoReservation]
  /\ ask = [a \in Asks |-> "none"]
  /\ runs = [a \in Asks |-> [open |-> 0, started |-> 0]]
  /\ windows = [last |-> 0, elapsed |-> FALSE]

Monus(m, n) == IF m > n THEN m - n ELSE 0

-----------------------------------------------------------------------------
(* Admission *)

\* Mutant: the refill is not capped at the burst.
Refilled_Uncapped(b, gain) ==
  LET row == bucket[b]
  IN  IF ~row.present
      THEN [NoBucket EXCEPT !.present = TRUE, !.tokens = Burst[b], !.window = windows.last + 1]
      ELSE [row EXCEPT !.tokens = @ + gain]

\* lockAndRefillBucket: a missing row is inserted, the balance is refilled up to the
\* burst, and a provider window that has elapsed starts again.
Refilled(b, gain) ==
  LET row == bucket[b]
  IN  CASE ~row.present ->
             [NoBucket EXCEPT !.present = TRUE, !.tokens = Burst[b], !.window = windows.last + 1]
        [] b = Provider /\ ProviderBudget > 0 /\ windows.elapsed /\ row.present ->
             [row EXCEPT !.tokens = Min({Burst[b], @ + gain}), !.used = 0,
                         !.window = windows.last + 1]
        [] OTHER -> [row EXCEPT !.tokens = Min({Burst[b], @ + gain})]

\* Mutant: the provider check forgets what is reserved and not yet used.
Admissible_UsedOnly(a, rows) ==
  /\ \A b \in ScopesOf[a] : rows[b].out < MaxOutstanding[b] /\ rows[b].tokens >= 1
  /\ ProviderBudget = 0 \/ rows[Provider].used + Reservation <= ProviderBudget

\* Mutant: an ask at the limit is still let in.
Admissible_AtLimit(a, rows) ==
  /\ \A b \in ScopesOf[a] : rows[b].out <= MaxOutstanding[b] /\ rows[b].tokens >= 1
  /\ \/ ProviderBudget = 0
     \/ rows[Provider].used + rows[Provider].reserved + Reservation <= ProviderBudget

\* The checks of reserveAskQuota, outstanding work and rate of every scope, then budget
Admissible(a, rows) ==
  /\ \A b \in ScopesOf[a] : rows[b].out < MaxOutstanding[b] /\ rows[b].tokens >= 1
  /\ \/ ProviderBudget = 0
     \/ rows[Provider].used + rows[Provider].reserved + Reservation <= ProviderBudget

Reserved == IF ProviderBudget > 0 THEN Reservation ELSE 0

\* The buckets after a reservation; a throttled admission keeps only the refill.
reserveAskQuota(a, rows) ==
  [b \in Buckets |->
     IF b \in ScopesOf[a]
     THEN [rows[b] EXCEPT !.tokens = @ - 1, !.out = @ + 1,
                          !.reserved = IF b = Provider THEN @ + Reserved ELSE @]
     ELSE rows[b]]

\* A row that lost the insert gives its reservation back; the rate debit stays.
Compensated(a, rows) ==
  [b \in Buckets |-> IF b \in ScopesOf[a] THEN [rows[b] EXCEPT !.tokens = @ - 1] ELSE rows[b]]

Locked(a, gain) == [b \in Buckets |-> IF b \in ScopesOf[a] THEN Refilled(b, gain) ELSE bucket[b]]

\* A window begins with a fresh installation row too.
WindowAfter(rows) ==
  IF rows[Provider].window > windows.last
  THEN [last |-> rows[Provider].window, elapsed |-> FALSE]
  ELSE windows

\* admitAsk for a mention no retained row answers for (the retained one is joined
\* quietly: promoteAskFromWebhookEvent changes nothing here).
Admit(a, gain) ==
  LET rows == Locked(a, gain)
  IN  /\ ask[a] = "none" /\ windows.last < MaxWindows
      /\ windows' = WindowAfter(rows)
      /\ IF Admissible(a, rows)
         THEN \/ /\ bucket' = reserveAskQuota(a, rows)
                 /\ resv' = [resv EXCEPT ![a] = [NoReservation EXCEPT
                       !.st = "held", !.reserved = Reserved, !.since = rows[Provider].window]]
                 /\ ask' = [ask EXCEPT ![a] = "active"]
              \/ bucket' = Compensated(a, rows) /\ UNCHANGED <<resv, ask>>
         ELSE bucket' = rows /\ UNCHANGED <<resv, ask>>
      /\ UNCHANGED runs

-----------------------------------------------------------------------------
(* Execution, receipts and release *)

\* createAskExecutionId: one id per computation; a retry computes again.
StartRun(a) ==
  /\ ask[a] = "active" /\ MapThenSumSet(LAMBDA x : runs[x].started, Asks) < MaxRuns
  /\ runs' = [runs EXCEPT ![a] = [open |-> @.open + 1, started |-> @.started + 1]]
  /\ UNCHANGED <<bucket, resv, ask, windows>>

\* bucketApplicationForReceipt: what a receipt takes from reserved and adds to used.
ReceiptOnly(r) == r.st = "released" /\ r.unknown > 0 /\ r.label # bucket[Provider].window

UsedAfter(r, n) ==
  IF r.known \/ r.st # "released"
  THEN bucket[Provider].used + n
  ELSE Monus(bucket[Provider].used + n, r.unknown)

\* Mutant: the conversion of the reservation is repeated by every receipt.
recordAskProviderUsage_Reconverts(a, n) ==
  LET r == resv[a]
  IN  /\ runs[a].open > 0 /\ r.st \in {"held", "released"} /\ bucket[Provider].present
      /\ runs' = [runs EXCEPT ![a].open = @ - 1]
      /\ resv' = [resv EXCEPT ![a] = [@ EXCEPT !.known = TRUE, !.tokens = @ + n, !.unknown = 0]]
      /\ bucket' = [bucket EXCEPT ![Provider].used = UsedAfter(r, n),
                                  ![Provider].reserved = Monus(@, r.reserved)]
      /\ UNCHANGED <<ask, windows>>

\* Mutant: a late receipt after the release is dropped.
recordAskProviderUsage_LateDropped(a, n) ==
  LET r == resv[a]
  IN  /\ runs[a].open > 0 /\ r.st \in {"held", "released"} /\ bucket[Provider].present
      /\ runs' = [runs EXCEPT ![a].open = @ - 1]
      /\ resv' = [resv EXCEPT ![a] = [@ EXCEPT !.known = TRUE, !.tokens = @ + n,
                                               !.reserved = 0, !.unknown = 0]]
      /\ bucket' = IF r.st = "released"
                   THEN [bucket EXCEPT ![Provider].used = Monus(@, r.unknown)]
                   ELSE [bucket EXCEPT ![Provider].used = UsedAfter(r, n),
                                       ![Provider].reserved = Monus(@, r.reserved)]
      /\ UNCHANGED <<ask, windows>>

\* The receipt of one computation: the first one replaces the reservation or the
\* stand-in that the release charged, later ones add to it.
recordAskProviderUsage(a, n) ==
  LET r == resv[a]
  IN  /\ runs[a].open > 0 /\ r.st \in {"held", "released"} /\ bucket[Provider].present
      /\ runs' = [runs EXCEPT ![a].open = @ - 1]
      /\ IF ReceiptOnly(r)
         THEN /\ resv' = [resv EXCEPT ![a] = [@ EXCEPT !.known = TRUE, !.tokens = @ + n]]
              /\ UNCHANGED bucket
         ELSE /\ resv' = [resv EXCEPT ![a] = [@ EXCEPT !.known = TRUE, !.tokens = @ + n,
                                                       !.reserved = 0, !.unknown = 0]]
              /\ bucket' = [bucket EXCEPT
                   ![Provider].used = UsedAfter(r, n),
                   ![Provider].reserved = IF r.known \/ r.st = "released" THEN @
                                          ELSE Monus(@, r.reserved)]
      /\ UNCHANGED <<ask, windows>>

\* No usage was reported, the reservation is gone, or the execution died.
ForgetRun(a) ==
  /\ runs[a].open > 0
  /\ runs' = [runs EXCEPT ![a].open = @ - 1]
  /\ UNCHANGED <<bucket, resv, ask, windows>>

\* The trigger of the update that ends the ask locks the reservation and reads the
\* provider window, without a lock on the bucket.
ReleaseReads(a) ==
  /\ ask[a] = "active" /\ resv[a].st = "held"
  /\ resv' = [resv EXCEPT ![a].st = "releasing", ![a].label = bucket[Provider].window]
  /\ UNCHANGED <<bucket, ask, runs, windows>>

\* Its updates, installation first: usage nobody reported is charged at the maximum.
release_ask_quota_reservation(a) ==
  LET r == resv[a]
      charge == IF r.known THEN 0 ELSE r.reserved
  IN  /\ r.st = "releasing"
      /\ resv' = [resv EXCEPT ![a] = [@ EXCEPT !.st = "released", !.reserved = 0,
                                               !.unknown = charge]]
      /\ bucket' = [b \in Buckets |->
           IF b \in ScopesOf[a] /\ bucket[b].present
           THEN [bucket[b] EXCEPT
                   !.out = Monus(@, 1),
                   !.reserved = IF b = Provider THEN Monus(@, r.reserved) ELSE @,
                   !.used = IF b = Provider THEN @ + charge ELSE @]
           ELSE bucket[b]]
      /\ ask' = [ask EXCEPT ![a] = "terminal"]
      /\ UNCHANGED <<runs, windows>>

-----------------------------------------------------------------------------
(* The clock and retention *)

WindowElapses ==
  /\ bucket[Provider].present /\ ~windows.elapsed
  /\ windows' = [windows EXCEPT !.elapsed = TRUE]
  /\ UNCHANGED <<bucket, resv, ask, runs>>

\* runRetention: a terminal row goes, and its reservation and receipts with it; a
\* receipt that is still to come finds no reservation.
DropAsk(a) ==
  /\ ask[a] = "terminal"
  /\ ask' = [ask EXCEPT ![a] = "none"]
  /\ resv' = [resv EXCEPT ![a] = NoReservation]
  /\ runs' = [runs EXCEPT ![a].open = 0]
  /\ UNCHANGED <<bucket, windows>>

\* deleteExpiredAskQuotaState: an old bucket with nothing outstanding
deleteExpiredAskQuotaState(b) ==
  /\ bucket[b].present /\ bucket[b].out = 0 /\ bucket[b].reserved = 0
  /\ ~ \E a \in Asks : b \in ScopesOf[a] /\ resv[a].st \in {"held", "releasing"}
  /\ bucket' = [bucket EXCEPT ![b] = NoBucket]
  /\ UNCHANGED <<resv, ask, runs, windows>>

QuotaNext ==
  \/ \E a \in Asks :
       \/ \E gain \in {0, 1} : Admit(a, gain)
       \/ StartRun(a) \/ ForgetRun(a) \/ ReleaseReads(a) \/ DropAsk(a)
       \/ release_ask_quota_reservation(a)
       \/ \E n \in Usages : recordAskProviderUsage(a, n)
  \/ WindowElapses
  \/ \E b \in Buckets : deleteExpiredAskQuotaState(b)

QuotaSpec == QuotaInit /\ [][QuotaNext]_quotaVars

-----------------------------------------------------------------------------
(* Properties *)

\* The rows keep their ranges: no counter of a bucket or reservation goes below zero, no
\* balance above its burst.
QuotaTypeOK ==
  /\ bucket \in [Buckets -> BucketRow] /\ \A b \in Buckets : bucket[b].tokens <= Burst[b]
  /\ resv \in [Asks -> ReservationRow]
  /\ ask \in [Asks -> {"none", "active", "terminal"}]
  /\ runs \in [Asks -> [open: 0 .. MaxRuns, started: 0 .. MaxRuns]]
  /\ windows \in [last: 0 .. MaxWindows, elapsed: BOOLEAN]

Unreleased == {a \in Asks : resv[a].st \in {"held", "releasing"}}

\* The counters of every bucket are exactly what the reservations say, so that no ask
\* slips past a limit and none is lost to a place that nobody frees: through retries,
\* late receipts, the trigger racing an admission, and retention.
OutstandingExact ==
  \A b \in Buckets :
    LET S == {a \in Unreleased : b \in ScopesOf[a]}
    IN  bucket[b].out = Cardinality(S) /\ Cardinality(S) <= MaxOutstanding[b]

\* What is reserved of the provider budget is what the running asks have reserved: no
\* receipt and no release gives the same tokens back twice.
ReservedExact ==
  bucket[Provider].reserved = FoldSet(LAMBDA a, acc : acc + resv[a].reserved, 0, Unreleased)

\* Every computation that reported its usage is counted against the window in which its
\* ask was admitted, if that window is still the current one.
UsageCounted ==
  LET S == {a \in Asks : resv[a].st # "none" /\ resv[a].since = bucket[Provider].window}
  IN  bucket[Provider].present =>
        bucket[Provider].used >= FoldSet(LAMBDA a, acc : acc + resv[a].tokens, 0, S)

\* While every computation stays within its reservation and none is repeated, the
\* installation never commits more than its budget: not through a reservation that
\* straddles a window, nor a release or receipt that lands in the next one.
BudgetHeld ==
  ProviderBudget > 0 /\ (\A n \in Usages : n <= Reservation) /\ (\A a \in Asks : runs[a].started <= 1)
    => bucket[Provider].used + bucket[Provider].reserved <= ProviderBudget

\* What the quota promises: places and reserved tokens are those of the asks that have
\* not been released, receipts are counted, and the budget is held.
QuotaSound ==
  /\ QuotaTypeOK
  /\ OutstandingExact
  /\ ReservedExact
  /\ UsageCounted
  /\ BudgetHeld

=============================================================================
