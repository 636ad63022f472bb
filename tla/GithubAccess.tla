---------------------------- MODULE GithubAccess ----------------------------
(***************************************************************************)
(* What the App may do in one repository: the permissions GitHub grants,   *)
(* the preflight that observes them (agentWork/installationSurface.ts),    *)
(* the ordered observation kept in the database and the availability of a  *)
(* head's check listing (agentWork/githubCapabilityRepository.ts).  A      *)
(* runner is an execution of review work or of the CI projector in one     *)
(* worker process; runners of one process join one pending preflight.      *)
(***************************************************************************)
EXTENDS Integers, FiniteSets

CONSTANTS
  AccessRunners,    \* records [id, host, kind, runs]: a review or a projector that runs at most so often (bound)
  MaxAccessMoves,   \* grants given or taken away, aborts, failed preflights and listings (bound)
  PreflightBudget   \* maxAttempts: unavailable preflights of one review

ASSUME AccessAssumption ==
  /\ \A r \in AccessRunners : r.kind \in {"review", "projector"} /\ r.runs \in Nat
  /\ MaxAccessMoves \in Nat
  /\ PreflightBudget \in Nat \ {0}

VARIABLES
  gaGrants,   \* operations GitHub allows now
  gaLacked,   \* operations that were not allowed at some time
  gaChanges, gaFaults,
  gaSeq,      \* github_capability_observation_generation_seq
  gaStored,   \* the row of github_repository_capabilities
  gaSource,   \* the head's github_head_ci_sources row of "checks"
  gaClosed,   \* times the source was closed by a denial
  gaListed,   \* gaClosed when the last complete listing on record was read
  gaPending,  \* host -> preflights[repository]
  gaToken,    \* host -> scopedTokens[repository]
  gaRun       \* runner -> its execution

accessVars == <<gaGrants, gaLacked, gaChanges, gaFaults, gaSeq, gaStored,
                gaSource, gaClosed, gaListed, gaPending, gaToken, gaRun>>

(* One essential operation and the optional read of the check listing.     *)
Operations == {"essential", "checksRead"}
AccessHosts == {r.host : r \in AccessRunners}
NoObservation == [gen |-> 0, cap |-> [o \in Operations |-> "unknown"]]
NoPreflight == [gen |-> 0, at |-> "none", waiters |-> {}, meta |-> {}]
NoToken == [age |-> "none", key |-> {}, perms |-> {}]
NoSource == [gen |-> -1, access |-> "unknown", listing |-> TRUE, unread |-> 0]
RestingRun == [at |-> "idle", runs |-> 0, misses |-> 0, since |-> 0, obs |-> NoObservation,
               availGen |-> 0, seen |-> "none", seenAt |-> 0, abort |-> FALSE]

AccessInit ==
  /\ gaGrants = Operations /\ gaLacked = {}
  /\ gaChanges = 0 /\ gaFaults = 0 /\ gaSeq = 0
  /\ gaStored = NoObservation /\ gaSource = NoSource /\ gaClosed = 0 /\ gaListed = -1
  /\ gaPending = [h \in AccessHosts |-> NoPreflight]
  /\ gaToken = [h \in AccessHosts |-> NoToken]
  /\ gaRun = [r \in AccessRunners |-> RestingRun]

AccessFault == gaChanges + gaFaults < MaxAccessMoves /\ gaFaults' = gaFaults + 1
RunGoes(r, run) == gaRun' = [gaRun EXCEPT ![r] = run]

GrantChanges(o) ==
  /\ gaChanges + gaFaults < MaxAccessMoves /\ gaChanges' = gaChanges + 1
  /\ gaGrants' = IF o \in gaGrants THEN gaGrants \ {o} ELSE gaGrants \cup {o}
  /\ gaLacked' = gaLacked \cup (Operations \ gaGrants')
  /\ UNCHANGED <<gaFaults, gaSeq, gaStored, gaSource, gaClosed, gaListed, gaPending, gaToken, gaRun>>

-----------------------------------------------------------------------------
(* Observations *)

capabilityObservationUnconfirmed(obs) == \E o \in Operations : obs.cap[o] = "unknown"

installationCapabilitiesFromPermissions(gen, permissions) ==
  [gen |-> gen, cap |-> [o \in Operations |-> IF o \in permissions THEN "available" ELSE "denied"]]

unavailableObservation_Denied(gen) ==
  [gen |-> gen, cap |-> [o \in Operations |-> "denied"]]

(* A preflight that failed says nothing: unknownInstallationCapabilities.  *)
unavailableObservation(gen) ==
  [gen |-> gen, cap |-> [o \in Operations |-> "unknown"]]

(* syncSources: a newer observation, or a denial of the same one, closes   *)
(* or reopens the source; a change of access asks for a fresh listing.     *)
syncSources(obs) ==
  LET access == obs.cap["checksRead"]
      newer == \/ gaSource.gen < obs.gen
               \/ gaSource.gen = obs.gen /\ access = "denied" /\ gaSource.access # "denied"
  IN IF ~newer THEN gaSource
     ELSE [gen |-> obs.gen, access |-> access, unread |-> 0,
           listing |-> gaSource.access # access \/ gaSource.listing]

SourceBecomes(source) ==
  /\ gaSource' = source
  /\ gaClosed' = IF source.access = "denied" /\ gaSource.access # "denied" THEN gaClosed + 1 ELSE gaClosed

(* saveGithubCapabilityObservation with its fan-out to the head: only a    *)
(* newer generation, and a known denial survives an unknown.               *)
Merged(obs) ==
  [gen |-> obs.gen,
   cap |-> [o \in Operations |-> IF obs.cap[o] = "unknown" /\ gaStored.cap[o] = "denied"
                                   THEN "denied" ELSE obs.cap[o]]]
FanOut(obs) ==
  /\ gaStored' = obs
  /\ SourceBecomes(IF gaSource = NoSource THEN gaSource ELSE syncSources(obs))
  /\ UNCHANGED gaListed

saveGithubCapabilityObservation(obs) ==
  IF gaStored.gen < obs.gen THEN FanOut(Merged(obs))
                            ELSE UNCHANGED <<gaStored, gaSource, gaClosed, gaListed>>

(* recordGithubCapabilityDenial: of the observation the runner worked on.  *)
recordGithubCapabilityDenial(gen, o) ==
  IF gaStored.gen = gen /\ gen > 0
    THEN FanOut([gaStored EXCEPT !.cap[o] = "denied"])
    ELSE UNCHANGED <<gaStored, gaSource, gaClosed, gaListed>>

-----------------------------------------------------------------------------
(* A runner gets its policy: assignInstallationPolicy *)

(* A stored observation without an unknown is taken as it is, whatever its *)
(* age; otherwise a generation is drawn for a preflight.                   *)
loadGithubCapabilityObservation(r) ==
  LET run == gaRun[r] IN
  /\ run.at \in {"idle", "retry"} /\ (run.at = "idle" => run.runs < r.runs)
  /\ IF gaStored # NoObservation /\ ~capabilityObservationUnconfirmed(gaStored)
       THEN /\ RunGoes(r, [run EXCEPT !.at = "policy", !.obs = gaStored, !.since = gaChanges,
                                      !.runs = IF run.at = "idle" THEN @ + 1 ELSE @])
            /\ UNCHANGED gaSeq
       ELSE /\ gaSeq' = gaSeq + 1
            /\ RunGoes(r, [run EXCEPT !.at = "numbered", !.since = gaChanges,
                             !.obs = [NoObservation EXCEPT !.gen = gaSeq + 1],
                             !.runs = IF run.at = "idle" THEN @ + 1 ELSE @])
  /\ UNCHANGED <<gaGrants, gaLacked, gaChanges, gaFaults, gaStored, gaSource, gaClosed, gaListed, gaPending, gaToken>>

(* preflight: join the pending one, with its generation, or start one.     *)
preflight(r) ==
  LET h == r.host  entry == gaPending[h] IN
  /\ gaRun[r].at = "numbered"
  /\ gaPending' = [gaPending EXCEPT ![h] =
       IF entry # NoPreflight THEN [entry EXCEPT !.waiters = entry.waiters \cup {r}]
       ELSE [gen |-> gaRun[r].obs.gen, at |-> "lookup", waiters |-> {r}, meta |-> {}]]
  /\ RunGoes(r, [gaRun[r] EXCEPT !.at = "waiting"])
  /\ UNCHANGED <<gaGrants, gaLacked, gaChanges, gaFaults, gaSeq, gaStored, gaSource, gaClosed, gaListed, gaToken>>

(* All callers that still wait get the answer; the entry goes.             *)
Resolved(h, at, obs) ==
  /\ gaPending' = [gaPending EXCEPT ![h] = NoPreflight]
  /\ gaRun' = [r \in AccessRunners |->
       IF r \in gaPending[h].waiters THEN [gaRun[r] EXCEPT !.at = at, !.obs = obs] ELSE gaRun[r]]

(* The repository's installation, and a token of exactly those grants: the *)
(* cached one when it was minted for the same set and is not near expiry.  *)
lookupRepositoryInstallation(h) ==
  LET entry == gaPending[h]
      token == gaToken[h]
      reusable == token.age = "fresh" /\ token.key = gaGrants /\ gaGrants \subseteq token.perms
  IN
  /\ entry.at = "lookup"
  /\ IF "essential" \notin gaGrants \/ reusable
       THEN Resolved(h, "answered", installationCapabilitiesFromPermissions(entry.gen, gaGrants))
       ELSE /\ gaPending' = [gaPending EXCEPT ![h] = [entry EXCEPT !.at = "mint", !.meta = gaGrants]]
            /\ UNCHANGED gaRun
  /\ UNCHANGED <<gaGrants, gaLacked, gaChanges, gaFaults, gaSeq, gaStored, gaSource, gaClosed, gaListed, gaToken>>

scopedToken(h) ==
  LET entry == gaPending[h] IN
  /\ entry.at = "mint"
  /\ gaToken' = [gaToken EXCEPT ![h] = [age |-> "fresh", key |-> entry.meta, perms |-> gaGrants]]
  /\ Resolved(h, "answered",
              installationCapabilitiesFromPermissions(entry.gen, entry.meta \cap gaGrants))
  /\ UNCHANGED <<gaGrants, gaLacked, gaChanges, gaFaults, gaSeq, gaStored, gaSource, gaClosed, gaListed>>

(* The lookup or the mint fails, or two seconds pass: unknown access with  *)
(* a token still usable, otherwise preflight_unavailable.                  *)
PreflightFails(h) ==
  /\ gaPending[h] # NoPreflight /\ AccessFault
  /\ IF gaToken[h].age # "none"
       THEN Resolved(h, "answered", unavailableObservation(gaPending[h].gen))
       ELSE Resolved(h, "unavailable", NoObservation)
  /\ UNCHANGED <<gaGrants, gaLacked, gaChanges, gaSeq, gaStored, gaSource, gaClosed, gaListed, gaToken>>

(* A token nears its expiry, then expires.                                 *)
TokenAges(h) ==
  /\ gaToken[h] # NoToken
  /\ gaToken' = [gaToken EXCEPT ![h] = IF @.age = "fresh" THEN [@ EXCEPT !.age = "near"] ELSE NoToken]
  /\ UNCHANGED <<gaGrants, gaLacked, gaChanges, gaFaults, gaSeq, gaStored, gaSource, gaClosed, gaListed, gaPending, gaRun>>

leavePreflight_CancelsAll(h, r) ==
  /\ gaPending' = [gaPending EXCEPT ![h] = NoPreflight]
  /\ gaRun' = [x \in AccessRunners |->
       IF x \in gaPending[h].waiters THEN [gaRun[x] EXCEPT !.at = "stopped"] ELSE gaRun[x]]

(* joinPreflight: a waiter's abort is its own; the last one to leave       *)
(* cancels the preflight.                                                  *)
leavePreflight(h, r) ==
  LET entry == gaPending[h] IN
  /\ gaPending' = [gaPending EXCEPT ![h] =
       IF entry.waiters = {r} THEN NoPreflight
                              ELSE [entry EXCEPT !.waiters = entry.waiters \ {r}]]
  /\ RunGoes(r, [gaRun[r] EXCEPT !.at = "stopped", !.abort = TRUE])

AbortRunner(r) ==
  /\ gaRun[r].at = "waiting" /\ AccessFault
  /\ leavePreflight(r.host, r)
  /\ UNCHANGED <<gaGrants, gaLacked, gaChanges, gaSeq, gaStored, gaSource, gaClosed, gaListed, gaToken>>

(* The answer is saved; a review works on its own observation, the         *)
(* projector on what is stored.                                            *)
SaveAnswer(r) ==
  /\ gaRun[r].at = "answered"
  /\ saveGithubCapabilityObservation(gaRun[r].obs)
  /\ RunGoes(r, [gaRun[r] EXCEPT !.at = "policy",
                   !.obs = IF r.kind = "review" THEN @ ELSE gaStored'])
  /\ UNCHANGED <<gaGrants, gaLacked, gaChanges, gaFaults, gaSeq, gaPending, gaToken>>

Rest(run) == [RestingRun EXCEPT !.runs = run.runs]

(* The durable count of unavailable preflights of the work item.           *)
changeGithubPreflightFailureCount(run, reset) == IF reset THEN 0 ELSE run.misses + 1

(* assertEssentialInstallationCapabilities, and the durable count of       *)
(* unavailable preflights: retried within its budget, reset by access.     *)
ensureReviewAccess(r) ==
  LET run == gaRun[r]
      access == IF run.at = "unavailable" THEN "unknown" ELSE run.obs.cap["essential"]
  IN
  /\ run.at \in {"policy", "unavailable"}
  /\ RunGoes(r, CASE access = "denied" -> [run EXCEPT !.at = "denied"]
                  [] access = "available" -> [run EXCEPT !.at = "working",
                                                          !.misses = changeGithubPreflightFailureCount(run, TRUE)]
                  [] access = "unknown" /\ r.kind = "projector" ->
                       IF run.at = "policy" THEN [run EXCEPT !.at = "working"] ELSE Rest(run)
                  [] OTHER -> IF changeGithubPreflightFailureCount(run, FALSE) < PreflightBudget
                                THEN [run EXCEPT !.at = "retry",
                                                 !.misses = changeGithubPreflightFailureCount(run, FALSE)]
                                ELSE [run EXCEPT !.at = "exhausted"])
  /\ UNCHANGED <<gaGrants, gaLacked, gaChanges, gaFaults, gaSeq, gaStored, gaSource, gaClosed, gaListed, gaPending, gaToken>>

(* guard: a call the endpoint refuses ends in a recorded denial; only an   *)
(* essential one ends the review.                                          *)
CallEndpoint(r, o) ==
  /\ gaRun[r].at = "working" /\ r.kind = "review"
  /\ IF o \in gaGrants \/ gaRun[r].obs.cap[o] = "denied"
       THEN UNCHANGED <<gaStored, gaSource, gaClosed, gaListed>>
       ELSE recordGithubCapabilityDenial(gaRun[r].obs.gen, o)
  /\ RunGoes(r, IF o = "essential" /\ o \notin gaGrants THEN [gaRun[r] EXCEPT !.at = "denied"]
                                                       ELSE Rest(gaRun[r]))
  /\ UNCHANGED <<gaGrants, gaLacked, gaChanges, gaFaults, gaSeq, gaPending, gaToken>>

EndRun(r) ==
  /\ gaRun[r].at \in {"denied", "exhausted", "stopped"}
  /\ RunGoes(r, Rest(gaRun[r]))
  /\ UNCHANGED <<gaGrants, gaLacked, gaChanges, gaFaults, gaSeq, gaStored, gaSource, gaClosed, gaListed, gaPending, gaToken>>

-----------------------------------------------------------------------------
(* The head's check listing *)

UnknownReadLimit == 3

(* headCiListingPhase for a source the overlay describes.                  *)
NeedsListing(source) ==
  /\ source.access # "denied"
  /\ ~(source.access = "unknown" /\ source.unread >= UnknownReadLimit)
  /\ source.access = "unknown" \/ source.listing

(* loadGithubCiSourceAvailability: the head is locked, the row synced with *)
(* the stored observation, and its generation kept for the record.         *)
loadGithubCiSourceAvailability(r) ==
  /\ gaRun[r].at = "working" /\ r.kind = "projector"
  /\ SourceBecomes(syncSources(gaStored)) /\ UNCHANGED gaListed
  /\ RunGoes(r, IF NeedsListing(gaSource') THEN [gaRun[r] EXCEPT !.at = "listing", !.availGen = gaStored.gen]
                                           ELSE Rest(gaRun[r]))
  /\ UNCHANGED <<gaGrants, gaLacked, gaChanges, gaFaults, gaSeq, gaStored, gaPending, gaToken>>

(* readCiStatusSources: a listing, whole or cut short, a confirmed denial  *)
(* which is recorded first, or an error that says nothing.                 *)
readCiStatusSources(r) ==
  LET run == gaRun[r] IN
  /\ run.at = "listing"
  /\ \/ /\ "checksRead" \in gaGrants
        /\ \E result \in {"complete", "partial"} : 
             RunGoes(r, [run EXCEPT !.at = "read", !.seen = result, !.seenAt = gaClosed])
        /\ UNCHANGED <<gaFaults, gaStored, gaSource, gaClosed, gaListed>>
     \/ /\ "checksRead" \notin gaGrants
        /\ RunGoes(r, [run EXCEPT !.at = "read", !.seen = "denied"])
        /\ recordGithubCapabilityDenial(run.obs.gen, "checksRead")
        /\ UNCHANGED gaFaults
     \/ /\ AccessFault /\ RunGoes(r, [run EXCEPT !.at = "read", !.seen = "unknown"])
        /\ UNCHANGED <<gaStored, gaSource, gaClosed, gaListed>>
  /\ UNCHANGED <<gaGrants, gaLacked, gaChanges, gaSeq, gaPending, gaToken>>

ReadApplies_LiftsDenial(source, run) == source.gen = run.availGen

ReadApplies_AnyGeneration(source, run) == ~(source.access = "denied" /\ run.seen # "denied")

(* A read counts for the observation it was made under, and never lifts a  *)
(* denial.                                                                 *)
ReadApplies(source, run) ==
  source.gen = run.availGen /\ ~(source.access = "denied" /\ run.seen # "denied")

recordGithubCiSourceRead(r) ==
  LET run == gaRun[r]
      synced == syncSources(gaStored)
      access == IF run.seen \in {"complete", "partial"} THEN "available" ELSE run.seen
  IN
  /\ run.at = "read"
  /\ IF ReadApplies(synced, run)
       THEN /\ SourceBecomes([synced EXCEPT !.access = access, !.listing = run.seen # "complete",
                                !.unread = IF access = "unknown" THEN @ + 1 ELSE 0])
            /\ gaListed' = IF run.seen = "complete" THEN run.seenAt ELSE gaListed
       ELSE SourceBecomes(synced) /\ UNCHANGED gaListed
  /\ RunGoes(r, Rest(run))
  /\ UNCHANGED <<gaGrants, gaLacked, gaChanges, gaFaults, gaSeq, gaStored, gaPending, gaToken>>

(* Retention drops the observation of a repository without work.           *)
deleteExpiredGithubCapabilities ==
  /\ gaStored # NoObservation /\ \A r \in AccessRunners : r.kind = "review" => gaRun[r].at = "idle"
  /\ gaStored' = NoObservation
  /\ UNCHANGED <<gaGrants, gaLacked, gaChanges, gaFaults, gaSeq, gaSource, gaClosed, gaListed, gaPending, gaToken, gaRun>>

AccessNext ==
  \/ \E o \in Operations : GrantChanges(o)
  \/ \E h \in AccessHosts :
       lookupRepositoryInstallation(h) \/ scopedToken(h) \/ PreflightFails(h) \/ TokenAges(h)
  \/ \E r \in AccessRunners :
       \/ loadGithubCapabilityObservation(r) \/ preflight(r) \/ AbortRunner(r) \/ SaveAnswer(r)
       \/ ensureReviewAccess(r) \/ (\E o \in Operations : CallEndpoint(r, o)) \/ EndRun(r)
       \/ loadGithubCiSourceAvailability(r) \/ readCiStatusSources(r) \/ recordGithubCiSourceRead(r)
  \/ deleteExpiredGithubCapabilities

AccessSpec == AccessInit /\ [][AccessNext]_accessVars

-----------------------------------------------------------------------------
(* Properties *)

\* Observations are numbered by the sequence and say something of every operation.
AccessTypeOK ==
  /\ gaGrants \subseteq Operations /\ gaLacked \subseteq Operations
  /\ {gaChanges, gaFaults} \subseteq 0 .. MaxAccessMoves
  /\ gaStored.gen \in 0 .. gaSeq
  /\ \A o \in Operations : gaStored.cap[o] \in {"unknown", "available", "denied", "unavailable"}
  /\ gaSource.gen \in -1 .. gaSeq /\ gaListed \in -1 .. gaClosed
  /\ \A h \in AccessHosts : gaPending[h].waiters \subseteq AccessRunners
  /\ \A r \in AccessRunners :
       gaRun[r].at \in {"idle", "numbered", "waiting", "answered", "unavailable", "policy", "working",
                        "listing", "read", "retry", "denied", "exhausted", "stopped"}

(* A source that claims a complete listing (so that the head may be called *)
(* passing) was listed completely after it was last closed: a listing read *)
(* before a denial and recorded after the grant came back does not count.  *)
CompleteMeansListed ==
  gaSource.access = "available" /\ ~gaSource.listing => gaListed = gaClosed

(* A timeout, a failed mint or a lost answer never turns into a confirmed  *)
(* refusal: a review ends as denied only where GitHub did lack the grant.  *)
DeniedIsReal ==
  \A r \in AccessRunners : gaRun[r].at = "denied" => "essential" \in gaLacked

(* A caller of a joined preflight is stopped by its own abort only.        *)
AbortIsPrivate ==
  \A r \in AccessRunners : gaRun[r].at = "stopped" => gaRun[r].abort

(* Within one observation a denial is final: a listing answered before it, *)
(* or a slower preflight, does not reopen the source.                      *)
DenialHolds ==
  [][gaSource.access = "denied" /\ gaSource'.access # "denied"
       => gaSource'.gen > gaSource.gen]_accessVars

(* What the stored observations promise: a listing is called complete only *)
(* when it is, a denial stands until a newer observation, nobody is denied *)
(* what was granted all along, and an abort stops only its own execution.  *)
AccessSound ==
  /\ [](AccessTypeOK /\ CompleteMeansListed /\ DeniedIsReal /\ AbortIsPrivate)
  /\ DenialHolds

=============================================================================
