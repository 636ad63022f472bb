--------------------------- MODULE RepositoryView ---------------------------
(***************************************************************************)
(* The pinned checkout of a pull request head that executions share        *)
(* (src/src/prWorkspace): a per-process cache entry with a reference count *)
(* and a release timer, the preparation that fills it (file list, root     *)
(* directory, credentials, fetch with its sparse fallback, head check,     *)
(* policy snapshot), and the sweep in which any process of the host        *)
(* removes roots whose owner is gone.                                      *)
(*                                                                         *)
(* The live head only moves forward: a head that is force-pushed away and  *)
(* back is outside the model.  The time between creating a root directory  *)
(* and writing its owner marker is shorter than the stale age.             *)
(***************************************************************************)
EXTENDS Integers, FiniteSets

CONSTANTS Hosts,         \* worker processes that share one temp directory
          Viewers,       \* executions that need a view
          HostOf,        \* the process an execution runs in
          MaxViewHeads,  \* bound: heads of the pull request
          MaxRoots,      \* bound: root directories ever created
          CrashingHosts, \* bound: processes that may die
          MaxViews       \* bound: views an execution asks for

ASSUME RepositoryViewAssumption ==
    /\ Hosts # {}
    /\ HostOf \in [Viewers -> Hosts]
    /\ {MaxViewHeads, MaxRoots, MaxViews} \subseteq Nat \ {0}
    /\ CrashingHosts \subseteq Hosts

ViewHeads == 1 .. MaxViewHeads
RootIds == 1 .. MaxRoots

VARIABLES rvHead,     \* the pull request's head on GitHub
          rvAlive,    \* is the process running
          rvEntry,    \* cache entry of each process and head
          rvRoot,     \* root directories in the temp directory
          rvViewer,   \* where each execution is
          rvSweep     \* root a process's sweep found removable, 0 for none

viewVars == <<rvHead, rvAlive, rvEntry, rvRoot, rvViewer, rvSweep>>

(* stage of the preparation in flight; listed and root are what it holds.  *)
Stages == {"none", "list", "allocate", "mark", "credentials", "fetch",
           "sparse", "checkout", "policy", "hand"}

CacheEntry == [refcount : Nat, stage : Stages, listed : 0 .. MaxViewHeads,
               root : 0 .. MaxRoots, view : 0 .. MaxRoots, timer : BOOLEAN]

EmptyEntry == [refcount |-> 0, stage |-> "none", listed |-> 0,
               root |-> 0, view |-> 0, timer |-> FALSE]

(* marker: none, fresh or stale owner heartbeat; aged: not written for     *)
(* longer than the stale age; tree and files: the head checked out and the *)
(* head whose changed files were listed.                                   *)
WorkspaceRoot == [state : {"unused", "live", "removed"}, owner : Hosts,
                  marker : {"none", "fresh", "stale"}, aged : BOOLEAN,
                  token : BOOLEAN, tree : 0 .. MaxViewHeads,
                  files : 0 .. MaxViewHeads]

RepositoryViewTypeOK ==
    /\ rvHead \in ViewHeads
    /\ rvAlive \in [Hosts -> BOOLEAN]
    /\ rvEntry \in [Hosts -> [ViewHeads -> CacheEntry]]
    /\ rvRoot \in [RootIds -> WorkspaceRoot]
    /\ rvViewer \in [Viewers ->
          [pc : {"idle", "waiting", "using", "failing", "done"},
           head : 0 .. MaxViewHeads, views : 0 .. MaxViews]]
    /\ rvSweep \in [Hosts -> 0 .. MaxRoots]

RepositoryViewInit ==
    /\ rvHead = 1
    /\ rvAlive = [p \in Hosts |-> TRUE]
    /\ rvEntry = [p \in Hosts |-> [h \in ViewHeads |-> EmptyEntry]]
    /\ rvRoot = [r \in RootIds |->
                   [state |-> "unused", owner |-> CHOOSE p \in Hosts : TRUE,
                    marker |-> "none", aged |-> FALSE, token |-> FALSE,
                    tree |-> 0, files |-> 0]]
    /\ rvViewer = [u \in Viewers |-> [pc |-> "idle", head |-> 0, views |-> 0]]
    /\ rvSweep = [p \in Hosts |-> 0]

SetEntry(p, h, entry) == rvEntry' = [rvEntry EXCEPT ![p][h] = entry]

-----------------------------------------------------------------------------
(* acquirePrRepositoryView and releasePrRepositoryView                     *)

(* The release timer is cancelled and the reference counted.               *)
Acquired(entry) == [entry EXCEPT !.timer = FALSE, !.refcount = @ + 1]

(* prepareEntry: a view is used, a preparation in flight is joined, else   *)
(* one is started.                                                         *)
acquirePrRepositoryView(u) ==
    /\ rvViewer[u].pc = "idle"
    /\ rvViewer[u].views < MaxViews
    /\ rvAlive[HostOf[u]]
    /\ \E h \in 1 .. rvHead :
         LET entry == Acquired(rvEntry[HostOf[u]][h]) IN
         /\ SetEntry(HostOf[u], h,
              IF entry.view = 0 /\ entry.stage = "none"
              THEN [entry EXCEPT !.stage = "list"] ELSE entry)
         /\ rvViewer' = [rvViewer EXCEPT
              ![u] = [pc |-> IF entry.view # 0 THEN "using" ELSE "waiting",
                      head |-> h, views |-> @.views + 1]]
    /\ UNCHANGED <<rvHead, rvAlive, rvRoot, rvSweep>>

Released_NoTimer(entry) ==
    LET rest == [entry EXCEPT !.refcount = @ - 1]
    IN  IF rest.refcount = 0 /\ rest.view = 0 THEN EmptyEntry ELSE rest

(* The last reference: an entry without a view leaves the cache at once,   *)
(* one with a view is kept for the grace period.                           *)
Released(entry) ==
    LET rest == [entry EXCEPT !.refcount = @ - 1]
    IN  IF rest.refcount > 0 THEN rest
        ELSE IF rest.view = 0 THEN EmptyEntry
        ELSE [rest EXCEPT !.timer = TRUE]

releasePrRepositoryView(u) ==
    /\ rvViewer[u].pc \in {"using", "failing"}
    /\ rvAlive[HostOf[u]]
    /\ SetEntry(HostOf[u], rvViewer[u].head,
                Released(rvEntry[HostOf[u]][rvViewer[u].head]))
    /\ rvViewer' = [rvViewer EXCEPT ![u].pc = "idle"]
    /\ UNCHANGED <<rvHead, rvAlive, rvRoot, rvSweep>>

(* release: heartbeat, marker, credentials and directory go.               *)
ReleasedRoot(root) ==
    [root EXCEPT !.state = "removed", !.marker = "none", !.token = FALSE]

(* The grace period ends: nobody took the view again.                      *)
ReleaseTimerFires(p, h) ==
    /\ rvAlive[p]
    /\ rvEntry[p][h].timer
    /\ rvEntry[p][h].refcount = 0
    /\ rvRoot' = [rvRoot EXCEPT ![rvEntry[p][h].view] = ReleasedRoot(@)]
    /\ SetEntry(p, h, EmptyEntry)
    /\ UNCHANGED <<rvHead, rvAlive, rvViewer, rvSweep>>

-----------------------------------------------------------------------------
(* prepareUncached                                                         *)

Preparing(p, h, stage) == rvAlive[p] /\ rvEntry[p][h].stage = stage

ViewWaiting(p, h) == {u \in Viewers : /\ HostOf[u] = p
                                  /\ rvViewer[u].pc = "waiting"
                                  /\ rvViewer[u].head = h}

(* The preparation rejects: its root is released and every execution that  *)
(* waits for it will give its reference back.                              *)
PreparationFails(p, h) ==
    LET entry == rvEntry[p][h] IN
    /\ rvRoot' = IF entry.root = 0 THEN rvRoot
                 ELSE [rvRoot EXCEPT ![entry.root] = ReleasedRoot(@)]
    /\ SetEntry(p, h, [entry EXCEPT !.stage = "none", !.listed = 0, !.root = 0])
    /\ rvViewer' = [u \in Viewers |->
                      IF u \in ViewWaiting(p, h)
                      THEN [rvViewer[u] EXCEPT !.pc = "failing"] ELSE rvViewer[u]]
    /\ UNCHANGED <<rvHead, rvAlive, rvSweep>>

(* Authentication, listing, disk space or git may fail at every stage but  *)
(* the policy snapshot.                                                    *)
StageFails(p, h) ==
    /\ \E stage \in Stages \ {"none", "policy"} : Preparing(p, h, stage)
    /\ PreparationFails(p, h)

(* The changed files are listed under the head the execution was given;    *)
(* the listing itself is of whatever head is live.                         *)
resolveCanonicalFileList(p, h) ==
    /\ Preparing(p, h, "list")
    /\ SetEntry(p, h, [rvEntry[p][h] EXCEPT !.stage = "allocate",
                                            !.listed = rvHead])
    /\ UNCHANGED <<rvHead, rvAlive, rvRoot, rvViewer, rvSweep>>

UnusedRoots == {r \in RootIds : rvRoot[r].state = "unused"}

(* mkdtemp: the directory exists before its owner marker does.             *)
allocateWorkspaceResource(p, h) ==
    /\ Preparing(p, h, "allocate")
    /\ UnusedRoots # {}
    /\ LET r == CHOOSE r \in UnusedRoots : \A q \in UnusedRoots : r <= q IN
       /\ rvRoot' = [rvRoot EXCEPT ![r].state = "live", ![r].owner = p,
                                   ![r].files = rvEntry[p][h].listed]
       /\ SetEntry(p, h, [rvEntry[p][h] EXCEPT !.stage = "mark", !.root = r])
    /\ UNCHANGED <<rvHead, rvAlive, rvViewer, rvSweep>>

(* writeHeartbeat: the first marker, and then one on every interval.       *)
Marked(root) == [root EXCEPT !.marker = "fresh", !.aged = FALSE]

writeWorkspaceOwnerMarker(p, h) ==
    /\ Preparing(p, h, "mark")
    /\ rvRoot' = [rvRoot EXCEPT ![rvEntry[p][h].root] = Marked(@)]
    /\ SetEntry(p, h, [rvEntry[p][h] EXCEPT !.stage = "credentials"])
    /\ UNCHANGED <<rvHead, rvAlive, rvViewer, rvSweep>>

HeartbeatTick(r) ==
    /\ rvRoot[r].state = "live"
    /\ rvAlive[rvRoot[r].owner]
    /\ rvRoot[r].marker = "stale"
    /\ rvRoot' = [rvRoot EXCEPT ![r] = Marked(@)]
    /\ UNCHANGED <<rvHead, rvAlive, rvEntry, rvViewer, rvSweep>>

createGitCredentialFiles(p, h) ==
    /\ Preparing(p, h, "credentials")
    /\ rvRoot' = [rvRoot EXCEPT ![rvEntry[p][h].root].token = TRUE]
    /\ SetEntry(p, h, [rvEntry[p][h] EXCEPT !.stage = "fetch"])
    /\ UNCHANGED <<rvHead, rvAlive, rvViewer, rvSweep>>

(* A full fetch that times out or fails in git is tried once more, sparse, *)
(* in an emptied root.                                                     *)
sparseFallback(p, h) ==
    /\ Preparing(p, h, "fetch")
    /\ SetEntry(p, h, [rvEntry[p][h] EXCEPT !.stage = "sparse"])
    /\ UNCHANGED rvRoot

(* The fetch takes the pull request's live head.                           *)
fetchPrHead(p, h) ==
    /\ \E stage \in {"fetch", "sparse"} : Preparing(p, h, stage)
    /\ \/ /\ rvRoot' = [rvRoot EXCEPT ![rvEntry[p][h].root].tree = rvHead]
          /\ SetEntry(p, h, [rvEntry[p][h] EXCEPT !.stage = "checkout"])
       \/ sparseFallback(p, h)
    /\ UNCHANGED <<rvHead, rvAlive, rvViewer, rvSweep>>

HeadMatches_Unchecked(p, h) == TRUE

(* rev-parse HEAD against the head the execution was given.                *)
HeadMatches(p, h) == rvRoot[rvEntry[p][h].root].tree = h

CheckoutHead(p, h) ==
    /\ Preparing(p, h, "checkout")
    /\ \/ /\ HeadMatches(p, h)
          /\ SetEntry(p, h, [rvEntry[p][h] EXCEPT !.stage = "policy"])
          /\ UNCHANGED <<rvHead, rvAlive, rvRoot, rvViewer, rvSweep>>
       \/ /\ ~HeadMatches(p, h)
          /\ PreparationFails(p, h)

(* The policy snapshot of the base never fails the view: whatever git      *)
(* does, "absent" and "unavailable" are answers.                           *)
readBasePolicySnapshot(p, h) ==
    /\ Preparing(p, h, "policy")
    /\ SetEntry(p, h, [rvEntry[p][h] EXCEPT !.stage = "hand"])
    /\ UNCHANGED <<rvHead, rvAlive, rvRoot, rvViewer, rvSweep>>

HandedRoot_WithToken(root) == root

(* credentials.cleanup() before the tree is handed to an agent.            *)
HandedRoot(root) == [root EXCEPT !.token = FALSE]

(* The tree is made read-only and indexed, and the view is published to    *)
(* every execution that waits.                                             *)
ViewReady(p, h) ==
    /\ Preparing(p, h, "hand")
    /\ LET entry == rvEntry[p][h] IN
       /\ rvRoot' = [rvRoot EXCEPT ![entry.root] = HandedRoot(@)]
       /\ SetEntry(p, h, [entry EXCEPT !.stage = "none", !.listed = 0,
                                       !.root = 0, !.view = entry.root])
    /\ rvViewer' = [u \in Viewers |->
                      IF u \in ViewWaiting(p, h)
                      THEN [rvViewer[u] EXCEPT !.pc = "using"] ELSE rvViewer[u]]
    /\ UNCHANGED <<rvHead, rvAlive, rvSweep>>

-----------------------------------------------------------------------------
(* sweepStaleOwnedWorkspaces: on every queue report, and when space is low *)

(* liveWorkspaceRoots of a process: roots it marked and has not released.  *)
LiveHere(p, r) == rvRoot[r].owner = p /\ rvRoot[r].marker # "none"

isLiveWorkspaceOwnerMarker_Fresh(r) == rvRoot[r].marker = "fresh"

(* A recent heartbeat, or a stale one whose process still runs.            *)
isLiveWorkspaceOwnerMarker(r) ==
    \/ rvRoot[r].marker = "fresh"
    \/ rvRoot[r].marker = "stale" /\ rvAlive[rvRoot[r].owner]

SweepFinds(p, r) ==
    /\ rvAlive[p]
    /\ rvSweep[p] = 0
    /\ rvRoot[r].state = "live"
    /\ ~LiveHere(p, r)
    /\ ~isLiveWorkspaceOwnerMarker(r)
    /\ rvRoot[r].aged
    /\ rvSweep' = [rvSweep EXCEPT ![p] = r]
    /\ UNCHANGED <<rvHead, rvAlive, rvEntry, rvRoot, rvViewer>>

(* The marker is read again before the directory goes.                     *)
SweepRemoves(p) ==
    /\ rvAlive[p]
    /\ rvSweep[p] # 0
    /\ LET r == rvSweep[p] IN
       rvRoot' = IF LiveHere(p, r) \/ isLiveWorkspaceOwnerMarker(r)
                 THEN rvRoot
                 ELSE [rvRoot EXCEPT ![r] = ReleasedRoot(@)]
    /\ rvSweep' = [rvSweep EXCEPT ![p] = 0]
    /\ UNCHANGED <<rvHead, rvAlive, rvEntry, rvViewer>>

-----------------------------------------------------------------------------
(* The environment                                                         *)

(* A root is not written for longer than the stale age: its process died,  *)
(* or did not run for that long.                                           *)
RootAges(r) ==
    /\ rvRoot[r].state = "live"
    /\ ~rvRoot[r].aged
    /\ rvRoot[r].marker # "none" \/ ~rvAlive[rvRoot[r].owner]
    /\ rvRoot' = [rvRoot EXCEPT
                    ![r].aged = TRUE,
                    ![r].marker = IF @ = "fresh" THEN "stale" ELSE @]
    /\ UNCHANGED <<rvHead, rvAlive, rvEntry, rvViewer, rvSweep>>

HostDies(p) ==
    /\ p \in CrashingHosts
    /\ rvAlive[p]
    /\ rvAlive' = [rvAlive EXCEPT ![p] = FALSE]
    /\ rvEntry' = [rvEntry EXCEPT ![p] = [h \in ViewHeads |-> EmptyEntry]]
    /\ rvViewer' = [u \in Viewers |->
                      IF HostOf[u] = p
                      THEN [rvViewer[u] EXCEPT !.pc = "done"] ELSE rvViewer[u]]
    /\ rvSweep' = [rvSweep EXCEPT ![p] = 0]
    /\ UNCHANGED <<rvHead, rvRoot>>

Push == /\ rvHead < MaxViewHeads
        /\ rvHead' = rvHead + 1
        /\ UNCHANGED <<rvAlive, rvEntry, rvRoot, rvViewer, rvSweep>>

-----------------------------------------------------------------------------
Prepares(p, h) ==
    \/ StageFails(p, h)
    \/ resolveCanonicalFileList(p, h)
    \/ allocateWorkspaceResource(p, h)
    \/ writeWorkspaceOwnerMarker(p, h)
    \/ createGitCredentialFiles(p, h)
    \/ fetchPrHead(p, h)
    \/ CheckoutHead(p, h)
    \/ readBasePolicySnapshot(p, h)
    \/ ViewReady(p, h)

Sweeps(p) == (\E r \in RootIds : SweepFinds(p, r)) \/ SweepRemoves(p)

RepositoryViewNext ==
    \/ \E u \in Viewers : acquirePrRepositoryView(u) \/ releasePrRepositoryView(u)
    \/ \E p \in Hosts, h \in ViewHeads : Prepares(p, h) \/ ReleaseTimerFires(p, h)
    \/ \E p \in Hosts : Sweeps(p) \/ HostDies(p)
    \/ \E r \in RootIds : HeartbeatTick(r) \/ RootAges(r)
    \/ Push

RepositoryViewSpec == RepositoryViewInit /\ [][RepositoryViewNext]_viewVars

(* Executions give their view back, timers run, every running process      *)
(* sweeps again and again, and time passes.                                *)
RepositoryViewFair ==
    /\ \A u \in Viewers : WF_viewVars(releasePrRepositoryView(u))
    /\ \A p \in Hosts : /\ WF_viewVars(\E h \in ViewHeads : Prepares(p, h))
                        /\ WF_viewVars(\E h \in ViewHeads : ReleaseTimerFires(p, h))
                        /\ WF_viewVars(Sweeps(p))
    /\ \A r \in RootIds : WF_viewVars(RootAges(r) /\ ~rvAlive[rvRoot[r].owner])

-----------------------------------------------------------------------------
(* Properties                                                              *)

(* The view an execution works in is there: no timer, no sweep of its own  *)
(* or of another process and no release of another execution removed its   *)
(* root (prRepositoryView.ts, workspaceResource.ts).                       *)
ViewInUseExists ==
    \A u \in Viewers : rvViewer[u].pc = "using" =>
        LET entry == rvEntry[HostOf[u]][rvViewer[u].head]
        IN  entry.view # 0 /\ rvRoot[entry.view].state = "live"

(* What an execution sees, tree and changed files, is of the head its work *)
(* item is bound to, though pushes land between listing and fetching       *)
(* (localPrWorkspace.ts head check, listPullRequestFiles.ts).              *)
ViewIsPinned ==
    \A u \in Viewers : rvViewer[u].pc = "using" =>
        LET root == rvRoot[rvEntry[HostOf[u]][rvViewer[u].head].view]
        IN  root.tree = rvViewer[u].head /\ root.files = rvViewer[u].head

(* An installation token is in a root only while a running process is      *)
(* preparing it, or in the leftovers of a dead one: never in a tree an     *)
(* agent reads, never after a failed preparation (gitCredentials.ts).      *)
TokenOnlyInPreparation ==
    \A r \in RootIds : rvRoot[r].token /\ rvAlive[rvRoot[r].owner] =>
        \E h \in ViewHeads : rvEntry[rvRoot[r].owner][h].root = r

(* Every root directory is removed in the end, through its entry's timer   *)
(* or by the sweep of a process that outlived its owner.                   *)
RootsReclaimed ==
    \A r \in RootIds : (rvRoot[r].state = "live")
        ~> (rvRoot[r].state = "removed" \/ ~\E p \in Hosts : rvAlive[p])

(* What a checkout promises its users: it exists, it is the pinned head,   *)
(* and it carries no credentials.                                          *)
ViewSound == RepositoryViewTypeOK /\ ViewInUseExists /\ ViewIsPinned /\ TokenOnlyInPreparation

=============================================================================
