--------------------------- MODULE WorkspaceSearch ---------------------------
(***************************************************************************)
(* Search in pinned checkouts (src/src/prWorkspace/fff): readers share one *)
(* search host, a child process reached over IPC that keeps a bounded,     *)
(* least-recently-used map of indexes.  A request that misses its deadline *)
(* retires the host and fails everything pending; a search that cannot use *)
(* the host falls back to git grep.                                        *)
(*                                                                         *)
(* Several searches of one reader may run at once (Code Mode admits four   *)
(* host calls), and one may outlive the reader's disposal.                 *)
(***************************************************************************)
EXTENDS Integers, Sequences, FiniteSets

CONSTANTS Readers,          \* pinned readers, each with its own index key
          Searches,         \* calls of search
          ReaderOf,         \* the reader a search belongs to
          MaxLiveIndexes,   \* LOCAL_WORKSPACE_FFF_MAX_LIVE_INDEXES
          MaxHosts,         \* bound: hosts spawned
          TooLarge          \* readers whose tree is above the file cap

ASSUME WorkspaceSearchAssumption ==
    /\ ReaderOf \in [Searches -> Readers]
    /\ MaxLiveIndexes \in Nat \ {0}
    /\ MaxHosts \in Nat
    /\ TooLarge \subseteq Readers

VARIABLES wsHost,      \* the running host's number, 0 for none
          wsSpawned,   \* hosts spawned so far
          wsBackoff,   \* is a respawn refused for now
          wsFinders,   \* keys of the host's indexes, least recently used first
          wsNextId,    \* the next request id
          wsPending,   \* request ids the client waits for
          wsJobs,      \* requests at a host, and replies on their way back
          wsReader,    \* what each reader knows of its index
          wsSearch     \* where each search is

searchVars == <<wsHost, wsSpawned, wsBackoff, wsFinders, wsNextId,
                wsPending, wsJobs, wsReader, wsSearch>>

NoSearch == "none"

Jobs == [id : Nat, host : Nat, op : {"open", "grep", "close"},
         reader : Readers, search : Searches \cup {NoSearch},
         at : {"sent", "scanning", "ready", "too_large", "ok", "error"}]

WorkspaceSearchTypeOK ==
    /\ wsHost \in Nat /\ wsSpawned \in Nat /\ wsBackoff \in BOOLEAN
    /\ wsFinders \in Seq(Readers)
    /\ wsNextId \in Nat \ {0}
    /\ wsPending \subseteq 1 .. wsNextId - 1
    /\ wsJobs \subseteq Jobs
    /\ wsReader \in [Readers -> [index : Nat, known : {"pending", "ready", "none"},
                                 opened : BOOLEAN, disposed : BOOLEAN]]
    /\ wsSearch \in [Searches ->
          [pc : {"idle", "opening", "granted", "grepping", "done"}, awaits : Nat,
           answeredBy : Searches \cup {NoSearch, "git"}]]

WorkspaceSearchInit ==
    /\ wsHost = 0 /\ wsSpawned = 0 /\ wsBackoff = FALSE
    /\ wsFinders = <<>>
    /\ wsNextId = 1 /\ wsPending = {} /\ wsJobs = {}
    /\ wsReader = [r \in Readers |-> [index |-> 0, known |-> "pending",
                                      opened |-> FALSE, disposed |-> FALSE]]
    /\ wsSearch = [x \in Searches |-> [pc |-> "idle", awaits |-> 0,
                                       answeredBy |-> NoSearch]]

-----------------------------------------------------------------------------
(* The client: one child, numbered requests                                *)

(* sendRequest: spawns a host when there is none; ids are never reused.        *)
Accepts == wsHost # 0 \/ ~wsBackoff

RequestId == wsNextId

HostAsked == IF wsHost = 0 THEN wsSpawned + 1 ELSE wsHost

sendRequest(op, r, x) ==
    /\ wsHost' = HostAsked
    /\ wsSpawned' = IF wsHost = 0 THEN wsSpawned + 1 ELSE wsSpawned
    /\ wsNextId' = RequestId + 1
    /\ wsPending' = wsPending \cup {RequestId}
    /\ wsJobs' = wsJobs \cup {[id |-> RequestId, host |-> HostAsked, op |-> op,
                               reader |-> r, search |-> x, at |-> "sent"]}
    /\ UNCHANGED <<wsBackoff, wsFinders>>

clientVars == <<wsHost, wsSpawned, wsBackoff, wsFinders, wsNextId,
                wsPending, wsJobs>>

AnsweredByGit(x) == [wsSearch[x] EXCEPT !.pc = "done", !.awaits = 0,
                                        !.answeredBy = "git"]

(* A failed request: the reader forgets whatever index promise it holds,   *)
(* and every search that waited for this one runs on git grep.             *)
FailedReaders(ids) ==
    [r \in Readers |->
        IF \E j \in wsJobs : j.id \in ids /\ j.reader = r /\ j.op # "close"
        THEN [wsReader[r] EXCEPT !.index = 0, !.known = "pending"]
        ELSE wsReader[r]]

FailedSearches(ids) ==
    [x \in Searches |-> IF wsSearch[x].awaits \in ids
                        THEN AnsweredByGit(x) ELSE wsSearch[x]]

failPending_Kept(ids) == {}

(* failPending rejects everything pending, whatever request it was.        *)
failPending(ids) == ids

(* retire: the child is killed, its unanswered requests go with it, and    *)
(* everything pending fails.  Replies it had sent may still arrive.        *)
retireHost ==
    /\ wsHost # 0
    /\ wsHost' = 0
    /\ wsBackoff' = TRUE
    /\ wsFinders' = <<>>
    /\ wsPending' = wsPending \ failPending(wsPending)
    /\ wsJobs' = {j \in wsJobs : j.at \notin {"sent", "scanning"}}
    /\ wsReader' = FailedReaders(failPending(wsPending))
    /\ wsSearch' = FailedSearches(failPending(wsPending))
    /\ UNCHANGED <<wsSpawned, wsNextId>>

(* The host exits, or a request misses its deadline.                       *)
HostExits == retireHost

DeadlineDue_GrepOnly == \E j \in wsJobs : j.id \in wsPending /\ j.op = "grep"

DeadlineDue == wsPending # {}

RequestDeadline == DeadlineDue /\ retireHost

BackoffEnds == /\ wsBackoff
               /\ wsSpawned < MaxHosts
               /\ wsBackoff' = FALSE
               /\ UNCHANGED <<wsHost, wsSpawned, wsFinders, wsNextId,
                              wsPending, wsJobs, wsReader, wsSearch>>

-----------------------------------------------------------------------------
(* search                                                                  *)

(* The first search of a reader opens its index; later ones share it.      *)
searchCheckout(x) ==
    LET r == ReaderOf[x] IN
    /\ wsSearch[x].pc = "idle"
    /\ \/ /\ wsReader[r].index = 0
          /\ IF Accepts
             THEN /\ sendRequest("open", r, x)
                  /\ wsReader' = [wsReader EXCEPT ![r].index = RequestId,
                                                  ![r].known = "pending"]
                  /\ wsSearch' = [wsSearch EXCEPT ![x].pc = "opening",
                                                  ![x].awaits = RequestId]
             ELSE /\ wsSearch' = [wsSearch EXCEPT ![x] = AnsweredByGit(x)]
                  /\ UNCHANGED <<clientVars, wsReader>>
       \/ /\ wsReader[r].index # 0 /\ wsReader[r].known = "pending"
          /\ wsSearch' = [wsSearch EXCEPT ![x].pc = "opening",
                                          ![x].awaits = wsReader[r].index]
          /\ UNCHANGED <<clientVars, wsReader>>
       \/ /\ wsReader[r].index # 0 /\ wsReader[r].known = "none"
          /\ wsSearch' = [wsSearch EXCEPT ![x] = AnsweredByGit(x)]
          /\ UNCHANGED <<clientVars, wsReader>>
       \/ /\ wsReader[r].index # 0 /\ wsReader[r].known = "ready"
          /\ wsSearch' = [wsSearch EXCEPT ![x].pc = "granted"]
          /\ UNCHANGED <<clientVars, wsReader>>

(* A search that holds an index asks the host; a host in backoff is a      *)
(* failure like any other.                                                 *)
grepFffIndex(x) ==
    /\ wsSearch[x].pc = "granted"
    /\ IF Accepts
       THEN /\ sendRequest("grep", ReaderOf[x], x)
            /\ wsSearch' = [wsSearch EXCEPT ![x].pc = "grepping",
                                            ![x].awaits = RequestId]
            /\ UNCHANGED wsReader
       ELSE /\ wsSearch' = [wsSearch EXCEPT ![x] = AnsweredByGit(x)]
            /\ wsReader' = [wsReader EXCEPT ![ReaderOf[x]].index = 0,
                                            ![ReaderOf[x]].known = "pending"]
            /\ UNCHANGED clientVars

(* A reply whose id nobody waits for is dropped.                           *)
Dropped(j) ==
    /\ j.id \notin wsPending
    /\ wsJobs' = wsJobs \ {j}
    /\ UNCHANGED <<wsHost, wsSpawned, wsBackoff, wsFinders, wsNextId,
                   wsPending, wsReader, wsSearch>>

Answered(j) == /\ wsPending' = wsPending \ {j.id}
              /\ wsJobs' = wsJobs \ {j}
              /\ UNCHANGED <<wsHost, wsSpawned, wsBackoff, wsFinders,
                             wsNextId>>

closeAfterOpen_Never(r) == FALSE

(* openIndex: an index that arrives after dispose is closed again.         *)
closeAfterOpen(r) == wsReader[r].disposed

(* onMessage for open.  The searches that waited go on in later steps:     *)
(* their grep, or git grep, follows.                                       *)
openIndex(j) ==
    /\ j.op = "open"
    /\ j.id \in wsPending
    /\ \/ /\ j.at = "ready"
          /\ IF closeAfterOpen(j.reader) /\ wsHost # 0
             THEN /\ wsPending' = (wsPending \ {j.id}) \cup {RequestId}
                  /\ wsJobs' = (wsJobs \ {j}) \cup
                        {[id |-> RequestId, host |-> wsHost, op |-> "close",
                          reader |-> j.reader, search |-> NoSearch,
                          at |-> "sent"]}
                  /\ wsNextId' = RequestId + 1
                  /\ UNCHANGED <<wsHost, wsSpawned, wsBackoff, wsFinders>>
             ELSE Answered(j)
          /\ wsReader' = [wsReader EXCEPT
                ![j.reader].opened = TRUE,
                ![j.reader].known = IF wsReader[j.reader].index # j.id THEN @
                                    ELSE IF wsReader[j.reader].disposed
                                    THEN "none" ELSE "ready"]
          /\ wsSearch' = [x \in Searches |->
                IF wsSearch[x].awaits # j.id THEN wsSearch[x]
                ELSE IF wsReader[j.reader].disposed THEN AnsweredByGit(x)
                ELSE [wsSearch[x] EXCEPT !.pc = "granted", !.awaits = 0]]
       \/ /\ j.at = "too_large"
          /\ Answered(j)
          /\ wsReader' = [wsReader EXCEPT
                ![j.reader].known = IF wsReader[j.reader].index = j.id
                                    THEN "none" ELSE @]
          /\ wsSearch' = FailedSearches({j.id})
       \/ /\ j.at = "error"
          /\ Answered(j)
          /\ wsReader' = FailedReaders({j.id})
          /\ wsSearch' = FailedSearches({j.id})

Asked_ByKey(x, j) == wsSearch[x].pc = "grepping" /\ ReaderOf[x] = j.reader

(* The search whose promise the reply settles.                             *)
Asked(x, j) == wsSearch[x].awaits = j.id

(* The lines of the hits are read from the checkout: a hit outside the     *)
(* allowed paths or off a line boundary spoils the whole answer.           *)
readMatchedLines == BOOLEAN

(* onMessage for grep and close.                                           *)
grepAnswered(j) ==
    /\ j.op = "grep"
    /\ j.id \in wsPending
    /\ Answered(j)
    /\ IF j.at = "ok"
       THEN /\ \E readable \in readMatchedLines :
                 wsSearch' = [x \in Searches |->
                    IF ~Asked(x, j) THEN wsSearch[x]
                    ELSE IF ~readable THEN AnsweredByGit(x)
                    ELSE [wsSearch[x] EXCEPT !.pc = "done", !.awaits = 0,
                                             !.answeredBy = j.search]]
            /\ UNCHANGED wsReader
       ELSE /\ wsReader' = FailedReaders({j.id})
            /\ wsSearch' = FailedSearches({j.id})

closeAnswered(j) == /\ j.op = "close"
                    /\ j.id \in wsPending
                    /\ Answered(j)
                    /\ UNCHANGED <<wsReader, wsSearch>>

onMessage(j) ==
    /\ j.at \in {"ready", "too_large", "ok", "error"}
    /\ Dropped(j) \/ openIndex(j) \/ grepAnswered(j) \/ closeAnswered(j)

disposeReader(r) ==
    /\ ~wsReader[r].disposed
    /\ wsReader' = [wsReader EXCEPT ![r].disposed = TRUE]
    /\ IF wsReader[r].opened /\ wsHost # 0
       THEN sendRequest("close", r, NoSearch)
       ELSE UNCHANGED clientVars
    /\ UNCHANGED wsSearch

-----------------------------------------------------------------------------
(* The host                                                                *)

HasIndex(r) == \E i \in DOMAIN wsFinders : wsFinders[i] = r

(* A key has one index, and the others keep their order.                   *)
closeIndex(r) ==
    IF ~HasIndex(r) THEN wsFinders
    ELSE LET at == CHOOSE i \in DOMAIN wsFinders : wsFinders[i] = r
         IN  [i \in 1 .. Len(wsFinders) - 1 |-> wsFinders[IF i < at THEN i ELSE i + 1]]

Moves(j, at) == wsJobs' = (wsJobs \ {j}) \cup {[j EXCEPT !.at = at]}

hostLeaves == <<wsHost, wsSpawned, wsBackoff, wsNextId, wsPending, wsReader,
                wsSearch>>

(* open closes the key's index and evicts the least recently used ones     *)
(* until there is room, then starts to scan.                               *)
hostOpens(j) ==
    /\ j.op = "open" /\ j.at = "sent" /\ j.host = wsHost
    /\ LET rest == closeIndex(j.reader)
           over == Len(rest) + 1 - MaxLiveIndexes
       IN  wsFinders' = IF over <= 0 THEN rest
                        ELSE SubSeq(rest, over + 1, Len(rest))
    /\ Moves(j, "scanning")
    /\ UNCHANGED hostLeaves

(* The scan ends: an index, a tree above the cap, or an error.             *)
hostScanned(j) ==
    /\ j.at = "scanning" /\ j.host = wsHost
    /\ \/ /\ j.reader \notin TooLarge
          /\ wsFinders' = IF HasIndex(j.reader)
                          THEN wsFinders ELSE Append(wsFinders, j.reader)
          /\ Moves(j, "ready")
       \/ /\ j.reader \in TooLarge
          /\ Moves(j, "too_large")
          /\ UNCHANGED wsFinders
       \/ /\ Moves(j, "error")
          /\ UNCHANGED wsFinders
    /\ UNCHANGED hostLeaves

(* grep: the key's index answers and becomes the most recently used one.   *)
hostGreps(j) ==
    /\ j.op = "grep" /\ j.at = "sent" /\ j.host = wsHost
    /\ IF HasIndex(j.reader)
       THEN /\ wsFinders' = Append(closeIndex(j.reader), j.reader)
            /\ Moves(j, "ok")
       ELSE /\ Moves(j, "error")
            /\ UNCHANGED wsFinders
    /\ UNCHANGED hostLeaves

hostCloses(j) ==
    /\ j.op = "close" /\ j.at = "sent" /\ j.host = wsHost
    /\ wsFinders' = closeIndex(j.reader)
    /\ Moves(j, "ok")
    /\ UNCHANGED hostLeaves

-----------------------------------------------------------------------------
WorkspaceSearchNext ==
    \/ \E x \in Searches : searchCheckout(x) \/ grepFffIndex(x)
    \/ \E r \in Readers : disposeReader(r)
    \/ \E j \in wsJobs : \/ onMessage(j) \/ hostOpens(j) \/ hostScanned(j)
                         \/ hostGreps(j) \/ hostCloses(j)
    \/ HostExits
    \/ RequestDeadline
    \/ BackoffEnds

WorkspaceSearchSpec == WorkspaceSearchInit /\ [][WorkspaceSearchNext]_searchVars

(* A search that holds an index asks, replies are read and deadlines fire. *)
(* Nothing is assumed of the host, which may hang.                         *)
WorkspaceSearchFair ==
    /\ \A x \in Searches : WF_searchVars(grepFffIndex(x))
    /\ WF_searchVars(\E j \in wsJobs : onMessage(j))
    /\ WF_searchVars(RequestDeadline)

-----------------------------------------------------------------------------
(* Properties                                                              *)

(* A search is answered by its own request or by git grep, never by a      *)
(* reply that a retired host had sent for another one (client.ts pending). *)
AnswersAreOwn ==
    \A x \in Searches : wsSearch[x].pc = "done" =>
        wsSearch[x].answeredBy \in {x, "git"}

(* No search waits for a request that went with its host (client.ts        *)
(* retire, failPending).                                                   *)
WaitsAreLive ==
    \A x \in Searches : wsSearch[x].pc \in {"opening", "grepping"} =>
        \E j \in wsJobs : j.id = wsSearch[x].awaits /\ j.id \in wsPending

(* Once a disposed reader has no request under way the host keeps no index *)
(* of it: a disposal that races an open closes what the open left behind   *)
(* (workspaceSearch.ts openIndex, dispose).                                *)
DisposedIsClosed ==
    \A r \in Readers :
        /\ wsReader[r].disposed
        /\ \A j \in wsJobs : j.reader # r
        => ~HasIndex(r)

(* Every search that started ends, whatever the host does.                 *)
SearchesEnd ==
    \A x \in Searches : (wsSearch[x].pc \in {"opening", "granted", "grepping"})
        ~> (wsSearch[x].pc = "done")

(* What the shared search host promises its readers: answers are their     *)
(* own, somebody works on what they wait for, and a disposed reader leaves *)
(* no index open.                                                          *)
SearchSound == WorkspaceSearchTypeOK /\ AnswersAreOwn /\ WaitsAreLive /\ DisposedIsClosed

=============================================================================
