--------------------------- MODULE WorkspaceQueries ---------------------------
(***************************************************************************)
(* What the workspace tools tell the model about a checkout: searches of   *)
(* the pinned checkout (prWorkspace/fff/workspaceSearch.ts, over the index *)
(* and over git grep) and of triage's writable one (git grep alone), file  *)
(* names, the diff of a path, blame, and pages of the changed-file list.   *)
(* All of them answer within budgets; what matters is that an answer that  *)
(* leaves something out says so.                                           *)
(*                                                                         *)
(* A path is a number, in checkout order.  A match costs one unit of       *)
(* output, its line cut or not.  How an index is opened, lost and shared   *)
(* is in WorkspaceSearch: here it serves a search or it does not.          *)
(***************************************************************************)
EXTENDS Naturals, Sequences, FiniteSets, SequencesExt

CONSTANTS
    QueryPaths,    \* 1 .. n, the checkout
    QueryTerms,    \* literals searched for
    QueryLines,    \* line numbers
    QueryTrees,    \* checkouts: per path and term, the lines that match
    ChunkPaths,    \* LOCAL_WORKSPACE_GREP_PATHSPEC_CHUNK_SIZE
    OutputUnits,   \* LOCAL_WORKSPACE_SEARCH_MAX_TOTAL_BYTES
    SearchMax,     \* LOCAL_WORKSPACE_SEARCH_MAX_MATCHES
    CollectedMax,  \* LOCAL_WORKSPACE_FFF_MAX_COLLECTED_MATCHES
    AskedMax,      \* values of maxResults
    PageUnits,     \* what fits a page of changed files
    TokenUnits,    \* size of a continuation
    ArrayMax,      \* CODE_MODE_SERIALIZE_MAX_ARRAY_LENGTH
    FileSizes,     \* sizes of a changed file's record
    MaxChanged,    \* changed files
    BlameCallers,
    MaxBlames      \* git blame calls (a bound)

\* The index collects more matches than any answer shows.
ASSUME QueryAssumption ==
    /\ QueryTrees \subseteq [QueryPaths -> [QueryTerms -> SUBSET QueryLines]]
    /\ ChunkPaths \in Nat \ {0} /\ ArrayMax \in Nat \ {0}
    /\ OutputUnits \in Nat \ {0} /\ SearchMax \in Nat \ {0}
    /\ CollectedMax \in Nat /\ CollectedMax > SearchMax
    /\ AskedMax \subseteq Nat \ {0} /\ PageUnits \in Nat /\ TokenUnits \in Nat
    /\ MaxBlames \in Nat

VARIABLES
    wqOpen,    \* what the run asks of its workspace; "none" before it is open
    wqTree,    \* the files of the checkout
    wqAllowed, \* the paths the tool's policy allows
    wqIndex,   \* FffIndexState: the paths listed, and those it can search
    wqChange,  \* per path: what the pull request, or this run, did to it
    wqFiles,   \* sizes of the changed-file records, in order
    wqHead,    \* the workspace's head against the reviewed one
    wqAnswer,  \* the last answer
    wqPages,   \* records delivered by following continuations, and the next one
    wqBlame    \* blameCache for one path, the git calls and their callers

queryVars == <<wqOpen, wqTree, wqAllowed, wqIndex, wqChange, wqFiles, wqHead, wqAnswer, wqPages,
               wqBlame>>

NoAnswer == [tool |-> "none", terms |-> {}, matches |-> <<>>, truncated |-> FALSE,
             filtered |-> FALSE]
NoTree == [p \in QueryPaths |-> [t \in QueryTerms |-> {}]]
NoIndex == [listed |-> {}, searchable |-> {}]
NoChange == [p \in QueryPaths |-> "clean"]
FirstPage == [got |-> <<>>, next |-> 0, last |-> FALSE, refused |-> "none"]
NoBlame == [cache |-> 0, calls |-> <<>>, awaits |-> [c \in BlameCallers |-> 0]]

(* What GitHub reports of a path of the pull request: its patch, longer    *)
(* than a tool shows, cut by this project's cap, empty or missing; the     *)
(* list may end before the path; it may be a rename's previous name.       *)
(* In the writable checkout this run edited it, created it, or created it  *)
(* where .gitignore covers it.                                             *)
PinnedStates == {"patched", "long", "capped", "emptyPatch", "noPatch", "unlisted",
                 "renamedAway", "clean"}
WritableStates == {"edited", "created", "ignored", "clean"}

WorkspaceQueriesTypeOK ==
    /\ wqOpen \in {"none", "search", "writable", "find", "diff", "edits", "pages", "blame", "gone"}
    /\ wqAllowed \subseteq QueryPaths
    /\ wqIndex.searchable \subseteq wqIndex.listed /\ wqIndex.listed \subseteq QueryPaths
    /\ wqChange \in [QueryPaths -> PinnedStates \cup WritableStates]
    /\ wqPages.next \in Nat /\ wqPages.last \in BOOLEAN
    /\ wqBlame.cache \in 0 .. Len(wqBlame.calls)

QueryInit ==
    /\ wqOpen = "none" /\ wqTree = NoTree /\ wqAllowed = QueryPaths /\ wqIndex = NoIndex
    /\ wqChange = NoChange /\ wqFiles = <<>> /\ wqHead = "reviewed" /\ wqAnswer = NoAnswer
    /\ wqPages = FirstPage /\ wqBlame = NoBlame

(* The run opens a checkout of some pull request, pinned or, for triage,   *)
(* writable.  Checkouts differ in what the question is about.              *)
OpenCheckout ==
    /\ wqOpen = "none"
    /\ UNCHANGED <<wqAnswer, wqPages, wqBlame>>
    /\ \/ /\ wqOpen' = "search" /\ UNCHANGED <<wqChange, wqFiles, wqHead>>
          /\ wqTree' \in QueryTrees /\ wqAllowed' \in SUBSET QueryPaths
          /\ \E s \in SUBSET QueryPaths : wqIndex' = [listed |-> QueryPaths, searchable |-> s]
       \/ /\ wqOpen' = "writable" /\ UNCHANGED <<wqIndex, wqChange, wqFiles, wqHead>>
          /\ wqTree' \in QueryTrees /\ wqAllowed' \in SUBSET QueryPaths
       \/ /\ wqOpen' = "find" /\ UNCHANGED <<wqChange, wqFiles, wqHead>>
          /\ wqTree' \in QueryTrees /\ wqAllowed' \in SUBSET QueryPaths
          /\ \E l \in SUBSET QueryPaths : wqIndex' = [listed |-> l, searchable |-> {}]
       \/ /\ UNCHANGED <<wqTree, wqAllowed, wqIndex, wqFiles, wqHead>>
          /\ \/ wqOpen' = "diff" /\ wqChange' \in [QueryPaths -> PinnedStates]
             \/ wqOpen' = "edits" /\ wqChange' \in [QueryPaths -> WritableStates]
       \/ /\ wqOpen' = "pages" /\ UNCHANGED <<wqTree, wqAllowed, wqIndex, wqChange>>
          /\ wqFiles' \in UNION {[1 .. n -> FileSizes] : n \in 0 .. MaxChanged}
          /\ wqHead' \in {"reviewed", "other", "none"}
       \/ wqOpen' = "blame" /\ UNCHANGED <<wqTree, wqAllowed, wqIndex, wqChange, wqFiles, wqHead>>

-----------------------------------------------------------------------------
(* git grep *)

Before(a, b) == a[1] < b[1] \/ (a[1] = b[1] /\ a[2] < b[2])
Least(m, n) == IF m < n THEN m ELSE n
FirstOf(s, n) == SubSeq(s, 1, Least(n, Len(s)))

MatchesIn(term, paths) == {m \in paths \X QueryLines : m[2] \in wqTree[m[1]][term]}

(* The records in git's output, path by path and line by line.  A record   *)
(* that was being written when the output was cut is a match if its path   *)
(* and line were complete.                                                 *)
parseGitGrepOutput(records, units, lineComplete) ==
    FirstOf(records, IF lineComplete THEN units + 1 ELSE units)

(* Without paths there is one group, of everything.                        *)
Everything == <<>>

pathspecChunks(paths) ==
    IF paths = Everything THEN <<QueryPaths>>
    ELSE [k \in 1 .. ((Len(paths) + ChunkPaths - 1) \div ChunkPaths) |->
            {paths[i] : i \in {j \in DOMAIN paths : (j - 1) \div ChunkPaths = k - 1}}]

gitGrepWorkspaceChunk(term, group, remaining, lineComplete) ==
    LET records == SetToSortSeq(MatchesIn(term, group), Before)
        outputLimited == Len(records) > remaining
    IN  [matches |-> IF outputLimited THEN parseGitGrepOutput(records, remaining, lineComplete)
                     ELSE records,
         bytes |-> Least(Len(records), remaining), truncated |-> outputLimited]

(* The loop ends early once a group was cut, or a limit is reached; either *)
(* way the answer is told to be cut short.                                 *)
Told_ChunkOnly(chunk, matches, max, bytes, units) == chunk.truncated

Told(chunk, matches, max, bytes, units) ==
    chunk.truncated \/ Len(matches) > max \/ bytes >= units

GrepLoop(term, groups, max, units, lineComplete) ==
    LET step(r, group) ==
          LET chunk == gitGrepWorkspaceChunk(term, group, units - r.bytes, lineComplete)
              matches == r.matches \o chunk.matches
              bytes == r.bytes + chunk.bytes
          IN  IF r.stopped THEN r
              ELSE [matches |-> matches, bytes |-> bytes,
                    truncated |-> Told(chunk, matches, max, bytes, units),
                    stopped |-> chunk.truncated \/ Len(matches) > max \/ bytes >= units]
    IN  FoldLeft(step, [matches |-> <<>>, bytes |-> 0, truncated |-> FALSE, stopped |-> FALSE],
                 groups)

NoMatches == [matches |-> <<>>, truncated |-> FALSE]

InOrder(paths) == SetToSortSeq(paths, LAMBDA a, b : a < b)

(* gitGrepWorkspace, asked for everything or for a list of paths.          *)
gitGrepWorkspace(term, filtered, paths, max, units, lineComplete) ==
    IF filtered /\ paths = {} THEN NoMatches
    ELSE GrepLoop(term, pathspecChunks(IF filtered THEN InOrder(paths) ELSE Everything),
                  max, units, lineComplete)

-----------------------------------------------------------------------------
(* Search and file names of the pinned checkout, prWorkspace/fff           *)

(* The lines of the candidates, until the answer is full.                  *)
matchedLines(candidates, max, units) ==
    LET room == Least(max, units)
    IN  [matches |-> FirstOf(candidates, room), truncated |-> Len(candidates) > room]

searchGit(term, filtered, max, units, lineComplete) ==
    LET result == gitGrepWorkspace(term, filtered, wqAllowed, max, units, lineComplete)
        bounded == matchedLines(result.matches, max, units)
    IN  [bounded EXCEPT !.truncated = @ \/ result.truncated]

(* What the index finds in the files it can search, at most limit lines of *)
(* a file; it stops collecting at a cap of its own, in its own order.      *)
Findable(term, limit) ==
    UNION {ToSet(FirstOf(SetToSortSeq(MatchesIn(term, {p}), Before), limit)) :
             p \in wqIndex.searchable \cap wqAllowed}

GrepHits(term, limit) ==
    LET all == Findable(term, limit)
    IN  IF Cardinality(all) < CollectedMax THEN {all} ELSE {h \in SUBSET all : Cardinality(h) = CollectedMax}

(* One candidate more than the answer shows, so that it is seen to be cut. *)
SearchLimit_Exact(max) == max

SearchLimit(max) == max + 1

(* The index searches what it can and git grep the rest.                   *)
searchIndex(term, max, units, hits, lineComplete) ==
    LET limit == SearchLimit(max)
        rest == gitGrepWorkspace(term, TRUE, wqAllowed \ wqIndex.searchable, max, units, lineComplete)
        candidates == FirstOf(SetToSortSeq(hits \cup ToSet(rest.matches), Before), limit)
        bounded == matchedLines(candidates, max, units)
    IN  [bounded EXCEPT !.truncated = @ \/ rest.truncated \/ Cardinality(hits) >= CollectedMax]

(* The answers search may give: the index serves it, or, when there is     *)
(* none, it fails or its hits are stale, git grep alone.                   *)
SearchResults(term, asked, units) ==
    LET max == Least(asked, SearchMax)
    IN  UNION {{searchGit(term, wqAllowed # QueryPaths, max, units, c)}
                 \cup {searchIndex(term, max, units, h, c) : h \in GrepHits(term, SearchLimit(max))} :
               c \in BOOLEAN}

PageSize_NoDenied(asked) == asked + 1

(* The files asked of the index: room for those it is told to leave out.   *)
PageSize(asked) == asked + Cardinality(wqIndex.listed \ wqAllowed) + 1

(* findFiles: what the index lists and, for the rest, the ranking of this  *)
(* process; all of it from this process when the host fails.               *)
findFiles(term, asked, hostFails) ==
    LET matching == {p \in QueryPaths : wqTree[p][term] # {}}
        page == FirstOf(InOrder(matching \cap wqIndex.listed), PageSize(asked))
        found == FirstOf(SelectSeq(page, LAMBDA p : p \in wqAllowed), asked + 1)
        ranked == IF hostFails THEN InOrder(matching \cap wqAllowed)
                  ELSE found \o InOrder((matching \cap wqAllowed) \ wqIndex.listed)
    IN  [matches |-> FirstOf(ranked, asked), truncated |-> Len(ranked) > asked]

-----------------------------------------------------------------------------
(* The search tools *)

Answer(tool, terms, result, filtered) ==
    wqAnswer' = [tool |-> tool, terms |-> terms, matches |-> result.matches,
                 truncated |-> result.truncated, filtered |-> filtered]

(* The investigation tool: the paths its policy allows.                    *)
searchWorkspace(term, asked) ==
    IF wqAllowed = {} THEN Answer("investigation", {term}, NoMatches, FALSE)
    ELSE \E r \in SearchResults(term, asked, OutputUnits) : Answer("investigation", {term}, r, FALSE)

(* Files with more of the terms first, then more lines, then by path; a    *)
(* line two terms match counts once.                                       *)
Ranked(found) ==
    LET termsOf(p) == {t \in DOMAIN found : \E m \in ToSet(found[t]) : m[1] = p}
        linesOf(p) == {m \in UNION {ToSet(found[t]) : t \in DOMAIN found} : m[1] = p}
        better(p, q) ==
          LET tp == Cardinality(termsOf(p))
              tq == Cardinality(termsOf(q))
              lp == Cardinality(linesOf(p))
              lq == Cardinality(linesOf(q))
          IN  tp > tq \/ (tp = tq /\ (lp > lq \/ (lp = lq /\ p < q)))
        paths == {m[1] : m \in UNION {ToSet(found[t]) : t \in DOMAIN found}}
    IN  FoldLeft(LAMBDA s, p : s \o SetToSortSeq(linesOf(p), Before), <<>>,
                 SetToSortSeq(paths, better))

(* Each term has its share of the budget, and its own search.              *)
searchRankedTerms(terms, asked) ==
    LET units == OutputUnits \div Cardinality(terms)
        max == Least(asked, SearchMax)
    IN  \E result \in [terms -> UNION {SearchResults(t, SearchMax, units) : t \in terms}] :
          /\ \A t \in terms : result[t] \in SearchResults(t, SearchMax, units)
          /\ LET matches == Ranked([t \in terms |-> result[t].matches])
             IN  Answer("ranked", terms,
                        [matches |-> FirstOf(matches, max),
                         truncated |-> \/ \E t \in terms : result[t].truncated
                                       \/ Len(matches) > max],
                        FALSE)

(* The verification tool says whether paths were left out.                 *)
searchVerification(term, asked) ==
    \E r \in IF wqAllowed = {} THEN {NoMatches} ELSE SearchResults(term, asked, OutputUnits) :
      Answer("verification", {term}, r, wqAllowed # QueryPaths)

(* The triage tool greps everything and drops what is not allowed.         *)
searchTriage(term, asked) ==
    \E c \in BOOLEAN :
      LET r == gitGrepWorkspace(term, FALSE, QueryPaths, Cardinality(QueryPaths \X QueryLines),
                                OutputUnits, c)
          matches == SelectSeq(r.matches, LAMBDA m : m[1] \in wqAllowed)
      IN  Answer("triage", {term},
                 [matches |-> FirstOf(matches, asked), truncated |-> r.truncated \/ Len(matches) > asked],
                 Len(matches) < Len(r.matches))

Search ==
    /\ wqAnswer = NoAnswer
    /\ \E asked \in AskedMax :
         \/ /\ wqOpen = "search"
            /\ \/ \E t \in QueryTerms : searchWorkspace(t, asked) \/ searchVerification(t, asked)
               \/ wqAllowed # {} /\ searchRankedTerms(QueryTerms, asked)
         \/ wqOpen = "writable" /\ \E t \in QueryTerms : searchTriage(t, asked)
         \/ /\ wqOpen = "find"
            /\ \E t \in QueryTerms, f \in BOOLEAN : Answer("files", {t}, findFiles(t, asked, f), FALSE)
    /\ UNCHANGED <<wqOpen, wqTree, wqAllowed, wqIndex, wqChange, wqFiles, wqHead, wqPages, wqBlame>>

-----------------------------------------------------------------------------
(* Diffs *)

ChangeSetTruncated == \E p \in QueryPaths : wqChange[p] = "unlisted"

Unavailable(reason) == [availability |-> "unavailable", reason |-> reason]
NotListed == [availability |-> "unchanged", reason |-> "absent_from_complete_change_set"]

classifyPinnedPrDiff_ListOnly(path) ==
    CASE wqChange[path] = "patched" -> [availability |-> "available", reason |-> "none"]
      [] wqChange[path] = "long" -> [availability |-> "available", reason |-> "workspace_diff_byte_cap"]
      [] wqChange[path] = "capped" -> Unavailable("patch_byte_cap")
      [] wqChange[path] = "noPatch" -> Unavailable("upstream_patch_missing")
      [] wqChange[path] = "emptyPatch" -> Unavailable("upstream_patch_empty")
      [] wqChange[path] = "renamedAway" -> Unavailable("rename_previous_path")
      [] OTHER -> NotListed

classifyPinnedPrDiff(path) ==
    CASE wqChange[path] = "patched" -> [availability |-> "available", reason |-> "none"]
      [] wqChange[path] = "long" -> [availability |-> "available", reason |-> "workspace_diff_byte_cap"]
      [] wqChange[path] = "capped" -> Unavailable("patch_byte_cap")
      [] wqChange[path] = "noPatch" -> Unavailable("upstream_patch_missing")
      [] wqChange[path] = "emptyPatch" -> Unavailable("upstream_patch_empty")
      [] wqChange[path] = "renamedAway" -> Unavailable("rename_previous_path")
      [] OTHER -> IF ChangeSetTruncated THEN Unavailable("change_set_truncated") ELSE NotListed

(* git status lists an untracked file unless it is ignored.                *)
untrackedFileDiff(path) == wqChange[path] = "created"

(* The writable checkout: the difference to HEAD, else an untracked file.  *)
writableDiff(path) ==
    IF wqChange[path] = "edited" \/ untrackedFileDiff(path)
    THEN [availability |-> "available", reason |-> "none"]
    ELSE [availability |-> "unchanged", reason |-> "matches_head"]

DiffAnswer(path, evidence, cut) ==
    wqAnswer' = [tool |-> "diff", path |-> path, evidence |-> evidence, truncated |-> cut]

(* getWorkspaceDiff of the profiles; the investigation tool may cut what   *)
(* it shows to its response budget.                                        *)
GetDiff ==
    /\ wqAnswer = NoAnswer
    /\ \E p \in QueryPaths :
         \/ /\ wqOpen = "diff"
            /\ \E cut \in BOOLEAN :
                 /\ cut => classifyPinnedPrDiff(p).availability = "available"
                 /\ DiffAnswer(p, classifyPinnedPrDiff(p), cut)
         \/ wqOpen = "edits" /\ DiffAnswer(p, writableDiff(p), FALSE)
    /\ UNCHANGED <<wqOpen, wqTree, wqAllowed, wqIndex, wqChange, wqFiles, wqHead, wqPages, wqBlame>>

-----------------------------------------------------------------------------
(* Pages of the changed-file list *)

Size(start, count) ==
    FoldLeft(LAMBDA n, k : n + wqFiles[k], 0, [i \in 1 .. count |-> start + i])

(* The continuation of a page; the last page has none, and is that much    *)
(* smaller.                                                                *)
HasNext_Early(start, count) == start + count + 1 < Len(wqFiles)

HasNext(start, count) == start + count < Len(wqFiles)

pageFits(start, count) ==
    Size(start, count) + (IF HasNext(start, count) THEN TokenUnits ELSE 0) <= PageUnits

(* The number of files the binary search settles on; 0 when it finds no    *)
(* page that fits.                                                         *)
fitted[low \in Nat, high \in Nat, start \in Nat, best \in Nat] ==
    LET mid == (low + high) \div 2
    IN  IF low > high THEN best
        ELSE IF pageFits(start, mid) THEN fitted[mid + 1, high, start, mid]
        ELSE fitted[low, mid - 1, start, best]

Refuse(reason) == wqPages' = [wqPages EXCEPT !.refused = reason]

pageChangedFiles(start) ==
    LET count == fitted[1, Least(ArrayMax, Len(wqFiles) - start), start, 0]
    IN  IF start = Len(wqFiles) THEN wqPages' = [wqPages EXCEPT !.last = TRUE]
        ELSE IF count = 0 THEN Refuse("undeliverable")
        ELSE wqPages' = [got |-> wqPages.got \o [i \in 1 .. count |-> start + i],
                         next |-> start + count, last |-> ~HasNext(start, count),
                         refused |-> "none"]

(* The model follows the continuation, or sends one of another head, one   *)
(* that does not decode, or one past the list.                             *)
Tokens == [form : {"page", "malformed"}, head : {"reviewed", "older"},
           offset : {wqPages.next, Len(wqFiles)}]

decodeContinuation(token) ==
    IF token.form = "malformed" THEN "malformed"
    ELSE IF token.head # "reviewed" THEN "head_mismatch"
    ELSE IF token.offset > Len(wqFiles) \/ (token.offset = Len(wqFiles) /\ token.offset > 0)
      THEN "offset"
    ELSE "ok"

listChangedFiles ==
    /\ wqOpen = "pages" /\ ~wqPages.last /\ wqPages.refused = "none"
    /\ \/ wqHead # "reviewed" /\ Refuse("workspace_head")
       \/ wqHead = "reviewed" /\ wqPages.next = 0 /\ pageChangedFiles(0)
       \/ \E token \in Tokens :
            /\ wqHead = "reviewed" /\ wqPages.next # 0
            /\ IF decodeContinuation(token) = "ok" THEN pageChangedFiles(token.offset)
               ELSE Refuse(decodeContinuation(token))
    /\ UNCHANGED <<wqOpen, wqTree, wqAllowed, wqIndex, wqChange, wqFiles, wqHead, wqAnswer, wqBlame>>

-----------------------------------------------------------------------------
(* Blame *)

blameUnchanged == UNCHANGED <<wqTree, wqAllowed, wqIndex, wqChange, wqFiles, wqHead, wqAnswer, wqPages>>

(* getBlameForPath of one path that is in the checkout: a caller joins the *)
(* cached promise or starts a git call.                                    *)
getBlameForPath(c) ==
    LET id == Len(wqBlame.calls) + 1
    IN  /\ wqOpen = "blame" /\ wqBlame.awaits[c] = 0
        /\ \/ /\ wqBlame.cache # 0
              /\ wqBlame' = [wqBlame EXCEPT !.awaits[c] = IF wqBlame.calls[wqBlame.cache] = "ok" THEN 0
                                                          ELSE wqBlame.cache]
           \/ /\ wqBlame.cache = 0 /\ Len(wqBlame.calls) < MaxBlames
              /\ wqBlame' = [cache |-> id, calls |-> Append(wqBlame.calls, "running"),
                             awaits |-> [wqBlame.awaits EXCEPT ![c] = id]]
        /\ UNCHANGED wqOpen /\ blameUnchanged

forgotten_Never(b, id) == b

(* The caller that started a failed call forgets it, unless the cache has  *)
(* another one since.                                                      *)
forgotten(b, id) == [b EXCEPT !.cache = IF @ = id THEN 0 ELSE @]

BlameSettles(id, ok) ==
    /\ wqBlame.calls[id] = "running"
    /\ LET done == [wqBlame EXCEPT !.calls[id] = IF ok THEN "ok" ELSE "failed",
                                   !.awaits = [c \in BlameCallers |-> IF @[c] = id THEN 0 ELSE @[c]]]
       IN  wqBlame' = IF ok THEN done ELSE forgotten(done, id)
    /\ UNCHANGED wqOpen /\ blameUnchanged

(* The reader's dispose.                                                   *)
disposeBlame ==
    /\ wqOpen = "blame" /\ wqOpen' = "gone"
    /\ wqBlame' = [wqBlame EXCEPT !.cache = 0]
    /\ blameUnchanged

-----------------------------------------------------------------------------
QueryNext ==
    \/ OpenCheckout \/ Search \/ GetDiff \/ listChangedFiles \/ disposeBlame
    \/ \E c \in BlameCallers : getBlameForPath(c)
    \/ \E id \in DOMAIN wqBlame.calls, ok \in BOOLEAN : BlameSettles(id, ok)

QuerySpec == QueryInit /\ [][QueryNext]_queryVars

-----------------------------------------------------------------------------
MatchingOf(paths, terms) == UNION {MatchesIn(t, paths) : t \in terms}

(* A search that does not say it is cut short shows every matching line of *)
(* every allowed file, whatever serves it and however the budgets of       *)
(* groups, files, terms and results meet; no search shows a line that does *)
(* not match or a file that is not allowed, and one that says neither that *)
(* it is cut nor that it left paths out has shown the whole checkout.      *)
SearchHonest ==
    wqAnswer.tool \in {"investigation", "verification", "ranked", "triage"} =>
        /\ ToSet(wqAnswer.matches) \subseteq MatchingOf(wqAllowed, wqAnswer.terms)
        /\ ~wqAnswer.truncated => ToSet(wqAnswer.matches) = MatchingOf(wqAllowed, wqAnswer.terms)
        /\ wqAnswer.tool \in {"verification", "triage"} /\ ~wqAnswer.truncated /\ ~wqAnswer.filtered
             => ToSet(wqAnswer.matches) = MatchingOf(QueryPaths, wqAnswer.terms)

(* findFiles: a list that is not said to be cut has every allowed path     *)
(* that matches, though the index also counts those it may not show.       *)
FilesHonest ==
    wqAnswer.tool = "files" =>
        LET matching == {p \in wqAllowed : \E t \in wqAnswer.terms : wqTree[p][t] # {}}
        IN  /\ ToSet(wqAnswer.matches) \subseteq matching
            /\ ~wqAnswer.truncated => ToSet(wqAnswer.matches) = matching

(* "unchanged" is a fact about the pull request, not about the list: it is *)
(* never said of a path the pull request changes, renames away or, in the  *)
(* writable checkout, of a tracked or visible file edited in this run.     *)
UnchangedIsKnown ==
    wqAnswer.tool = "diff" /\ wqAnswer.evidence.availability = "unchanged" =>
        wqChange[wqAnswer.path] \in {"clean", "ignored"}

(* Following the continuations delivers the changed files in order,        *)
(* without a gap, and the page without a continuation is the last of them. *)
PagesDeliverAll ==
    /\ wqPages.got = [i \in DOMAIN wqPages.got |-> i]
    /\ wqPages.last => Len(wqPages.got) = Len(wqFiles)

(* A blame that failed is not answered from the cache: the next caller     *)
(* asks git again.                                                         *)
FailedBlameForgotten == wqBlame.cache # 0 => wqBlame.calls[wqBlame.cache] # "failed"

(* What the workspace tools promise: an answer that leaves something out   *)
(* says so, and a failed question may be asked again.                      *)
QueriesSound ==
  /\ WorkspaceQueriesTypeOK
  /\ SearchHonest
  /\ FilesHonest
  /\ UnchangedIsKnown
  /\ PagesDeliverAll
  /\ FailedBlameForgotten

=============================================================================
