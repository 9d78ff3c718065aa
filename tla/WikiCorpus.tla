----------------------------- MODULE WikiCorpus -----------------------------
(***************************************************************************)
(* The wiki on disk and what is derived from it: WikiAgent's applied diffs *)
(* and page snapshots (wiki_agent.py), the document index with its         *)
(* retrieval cache and the link graph (memory_manager.py, build_graph.py), *)
(* the generated index.md, and the `status` of the diffs a chat turn       *)
(* offers for review (mark_diff_applied).                                  *)
(*                                                                         *)
(* A page's content is the set of its blocks; a diff replaces the one      *)
(* block it matches, and a page is created with one block.  Every          *)
(* Apply request and every auto_apply run is a thread of its own: nothing  *)
(* serialises them, and only single database statements run under the      *)
(* MemoryManager's lock.  What the code catches and logs, and what it lets *)
(* raise out of a run, happens at most scope.faults times.                 *)
(***************************************************************************)
EXTENDS Naturals, FiniteSets

CONSTANTS
    Pages,      \* wiki pages, by stem
    Blocks,     \* blocks of page text
    Link,       \* Link[b]: the pages block b has a [[...]] link to
    Diffs,      \* proposed actions: [task, page, before, after]
    Initial,    \* content of the pages at the first start
    HandTexts,  \* what a hand edit may leave on disk
    Scopes,     \* bounds: instances explored together, see scope
    Threads,    \* threads applying diffs
    Queries,    \* threads inside query_corpus
    Episodes,   \* episodes whose subject resolves to a wiki page
    NoPage,     \* the file, or the row, does not exist
    NoBlock     \* the `before` of a create_page action

Texts == (SUBSET Blocks) \cup {NoPage}

ASSUME DiffsAssumption ==
    \A d \in Diffs : /\ d.page \in Pages /\ d.after \in Blocks
                     /\ d.before \in Blocks \cup {NoBlock}
ASSUME ContentAssumption == /\ Link \in [Blocks -> SUBSET Pages]
                            /\ Initial \in [Pages -> Texts]
                            /\ HandTexts \subseteq Texts
ASSUME ScopesAssumption ==
    \A s \in Scopes : /\ s.tasks \subseteq {d.task : d \in Diffs}
                      /\ s.hands \in Nat /\ s.faults \in Nat
                      /\ s.threads \subseteq Threads /\ s.queries \subseteq Queries
                      /\ s.episodes \subseteq Episodes
ASSUME AbsentAssumption == NoPage \notin SUBSET Blocks /\ NoBlock \notin Blocks

VARIABLES
    disk,     \* disk[p]: the file of page p
    snaps,    \* snaps[p]: contents of p kept in .snapshots/
    listing,  \* pages index.md lists
    row,      \* row[p]: content in document_index
    entry,    \* the retrieval_cache row of one query, with the index it scored
    nodes,    \* pages in graph_nodes
    edges,    \* graph_edges whose source is a page
    linked,   \* graph_edges whose source is an episode
    status,   \* status[d]: the diff's entry in its turn's pending_diffs
    landed,   \* history: diffs written to disk
    batched,  \* history: turns whose auto_apply run marked its diffs
    hands,    \* hand edits so far, for the bound scope.hands
    faults,   \* failed calls so far, for the bound scope.faults
    unsure,   \* history: pages edited by hand, or by two jobs at once, since start
    overlap,  \* history: two jobs or a hand edit overlapped since start
    stranded, \* history: pages changed by a job or found at a start, that no
              \* index_document stored: it failed or the run raised before it
    stale,    \* history: the graph's last rebuild failed, or the run raised before it
    bare,     \* history: pages whose last snapshot failed
    scope,    \* the turns, bounds, threads, queries and episodes there are
    job,      \* job[t]: the apply thread t is in
    query     \* query[q]: the query_corpus call q is in

files   == <<disk, snaps, listing>>
corpus  == <<row, entry>>
graph   == <<nodes, edges, linked>>
counts  == <<landed, batched, hands, faults>>
meets   == <<unsure, overlap>>
failed  == <<stranded, stale, bare>>
history == <<counts, meets, failed>>
vars    == <<files, corpus, graph, status, history, scope, job, query>>

Tasks      == {d.task : d \in Diffs}
OfTask(k)  == {d \in Diffs : d.task = k}    \* the actions of its model output
Creates(d) == d.before = NoBlock
OnDisk     == {p \in Pages : disk[p] # NoPage}

IdleJob == [phase |-> "idle", auto |-> FALSE, ds |-> {}, todo |-> {}, cur |-> {},
            text |-> NoPage, written |-> {}, index |-> {}, scan |-> {}, stems |-> {}]
Busy(t) == job[t].phase # "idle"
PagesOf(t) == {d.page : d \in job[t].ds}
Quiet   == \A t \in Threads : ~Busy(t)
Set(t, r) == job' = [job EXCEPT ![t] = r]

\* A call fails.
Fault   == faults < scope.faults /\ faults' = faults + 1
NoFault == UNCHANGED faults

-----------------------------------------------------------------------------
(* Starting: a proposal, an auto_apply run, POST /wiki/apply-diff          *)

\* A turn's run of the agent, which comes to _finalize once.
Runs(k) == \A d \in OfTask(k) : status[d] = "none"

\* A chat turn's proposal: the pending_diffs of its metadata.
Propose(k) ==
    /\ Runs(k)
    /\ status' = [d \in Diffs |-> IF d \in OfTask(k) /\ ~Creates(d)
                                  THEN "pending" ELSE status[d]]
    /\ UNCHANGED <<files, corpus, graph, history, job, query>>

Start(t, auto, ds) ==
    LET pages == {d.page : d \in ds}
        busy  == UNION {PagesOf(u) : u \in Threads}
    IN  /\ ~Busy(t)
        /\ Set(t, [IdleJob EXCEPT !.phase = "next", !.auto = auto, !.ds = ds,
                                  !.todo = ds])
        /\ unsure'  = unsure \cup (pages \cap busy)
        /\ overlap' = (overlap \/ ~Quiet)
        /\ UNCHANGED <<files, corpus, graph, status, counts, failed, query>>

StartAuto(t, k) == Runs(k) /\ Start(t, TRUE, OfTask(k))

StartPending(t, d) == status[d] = "pending" /\ Start(t, FALSE, {d})

-----------------------------------------------------------------------------
(* _apply_changes and the head of apply_pending_diff                       *)

\* Mutant: one action that cannot be applied ends the whole run.
GiveUpAll(t, d) == Set(t, IdleJob)

\* An action that cannot be applied: apply_pending_diff returns, an
\* auto_apply run goes on with its other actions.
GiveUp(t, d) == Set(t, IF job[t].auto
                       THEN [job[t] EXCEPT !.phase = "next", !.todo = @ \ {d}, !.cur = {}]
                       ELSE IdleJob)

\* Mutant: nothing is snapshotted.
NoSnapshot(d) == bare' = bare \ {d.page} /\ NoFault /\ UNCHANGED snaps

\* _snapshot_page; when it fails the write goes on.
Snapshot(d) ==
    \/ /\ snaps' = [snaps EXCEPT ![d.page] = @ \cup {disk[d.page]}]
       /\ bare' = bare \ {d.page} /\ NoFault
    \/ /\ Fault
       /\ bare' = bare \cup {d.page} /\ UNCHANGED snaps

\* The existence check and the snapshot; pages are created before diffs.
Begin(t, d) ==
    /\ job[t].phase = "next" /\ d \in job[t].todo
    /\ Creates(d) \/ \A e \in job[t].todo : ~Creates(e)
    /\ IF Creates(d) # (d.page \in OnDisk)
       THEN /\ IF Creates(d) THEN UNCHANGED <<snaps, bare, faults>> ELSE Snapshot(d)
            /\ Set(t, [job[t] EXCEPT !.phase = IF Creates(d) THEN "write" ELSE "read",
                                     !.cur = {d}])
       ELSE GiveUp(t, d) /\ UNCHANGED <<snaps, bare, faults>>
    /\ UNCHANGED <<disk, listing, corpus, graph, status, landed, batched, hands, meets,
                   stranded, stale, query>>

\* apply_unified_diff locates the hunk by its content.
Matches(d, text) == d.before \in text

\* Pages as they stand now are neither in the index nor in the graph.
Owe(ps) == stranded' = stranded \cup ps /\ stale' = (stale \/ ps # {})

\* An exception nothing catches ends the run: what it wrote is not indexed.
Abandon(t, cut) == Set(t, IdleJob) /\ Owe(job[t].index \cup cut)

\* read_text_file, which raises when the file was removed meanwhile.
ReadPage(t, d) ==
    /\ job[t].phase = "read" /\ d \in job[t].cur
    /\ IF d.page \notin OnDisk THEN Abandon(t, {})
       ELSE /\ IF Matches(d, disk[d.page])
               THEN Set(t, [job[t] EXCEPT !.phase = "write", !.text = disk[d.page]])
               ELSE GiveUp(t, d)
            /\ UNCHANGED <<stranded, stale>>
    /\ UNCHANGED <<files, corpus, graph, status, counts, meets, bare, query>>

\* Mutant: a new page is patched like an old one.
PatchedOnly(d, text) == (text \ {d.before}) \cup {d.after}

Patched(d, text) == IF Creates(d) THEN {d.after}
                    ELSE (text \ {d.before}) \cup {d.after}

WritePage(t, d) ==
    /\ job[t].phase = "write" /\ d \in job[t].cur
    /\ disk'   = [disk EXCEPT ![d.page] = Patched(d, job[t].text)]
    /\ landed' = landed \cup {d}
    /\ Set(t, [job[t] EXCEPT !.phase = "next", !.cur = {}, !.todo = @ \ {d}, !.text = NoPage,
                             !.written = @ \cup {d.page}, !.index = @ \cup {d.page}])
    /\ UNCHANGED <<snaps, listing, corpus, graph, status, batched, hands, faults, meets, failed,
                   query>>

\* write_text_file raises and leaves the page as it was or cut short.  An
\* auto_apply run catches it for a diff, not for a page it creates.
FailWrite(t, d) ==
    /\ job[t].phase = "write" /\ d \in job[t].cur /\ Fault
    /\ \E cut \in SUBSET {d.page} :
          /\ disk' = [p \in Pages |-> IF p \in cut THEN {} ELSE disk[p]]
          /\ IF job[t].auto /\ ~Creates(d) THEN GiveUp(t, d) /\ Owe(cut) ELSE Abandon(t, cut)
    /\ UNCHANGED <<snaps, listing, corpus, graph, status, landed, batched, hands, meets, bare,
                   query>>

\* Any other read, parse or write of a run that nothing guards raises: the page
\* to patch, logs.md, the pages index.md is made of, index.md.
Raise(t) ==
    /\ \/ job[t].phase = "read" /\ UNCHANGED listing
       \/ job[t].phase = "edges" /\ job[t].scan = {} /\ UNCHANGED listing
       \/ job[t].phase = "list" /\ listing' \in {listing, {}}
    /\ Fault /\ Abandon(t, {})
    /\ UNCHANGED <<disk, snaps, corpus, graph, status, landed, batched, hands, meets, bare, query>>

-----------------------------------------------------------------------------
(* The document index and the retrieval cache                              *)

\* Mutant: the cached results outlive the change.
KeepCache == UNCHANGED <<entry, query>>

\* _invalidate_cache, in the transaction that changes the index.  Queries
\* that have loaded the rows already are marked, for the properties only.
InvalidateCache ==
    /\ entry' = [entry EXCEPT !.valid = FALSE]
    /\ query' = [q \in Queries |-> [query[q] EXCEPT !.raced = query[q].loaded]]

\* _reindex_and_rebuild_graph: index_document reads the page it is given.
ReadForIndex(t, p) ==
    /\ job[t].phase = "next" /\ job[t].todo = {} /\ p \in job[t].index
    /\ Set(t, [job[t] EXCEPT !.index = @ \ {p}, !.text = disk[p], !.cur = {p},
                             !.phase = IF p \in OnDisk THEN "index" ELSE "next"])
    /\ UNCHANGED <<files, corpus, graph, status, history, query>>

StoreRow(t, p) ==
    /\ job[t].phase = "index" /\ p \in job[t].cur
    /\ row' = [row EXCEPT ![p] = job[t].text]
    /\ IF row[p] = job[t].text THEN UNCHANGED <<entry, query>> ELSE InvalidateCache
    /\ Set(t, [job[t] EXCEPT !.phase = "next", !.cur = {}])
    /\ stranded' = stranded \ {p}
    /\ UNCHANGED <<files, graph, status, counts, meets, stale, bare>>

\* index_document cannot read the page, or raises and is caught.
MissRow(t, p) ==
    /\ job[t].phase = "index" /\ p \in job[t].cur /\ Fault
    /\ Set(t, [job[t] EXCEPT !.phase = "next", !.cur = {}])
    /\ stranded' = stranded \cup {p}
    /\ UNCHANGED <<files, corpus, graph, status, landed, batched, hands, meets, stale, bare, query>>

IdleQuery == [loaded |-> FALSE, rows |-> [p \in Pages |-> NoPage], raced |-> FALSE]

\* _check_cache
Cached == entry.valid

\* query_corpus, on a cache miss: the rows are loaded ...
LoadRows(q) ==
    /\ ~query[q].loaded /\ ~Cached
    /\ \E p \in Pages : row[p] # NoPage
    /\ query' = [query EXCEPT ![q] = [loaded |-> TRUE, rows |-> row, raced |-> FALSE]]
    /\ UNCHANGED <<files, corpus, graph, status, history, job>>

\* ... scored, and the result written to the cache as valid.
WriteCache(q) ==
    /\ query[q].loaded
    /\ entry' = [valid |-> TRUE, rows |-> query[q].rows, raced |-> query[q].raced]
    /\ query' = [query EXCEPT ![q] = IdleQuery]
    /\ UNCHANGED <<files, row, graph, status, history, job>>

-----------------------------------------------------------------------------
(* build_graph, and the edge of an episode                                 *)

Indexed(t) == job[t].phase = "next" /\ job[t].todo = {} /\ job[t].index = {}

EdgesOf(p, text, stems) == {[from |-> p, to |-> q, resolved |-> q \in stems] :
                               q \in UNION {Link[b] : b \in text}}

\* Pass 1: every page is read and its node upserted.
ScanGraph(t) ==
    /\ Indexed(t) /\ job[t].written # {}
    /\ nodes' = nodes \cup OnDisk
    /\ Set(t, [job[t] EXCEPT !.phase = "clear", !.stems = OnDisk,
                             !.scan = UNION {EdgesOf(p, disk[p], OnDisk) : p \in OnDisk}])
    /\ UNCHANGED <<files, corpus, edges, linked, status, history, query>>

\* Mutant: the rebuild adds to the edges of the last one.
KeepEdges(t) ==
    /\ job[t].phase = "clear" /\ stale' = FALSE
    /\ Set(t, [job[t] EXCEPT !.phase = "edges"])
    /\ UNCHANGED <<files, corpus, graph, status, counts, meets, stranded, bare, query>>

\* clear_graph_edges
ClearEdges(t) ==
    /\ job[t].phase = "clear" /\ stale' = FALSE
    /\ edges' = {} /\ linked' = {}
    /\ Set(t, [job[t] EXCEPT !.phase = "edges"])
    /\ UNCHANGED <<files, corpus, nodes, status, counts, meets, stranded, bare, query>>

\* Pass 2: upsert_graph_edge, whose key is (source, target).
AddEdge(t, e) ==
    /\ job[t].phase = "edges" /\ e \in job[t].scan
    /\ edges' = {e} \cup {f \in edges : f.from # e.from \/ f.to # e.to}
    /\ Set(t, [job[t] EXCEPT !.scan = @ \ {e}])
    /\ UNCHANGED <<files, corpus, nodes, linked, status, history, query>>

\* build_graph raises in either pass (a page that cannot be read or parsed, the
\* database) and is caught: the edges stay the old ones, none or some.
BreakGraph(t) ==
    /\ \/ /\ Indexed(t) /\ job[t].written # {}
          /\ \E ps \in SUBSET OnDisk : nodes' = nodes \cup ps
       \/ job[t].phase = "clear" /\ UNCHANGED nodes
       \/ job[t].phase = "edges" /\ job[t].scan # {} /\ UNCHANGED nodes
    /\ Fault /\ stale' = TRUE
    /\ Set(t, [job[t] EXCEPT !.phase = "edges", !.scan = {}])
    /\ UNCHANGED <<files, corpus, edges, linked, status, landed, batched, hands, meets, stranded,
                   bare, query>>

\* _write_episode_graph_node, once per episode.
LinkEpisode(e, p) ==
    /\ p \in nodes
    /\ \A q \in Pages : <<e, q>> \notin linked
    /\ linked' = linked \cup {<<e, p>>}
    /\ UNCHANGED <<files, corpus, nodes, edges, status, history, job, query>>

-----------------------------------------------------------------------------
(* index.md, and the answer                                                *)

ListPages(t) ==
    /\ job[t].phase = "edges" /\ job[t].scan = {}
    /\ Set(t, [job[t] EXCEPT !.phase = "list", !.stems = OnDisk])
    /\ UNCHANGED <<files, corpus, graph, status, history, query>>

\* _regenerate_index_md
WriteListing(t) ==
    /\ job[t].phase = "list"
    /\ listing' = job[t].stems
    /\ Set(t, [job[t] EXCEPT !.phase = "report"])
    /\ UNCHANGED <<disk, snaps, corpus, graph, status, history, query>>

\* Mutant: every diff of the turn is marked.
MarkedTurn(t, e) == \E d \in job[t].ds : d.task = e.task

\* The pending_diffs entries set to "applied": after an Apply those of its turn
\* that name the page (mark_diff_applied); after an auto_apply run that wrote
\* anything all of its diffs (_build_wiki_diff_result).
Marked(t, e) ==
    \E d \in job[t].ds : IF job[t].auto THEN d = e
                         ELSE d.task = e.task /\ d.page = e.page

\* A failure to store the mark, or the turn, is logged.
Report(t) ==
    /\ \/ job[t].phase = "report"
       \/ Indexed(t) /\ job[t].written = {}
    /\ \/ /\ status' = [e \in Diffs |->
                          IF Creates(e) \/ ~Marked(t, e) THEN status[e]
                          ELSE IF job[t].written # {} THEN "applied" ELSE "pending"]
          /\ batched' = batched \cup (IF job[t].auto /\ job[t].written # {}
                                    THEN {d.task : d \in job[t].ds} ELSE {})
          /\ NoFault
       \/ Fault /\ UNCHANGED <<status, batched>>
    /\ Set(t, IdleJob)
    /\ UNCHANGED <<files, corpus, graph, landed, hands, meets, failed, query>>

-----------------------------------------------------------------------------
\* The user edits, creates or deletes a page outside the app.
HandEdit(p, c) ==
    /\ hands < scope.hands /\ disk[p] # c
    /\ hands'   = hands + 1
    /\ disk'    = [disk EXCEPT ![p] = c]
    /\ unsure'  = unsure \cup {p}
    /\ overlap' = TRUE
    /\ UNCHANGED <<snaps, listing, corpus, graph, status, landed, batched, faults, failed, job, query>>

DiskEdges == UNION {EdgesOf(p, disk[p], OnDisk) : p \in OnDisk}

\* The start's index_directory, and reconcile_wiki for the rows of deleted
\* pages; it misses the pages it cannot read and the rows it fails to drop.
Reindex(missed) ==
    /\ row'      = [p \in Pages |-> IF p \in missed THEN row[p] ELSE disk[p]]
    /\ stranded' = {p \in missed : row[p] # disk[p]}
    /\ entry'    = [entry EXCEPT !.valid = @ /\ \A p \in Pages \ missed : row[p] = disk[p]]

\* The start's build_graph.
Regraph ==
    /\ nodes' = nodes \cup OnDisk /\ edges' = DiskEdges /\ linked' = {} /\ stale' = FALSE

\* It raises, in its first or its second pass, and is caught.
RegraphFails ==
    /\ stale' = TRUE
    /\ \/ /\ \E ps \in SUBSET OnDisk : nodes' = nodes \cup ps
          /\ UNCHANGED <<edges, linked>>
       \/ /\ nodes' = nodes \cup OnDisk /\ linked' = {}
          /\ edges' \in SUBSET DiskEdges

\* The process stops anywhere; the next start's lifespan makes index and graph
\* anew before it serves a request.  index.md is left as it is.
Restart ==
    /\ \/ Reindex({}) /\ Regraph /\ NoFault
       \/ Fault /\ (Regraph \/ RegraphFails) /\ \E missed \in SUBSET Pages : Reindex(missed)
    /\ unsure' = {} /\ overlap' = FALSE
    /\ job'   = [t \in Threads |-> IdleJob]
    /\ query' = [q \in Queries |-> IdleQuery]
    /\ UNCHANGED <<files, status, landed, batched, hands, bare>>

\* The app has just started on the Initial wiki.
Init ==
    /\ disk = Initial /\ row = Initial
    /\ snaps   = [p \in Pages |-> {}]
    /\ listing = OnDisk /\ nodes = OnDisk
    /\ edges   = DiskEdges /\ linked = {}
    /\ entry   = [valid |-> FALSE, rows |-> Initial, raced |-> FALSE]
    /\ status  = [d \in Diffs |-> "none"]
    /\ landed = {} /\ batched = {} /\ hands = 0 /\ faults = 0
    /\ unsure = {} /\ overlap = FALSE
    /\ stranded = {} /\ stale = FALSE /\ bare = {}
    /\ scope \in Scopes
    /\ job   = [t \in Threads |-> IdleJob]
    /\ query = [q \in Queries |-> IdleQuery]

Step(t) ==
    \/ \E d \in Diffs : Begin(t, d) \/ ReadPage(t, d) \/ WritePage(t, d) \/ FailWrite(t, d)
    \/ \E p \in Pages : ReadForIndex(t, p) \/ StoreRow(t, p) \/ MissRow(t, p)
    \/ \E e \in job[t].scan : AddEdge(t, e)
    \/ ScanGraph(t) \/ ClearEdges(t) \/ BreakGraph(t)
    \/ ListPages(t) \/ WriteListing(t) \/ Raise(t) \/ Report(t)

Next ==
    /\ \/ \E k \in scope.tasks : Propose(k) \/ \E t \in scope.threads : StartAuto(t, k)
       \/ \E t \in scope.threads : Step(t) \/ \E d \in Diffs : StartPending(t, d)
       \/ \E q \in scope.queries : LoadRows(q) \/ WriteCache(q)
       \/ \E e \in scope.episodes, p \in Pages : LinkEpisode(e, p)
       \/ \E p \in Pages, c \in HandTexts : HandEdit(p, c)
       \/ Restart
    /\ UNCHANGED scope

Spec == Init /\ [][Next]_vars

-----------------------------------------------------------------------------
(* Properties                                                              *)

\* Every variable has its type.
TypeOK ==
    /\ disk \in [Pages -> Texts] /\ row \in [Pages -> Texts]
    /\ snaps \in [Pages -> SUBSET SUBSET Blocks]
    /\ listing \subseteq Pages /\ nodes \subseteq Pages
    /\ edges \subseteq [from : Pages, to : Pages, resolved : BOOLEAN]
    /\ linked \subseteq Episodes \X Pages
    /\ entry.valid \in BOOLEAN /\ entry.rows \in [Pages -> Texts]
    /\ status \in [Diffs -> {"none", "pending", "applied"}]
    /\ landed \subseteq Diffs /\ batched \subseteq Tasks
    /\ hands \in 0 .. scope.hands /\ faults \in 0 .. scope.faults
    /\ unsure \subseteq Pages /\ stranded \subseteq Pages /\ bare \subseteq Pages
    /\ overlap \in BOOLEAN /\ stale \in BOOLEAN
    /\ \A t \in Threads : /\ job[t].ds \subseteq Diffs /\ job[t].todo \subseteq job[t].ds
                          /\ job[t].text \in Texts
    /\ \A q \in Queries : query[q].rows \in [Pages -> Texts]

\* "Every page written to disk is immediately passed to index_document()": a
\* page no job is working on is indexed as it stands on disk, whatever was
\* applied, given up or cut short by a crash.  Not meant are pages on which
\* two jobs or a hand edit met since the start, and those whose own index call
\* failed, or was never made because the run that wrote them raised.
IndexCurrent ==
    \A p \in Pages \ (unsure \cup stranded) :
        (\A t \in Threads : p \notin PagesOf(t)) => row[p] = disk[p]

\* The cached answer of a query scored the rows that are in the index, unless
\* the index changed between its read of the rows and its write of the answer.
CacheCurrent == (entry.valid /\ ~entry.raced) => entry.rows = row

\* After jobs that did not overlap the graph holds the links that are on disk,
\* each resolved exactly when its target page exists, unless its last rebuild
\* failed or was never made because the run that wrote raised.
EdgesCurrent == (Quiet /\ ~overlap /\ ~stale) => edges = DiskEdges

\* A page content that a job overwrites, or cuts short, is in its snapshots,
\* unless two jobs or a hand edit met on the page or the snapshot failed, which
\* is only logged.
Overwritten(p) == hands' = hands /\ disk'[p] # disk[p] /\ disk[p] # NoPage
Snapshotted ==
    [][\A p \in Pages \ (unsure \cup bare) : Overwritten(p) => disk[p] \in snaps[p]]_vars

\* A diff shown as applied was written to disk; or another one of its turn for
\* its page was, since an Apply marks the turn's entries by page; or another one
\* of its turn, by an auto_apply run, which marks all once it wrote anything.
Accounts(e, d) == e = d \/ (e.task = d.task /\ (e.page = d.page \/ d.task \in batched))
AppliedIsWritten ==
    \A d \in Diffs : status[d] = "applied" => \E e \in landed : Accounts(e, d)

\* What the comments promise without the reservations above:

\* a valid cache entry always corresponds to current content;
CacheExact == entry.valid => entry.rows = row

\* a page's content is snapshotted before it gets overwritten;
SnapshottedAlways == [][\A p \in Pages : Overwritten(p) => disk[p] \in snaps[p]]_vars

\* the document index stays current without a corpus re-scan;
IndexFollowsJobs ==
    (Quiet /\ hands = 0) => row = disk

\* stale edges of links since removed never survive a rebuild;
NoStaleEdges == (Quiet /\ hands = 0) => edges = DiskEdges

\* index.md can never drift from what is on disk;
ListingCurrent == (Quiet /\ hands = 0) => listing = OnDisk

\* a page's neighbourhood cites the episodes that reference it.
EpisodeLinksKept == [][linked \subseteq linked']_vars
=============================================================================
