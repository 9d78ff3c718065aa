--------------------------- MODULE WikiCorpusProofs ---------------------------
(***************************************************************************)
(* Proofs about WikiCorpus, for every value of its constants.              *)
(***************************************************************************)
EXTENDS WikiCorpus, TLAPS

-----------------------------------------------------------------------------
(* The inductive invariant                                                 *)

Rows   == [Pages -> Texts]
Edge   == [from : Pages, to : Pages, resolved : BOOLEAN]
Phases == {"idle", "next", "read", "write", "index", "clear", "edges", "list", "report"}
Job    == [phase : Phases, auto : BOOLEAN, ds : SUBSET Diffs, todo : SUBSET Diffs,
           cur : SUBSET (Diffs \cup Pages), text : Texts, written : SUBSET Pages,
           index : SUBSET Pages, scan : SUBSET Edge, stems : SUBSET Pages]
Read   == [loaded : BOOLEAN, rows : Rows, raced : BOOLEAN]

Typed ==
    /\ disk \in Rows /\ row \in Rows /\ snaps \in [Pages -> SUBSET SUBSET Blocks]
    /\ listing \subseteq Pages /\ nodes \subseteq Pages /\ edges \subseteq Edge
    /\ linked \subseteq Episodes \X Pages
    /\ entry \in [valid : BOOLEAN, rows : Rows, raced : BOOLEAN]
    /\ status \in [Diffs -> {"none", "pending", "applied"}]
    /\ landed \subseteq Diffs /\ batched \subseteq Tasks
    /\ unsure \subseteq Pages /\ stranded \subseteq Pages /\ bare \subseteq Pages
    /\ overlap \in BOOLEAN /\ stale \in BOOLEAN
    /\ scope \in Scopes /\ hands \in 0 .. scope.hands /\ faults \in 0 .. scope.faults
    /\ job \in [Threads -> Job] /\ query \in [Queries -> Read]

Writing(j)  == j.phase \in {"read", "write"}
Indexing(j) == j.phase = "index"

\* What a job still has to do, by its phase: an Apply has one diff, nothing is
\* indexed before it is written and the rebuild comes after the index.
Formed(j) ==
    /\ j.todo \subseteq j.ds /\ j.index \subseteq j.written
    /\ j.todo # {} => j.index = j.written
    /\ \A p \in j.written : \E d \in j.ds : d.page = p
    /\ j.phase = "idle" => j.ds = {}
    /\ ~j.auto => (\A d, e \in j.ds : d = e) /\ (j.todo = {} \/ j.written = {})
    /\ Writing(j) => \E d \in j.todo :
                        /\ j.cur = {d} /\ (Creates(d) => j.phase = "write")
                        /\ j.phase = "write" /\ ~Creates(d) => j.text \in SUBSET Blocks
    /\ Indexing(j) => j.todo = {} /\ \E p \in j.written : j.cur = {p}
    /\ j.phase \in {"clear", "edges", "list", "report"} =>
          j.todo = {} /\ j.index = {} /\ j.written # {}

AllFormed == \A t \in Threads : Formed(job[t])

\* Two jobs share no page but those they met on.
Apart == \A t, u \in Threads : t # u => PagesOf(t) \cap PagesOf(u) \subseteq unsure

\* The page is in its snapshots as it stands, or snapshotting it failed.
Saved(p) == disk[p] \in snaps[p] \/ p \in bare

\* Only its own job changes a page: the index is current or about to be, unless
\* the page is stranded; what was written is there, and what is about to be
\* overwritten is saved.
PageCurrent(p) ==
    /\ \/ p \in stranded
       \/ row[p] = disk[p]
       \/ \E t \in Threads : p \in job[t].index \/ (Indexing(job[t]) /\ p \in job[t].cur)
    /\ \A t \in Threads :
          /\ p \in job[t].written => disk[p] # NoPage
          /\ Indexing(job[t]) /\ p \in job[t].cur => job[t].text = disk[p]
          /\ \A d \in job[t].cur :
                Writing(job[t]) /\ d.page = p =>
                    IF Creates(d) THEN disk[p] = NoPage ELSE Saved(p)

PagesCurrent == \A p \in Pages \ unsure : PageCurrent(p)

\* Queries that loaded the rows have the rows of the index, unless it changed.
RowsCurrent == \A q \in Queries : query[q].loaded /\ ~query[q].raced => query[q].rows = row

\* What a lone job has made of the graph, by its phase, unless the graph is stale.
GraphOf(j) ==
    /\ j.phase \in {"next", "read", "write", "index"} /\ j.written = {} =>
          stale \/ edges = DiskEdges
    /\ j.phase = "clear" => j.scan = DiskEdges
    /\ j.phase = "edges" => stale \/ edges \cup j.scan = DiskEdges
    /\ j.phase \in {"list", "report"} => stale \/ edges = DiskEdges

GraphCurrent ==
    ~overlap => /\ \A t, u \in Threads : Busy(t) /\ Busy(u) => t = u
                /\ \A t \in Threads : GraphOf(job[t])
                /\ Quiet => stale \/ edges = DiskEdges

Inv == Typed /\ AllFormed /\ Apart /\ PagesCurrent /\ CacheCurrent /\ RowsCurrent /\ GraphCurrent

-----------------------------------------------------------------------------
(* What a thread goes on as                                                *)

Becomes(t, r) == r \in Job /\ Formed(r) /\ job' = [job EXCEPT ![t] = r]

\* r is j in all but its phase and what it has at hand.
SameWork(r, j) == r.ds = j.ds /\ r.auto = j.auto /\ r.written = j.written /\ r.index = j.index

LEMMA JobAfter ==
  ASSUME Typed, AllFormed, NEW t \in Threads, NEW r, Becomes(t, r)
  PROVE  /\ job' \in [Threads -> Job] /\ job'[t] = r /\ AllFormed'
         /\ \A u \in Threads \ {t} : job'[u] = job[u]
         /\ PagesOf(t)' = {d.page : d \in r.ds}
         /\ \A u \in Threads \ {t} : PagesOf(u)' = PagesOf(u)
  BY DEF Typed, AllFormed, Becomes, PagesOf

LEMMA Idles ==
  /\ IdleJob \in Job /\ Formed(IdleJob)
  /\ IdleJob.phase = "idle" /\ IdleJob.ds = {} /\ IdleJob.written = {} /\ IdleJob.index = {}
  <1>1. /\ IdleJob.phase = "idle" /\ IdleJob.ds = {} /\ IdleJob.written = {} /\ IdleJob.index = {}
        /\ IdleJob.todo = {}
    BY DEF IdleJob
  <1>2. Formed(IdleJob)
    BY <1>1 DEF Formed, Writing, Indexing
  <1>3. NoPage \in Texts /\ "idle" \in Phases
    BY DEF Texts, Phases
  <1>4. IdleJob \in Job
    BY <1>3 DEF IdleJob, Job
  <1> QED BY <1>1, <1>2, <1>4

LEMMA DiffTypes ==
  /\ \A d \in Diffs : d.page \in Pages /\ d.after \in Blocks
  /\ \A d \in Diffs : ~Creates(d) => d.before \in Blocks
  /\ NoPage \notin SUBSET Blocks /\ Texts = (SUBSET Blocks) \cup {NoPage}
  BY DiffsAssumption, AbsentAssumption DEF Creates, Texts

LEMMA StartBecomes ==
  ASSUME NEW t \in Threads, NEW auto \in BOOLEAN, NEW ds \in SUBSET Diffs, Start(t, auto, ds),
         ~auto => \A d, e \in ds : d = e
  PROVE  \E r : /\ Becomes(t, r) /\ r.phase = "next" /\ r.ds = ds
                /\ r.written = {} /\ r.index = {} /\ r.cur = {}
  <1> DEFINE r == [IdleJob EXCEPT !.phase = "next", !.auto = auto, !.ds = ds, !.todo = ds]
  <1>1. /\ r \in Job /\ r.phase = "next" /\ r.ds = ds /\ r.todo = ds /\ r.auto = auto
        /\ r.written = {} /\ r.index = {} /\ r.cur = {}
    <2>1. NoPage \in Texts /\ "next" \in Phases
      BY DEF Texts, Phases
    <2> QED BY <2>1 DEF IdleJob, Job
  <1>2. job' = [job EXCEPT ![t] = r]
    BY DEF Start, Set
  <1> HIDE DEF r
  <1>3. Formed(r)
    BY <1>1 DEF Formed, Writing, Indexing
  <1> QED BY <1>1, <1>2, <1>3 DEF Becomes

\* Giving up an action ends an Apply that wrote nothing, or is one less to do.
LEMMA GiveUpBecomes ==
  ASSUME Typed, AllFormed, NEW t \in Threads, NEW d, GiveUp(t, d), d \in job[t].todo,
         job[t].phase \in {"next", "read", "write"}
  PROVE  \E r : /\ Becomes(t, r)
                /\ \/ r = IdleJob /\ job[t].written = {}
                   \/ r.phase = "next" /\ r.cur = {} /\ SameWork(r, job[t])
  <1>1. job[t] \in Job /\ Formed(job[t])
    BY DEF Typed, AllFormed
  <1>2. CASE job[t].auto
    <2> DEFINE r == [job[t] EXCEPT !.phase = "next", !.todo = @ \ {d}, !.cur = {}]
    <2>1. job' = [job EXCEPT ![t] = r]
      BY <1>2 DEF GiveUp, Set
    <2>2. /\ r \in Job /\ r.phase = "next" /\ r.cur = {} /\ SameWork(r, job[t])
          /\ r.todo = job[t].todo \ {d}
      BY <1>1 DEF Job, Phases, SameWork
    <2> HIDE DEF r
    <2>3. Formed(r)
      BY <1>1, <1>2, <2>2 DEF Formed, Writing, Indexing, SameWork
    <2> QED BY <2>1, <2>2, <2>3 DEF Becomes
  <1>3. CASE ~job[t].auto
    <2>1. job' = [job EXCEPT ![t] = IdleJob] /\ job[t].written = {}
      BY <1>1, <1>3 DEF GiveUp, Set, Formed
    <2> QED BY <2>1, Idles DEF Becomes
  <1> QED BY <1>2, <1>3

LEMMA BeginBecomes ==
  ASSUME Typed, AllFormed, NEW t \in Threads, NEW d \in Diffs, Begin(t, d)
  PROVE  /\ UNCHANGED <<disk, row, edges, unsure, overlap, stranded, stale>>
         /\ job[t].phase = "next"
         /\ \/ UNCHANGED <<snaps, bare, faults>> \/ (disk[d.page] # NoPage /\ Snapshot(d))
         /\ \E r : /\ Becomes(t, r)
                   /\ \/ r = IdleJob /\ job[t].written = {}
                      \/ r.phase = "next" /\ r.cur = {} /\ SameWork(r, job[t])
                      \/ /\ Writing(r) /\ r.cur = {d} /\ SameWork(r, job[t])
                         /\ IF Creates(d) THEN disk[d.page] = NoPage
                            ELSE Snapshot(d) /\ disk[d.page] # NoPage
  <1>1. job[t] \in Job /\ Formed(job[t]) /\ job[t].phase = "next" /\ d \in job[t].todo
    BY DEF Typed, AllFormed, Begin
  <1>2. d.page \in Pages /\ (d.page \in OnDisk <=> disk[d.page] # NoPage)
    BY DiffTypes DEF OnDisk
  <1>3. UNCHANGED <<disk, row, edges, unsure, overlap, stranded, stale>>
    BY DEF Begin, corpus, graph, meets
  <1>a. Creates(d) # (d.page \in OnDisk) <=> ~(Creates(d) <=> d.page \in OnDisk)
    BY DEF Creates
  <1>b. \/ ~(Creates(d) <=> d.page \in OnDisk) /\ Creates(d) # (d.page \in OnDisk)
        \/ GiveUp(t, d) /\ UNCHANGED <<snaps, bare, faults>>
    BY <1>a DEF Begin
  <1>4. CASE ~(Creates(d) <=> d.page \in OnDisk)
    <2> DEFINE phase == IF Creates(d) THEN "write" ELSE "read"
               r == [job[t] EXCEPT !.phase = phase, !.cur = {d}]
    <2>1. /\ job' = [job EXCEPT ![t] = r]
          /\ IF Creates(d) THEN UNCHANGED <<snaps, bare, faults>> ELSE Snapshot(d)
      BY <1>4, <1>a DEF Begin, Set
    <2>a. phase \in {"read", "write"} /\ (Creates(d) <=> phase = "write")
      OBVIOUS
    <2> HIDE DEF phase
    <2>2. /\ r \in Job /\ r.phase = phase /\ r.cur = {d} /\ SameWork(r, job[t])
          /\ r.todo = job[t].todo
      BY <1>1, <2>a DEF Job, Phases, SameWork
    <2> HIDE DEF r
    <2>3. Formed(r) /\ Writing(r)
      BY <1>1, <2>a, <2>2 DEF Formed, Writing, Indexing, SameWork
    <2>4. Becomes(t, r)
      BY <2>1, <2>2, <2>3 DEF Becomes
    <2>5. IF Creates(d) THEN disk[d.page] = NoPage ELSE Snapshot(d) /\ disk[d.page] # NoPage
      BY <1>2, <1>4, <2>1
    <2>6. UNCHANGED <<snaps, bare, faults>> \/ (disk[d.page] # NoPage /\ Snapshot(d))
      <3>1. CASE Creates(d)
        BY <2>1, <3>1
      <3>2. CASE ~Creates(d)
        BY <2>5, <3>2
      <3> QED BY <3>1, <3>2
    <2> QED BY <1>1, <1>3, <2>2, <2>3, <2>4, <2>5, <2>6
  <1>5. CASE GiveUp(t, d) /\ UNCHANGED <<snaps, bare, faults>>
    <2>1. \E r : /\ Becomes(t, r)
                 /\ \/ r = IdleJob /\ job[t].written = {}
                    \/ r.phase = "next" /\ r.cur = {} /\ SameWork(r, job[t])
      BY <1>1, <1>5, GiveUpBecomes
    <2>2. UNCHANGED <<snaps, bare, faults>> \/ (disk[d.page] # NoPage /\ Snapshot(d))
      BY <1>5
    <2> HIDE <1>5
    <2> QED BY <1>1, <1>3, <2>1, <2>2
  <1> QED BY <1>4, <1>5, <1>b

\* An exception strands what the job wrote and did not index.
LEMMA AbandonBecomes ==
  ASSUME Typed, AllFormed, NEW t \in Threads, NEW cut \in SUBSET Pages, Abandon(t, cut),
         job[t].phase \in {"read", "write"} => job[t].todo # {}
  PROVE  /\ Becomes(t, IdleJob) /\ stranded' \subseteq Pages /\ stale' \in BOOLEAN
         /\ stranded \subseteq stranded' /\ job[t].index \cup cut \subseteq stranded'
         /\ (stale => stale') /\ (cut # {} => stale')
         /\ job[t].phase \in {"read", "write"} /\ job[t].written # {} => stale'
  <1>1. job[t] \in Job /\ Formed(job[t]) /\ stranded \subseteq Pages /\ stale \in BOOLEAN
    BY DEF Typed, AllFormed
  <1>2. /\ job' = [job EXCEPT ![t] = IdleJob] /\ stranded' = stranded \cup (job[t].index \cup cut)
        /\ stale' = (stale \/ job[t].index \cup cut # {})
    BY DEF Abandon, Owe, Set
  <1>3. job[t].index \subseteq Pages /\ (job[t].todo # {} => job[t].index = job[t].written)
    BY <1>1 DEF Job, Formed
  <1> QED BY <1>1, <1>2, <1>3, Idles DEF Becomes

LEMMA ReadBecomes ==
  ASSUME Typed, AllFormed, NEW t \in Threads, NEW d \in Diffs, ReadPage(t, d)
  PROVE  /\ UNCHANGED <<disk, row, edges, unsure, overlap, snaps, bare>>
         /\ job[t].phase = "read" /\ job[t].cur = {d}
         /\ \/ Abandon(t, {}) /\ job[t].todo # {}
            \/ /\ UNCHANGED <<stranded, stale>>
               /\ \E r : /\ Becomes(t, r)
                         /\ \/ r = IdleJob /\ job[t].written = {}
                            \/ r.phase = "next" /\ r.cur = {} /\ SameWork(r, job[t])
                            \/ r.phase = "write" /\ r.cur = {d} /\ SameWork(r, job[t])
  <1>1. job[t] \in Job /\ Formed(job[t]) /\ job[t].phase = "read" /\ d \in job[t].cur
    BY DEF Typed, AllFormed, ReadPage
  <1>2. job[t].cur = {d} /\ d \in job[t].todo /\ ~Creates(d)
    BY <1>1 DEF Formed, Writing
  <1>3. UNCHANGED <<disk, row, edges, unsure, overlap, snaps, bare>>
    BY DEF ReadPage, corpus, graph, files, meets
  <1>4. CASE d.page \notin OnDisk
    <2>1. Abandon(t, {})
      BY <1>4 DEF ReadPage
    <2> QED BY <1>1, <1>2, <1>3, <2>1
  <1>5. CASE d.page \in OnDisk /\ ~Matches(d, disk[d.page])
    <2>1. GiveUp(t, d) /\ UNCHANGED <<stranded, stale>>
      BY <1>5 DEF ReadPage
    <2> QED BY <1>1, <1>2, <1>3, <2>1, GiveUpBecomes
  <1>6. CASE d.page \in OnDisk /\ Matches(d, disk[d.page])
    <2> DEFINE r == [job[t] EXCEPT !.phase = "write", !.text = disk[d.page]]
    <2>1. job' = [job EXCEPT ![t] = r] /\ UNCHANGED <<stranded, stale>>
      BY <1>6 DEF ReadPage, Set
    <2>2. disk[d.page] \in SUBSET Blocks /\ disk[d.page] \in Texts
      <3>1. d.page \in Pages /\ disk[d.page] # NoPage
        BY <1>6 DEF OnDisk
      <3> QED BY <3>1, DiffTypes DEF Typed, Rows
    <2>3. /\ r \in Job /\ r.phase = "write" /\ r.cur = {d} /\ SameWork(r, job[t])
          /\ r.todo = job[t].todo /\ r.text = disk[d.page]
      BY <1>1, <1>2, <2>2 DEF Job, Phases, SameWork
    <2> HIDE DEF r
    <2>4. Formed(r)
      BY <1>1, <1>2, <2>2, <2>3 DEF Formed, Writing, Indexing, SameWork
    <2> QED BY <1>1, <1>2, <1>3, <2>1, <2>3, <2>4 DEF Becomes
  <1> QED BY <1>4, <1>5, <1>6

\* A write that fails leaves its page as it was or cut short, and its job
\* without it.
LEMMA FailBecomes ==
  ASSUME Typed, AllFormed, NEW t \in Threads, NEW d \in Diffs, FailWrite(t, d)
  PROVE  /\ UNCHANGED <<row, edges, unsure, overlap, snaps, bare>>
         /\ job[t].phase = "write" /\ job[t].cur = {d} /\ d \in job[t].ds
         /\ stranded' \subseteq Pages /\ stale' \in BOOLEAN /\ stranded \subseteq stranded'
         /\ stale => stale'
         /\ \/ disk' = disk
            \/ disk' = [disk EXCEPT ![d.page] = {}] /\ d.page \in stranded' /\ stale'
         /\ \E r : /\ Becomes(t, r) /\ r.phase \in {"idle", "next"} /\ r.cur = {}
                   /\ \/ /\ r = IdleJob /\ job[t].index \subseteq stranded'
                         /\ job[t].written # {} => stale'
                      \/ SameWork(r, job[t]) /\ r.phase = "next"
  <1>1. /\ job[t] \in Job /\ Formed(job[t]) /\ job[t].phase = "write" /\ d \in job[t].cur
        /\ stranded \subseteq Pages /\ stale \in BOOLEAN /\ disk \in Rows /\ d.page \in Pages
    BY DiffTypes DEF Typed, AllFormed, FailWrite
  <1>2. job[t].cur = {d} /\ d \in job[t].todo /\ d \in job[t].ds
    BY <1>1 DEF Formed, Writing
  <1>3. UNCHANGED <<row, edges, unsure, overlap, snaps, bare>>
    BY DEF FailWrite, corpus, graph, meets
  <1>4. PICK cut \in SUBSET {d.page} :
           /\ disk' = [p \in Pages |-> IF p \in cut THEN {} ELSE disk[p]]
           /\ IF job[t].auto /\ ~Creates(d) THEN GiveUp(t, d) /\ Owe(cut) ELSE Abandon(t, cut)
    BY DEF FailWrite
  <1>5. \/ cut = {} /\ disk' = disk
        \/ cut = {d.page} /\ disk' = [disk EXCEPT ![d.page] = {}]
    <2>1. CASE cut = {}
      BY <1>1, <1>4, <2>1 DEF Rows
    <2>2. CASE cut = {d.page}
      BY <1>1, <1>4, <2>2 DEF Rows
    <2> QED BY <2>1, <2>2
  <1>6. CASE job[t].auto /\ ~Creates(d)
    <2>1. GiveUp(t, d) /\ stranded' = stranded \cup cut /\ stale' = (stale \/ cut # {})
      BY <1>4, <1>6 DEF Owe
    <2>2. PICK r : /\ Becomes(t, r)
                   /\ \/ r = IdleJob /\ job[t].written = {}
                      \/ r.phase = "next" /\ r.cur = {} /\ SameWork(r, job[t])
      BY <1>1, <1>2, <2>1, GiveUpBecomes
    <2>3. r = IdleJob /\ job[t].written = {} => r.phase = "idle" /\ r.cur = {} /\ job[t].index = {}
      BY <1>1, Idles DEF Formed, IdleJob
    <2>4. r.phase \in {"idle", "next"} /\ r.cur = {}
      BY <2>2, <2>3
    <2>5. \/ r = IdleJob /\ job[t].index \subseteq stranded' /\ (job[t].written # {} => stale')
          \/ SameWork(r, job[t]) /\ r.phase = "next"
      BY <2>2, <2>3
    <2> QED BY <1>1, <1>2, <1>3, <1>5, <2>1, <2>2, <2>4, <2>5
  <1>7. CASE ~(job[t].auto /\ ~Creates(d))
    <2>1. Abandon(t, cut) /\ cut \in SUBSET Pages /\ job[t].todo # {}
      BY <1>1, <1>2, <1>4, <1>7
    <2>2. /\ Becomes(t, IdleJob) /\ stranded' \subseteq Pages /\ stale' \in BOOLEAN
          /\ stranded \subseteq stranded' /\ job[t].index \cup cut \subseteq stranded'
          /\ (stale => stale') /\ (cut # {} => stale')
          /\ job[t].written # {} => stale'
      BY <1>1, <2>1, AbandonBecomes
    <2>3. IdleJob.phase = "idle" /\ IdleJob.cur = {}
      BY DEF IdleJob
    <2> QED BY <1>1, <1>2, <1>3, <1>5, <2>2, <2>3
  <1> QED BY <1>6, <1>7

LEMMA WriteBecomes ==
  ASSUME Typed, AllFormed, NEW t \in Threads, NEW d \in Diffs, WritePage(t, d)
  PROVE  /\ UNCHANGED <<row, edges, unsure, overlap, snaps, bare, stranded, stale>>
         /\ job[t].phase = "write" /\ job[t].cur = {d} /\ d \in job[t].ds
         /\ \E text \in SUBSET Blocks : disk' = [disk EXCEPT ![d.page] = text]
         /\ \E r : /\ Becomes(t, r) /\ r.phase = "next" /\ r.cur = {} /\ r.ds = job[t].ds
                   /\ r.written = job[t].written \cup {d.page}
                   /\ r.index = job[t].index \cup {d.page}
  <1> DEFINE r == [job[t] EXCEPT !.phase = "next", !.cur = {}, !.todo = @ \ {d}, !.text = NoPage,
                                 !.written = @ \cup {d.page}, !.index = @ \cup {d.page}]
  <1>1. job[t] \in Job /\ Formed(job[t]) /\ job[t].phase = "write" /\ d \in job[t].cur
    BY DEF Typed, AllFormed, WritePage
  <1>2. /\ job[t].cur = {d} /\ d \in job[t].todo /\ d \in job[t].ds
        /\ ~Creates(d) => job[t].text \in SUBSET Blocks
    BY <1>1 DEF Formed, Writing
  <1>3. /\ job' = [job EXCEPT ![t] = r]
        /\ UNCHANGED <<row, edges, unsure, overlap, snaps, bare, stranded, stale>>
        /\ disk' = [disk EXCEPT ![d.page] = Patched(d, job[t].text)]
    BY DEF WritePage, Set, corpus, graph, meets, failed
  <1>4. Patched(d, job[t].text) \in SUBSET Blocks
    BY <1>2, DiffTypes DEF Patched
  <1>5. /\ r \in Job /\ r.phase = "next" /\ r.cur = {} /\ r.ds = job[t].ds /\ r.auto = job[t].auto
        /\ r.todo = job[t].todo \ {d} /\ r.written = job[t].written \cup {d.page}
        /\ r.index = job[t].index \cup {d.page}
    <2>1. NoPage \in Texts /\ "next" \in Phases /\ d.page \in Pages
      BY DiffTypes DEF Texts, Phases
    <2> QED BY <1>1, <2>1 DEF Job
  <1> HIDE DEF r
  <1>6. Formed(r)
    BY <1>1, <1>2, <1>5 DEF Formed, Writing, Indexing
  <1>7. Becomes(t, r)
    BY <1>3, <1>5, <1>6 DEF Becomes
  <1> QED BY <1>1, <1>2, <1>3, <1>4, <1>5, <1>7

LEMMA ReadForIndexBecomes ==
  ASSUME Typed, AllFormed, NEW t \in Threads, NEW p \in Pages, ReadForIndex(t, p)
  PROVE  /\ UNCHANGED <<disk, row, edges, unsure, overlap, snaps, bare, stranded, stale>>
         /\ job[t].phase = "next" /\ p \in job[t].index
         /\ \E r : /\ Becomes(t, r) /\ r.cur = {p} /\ r.text = disk[p]
                   /\ r.phase = IF disk[p] # NoPage THEN "index" ELSE "next"
                   /\ r.ds = job[t].ds /\ r.written = job[t].written
                   /\ r.index = job[t].index \ {p}
  <1> DEFINE phase == IF p \in OnDisk THEN "index" ELSE "next"
             r == [job[t] EXCEPT !.index = @ \ {p}, !.text = disk[p], !.cur = {p}, !.phase = phase]
  <1>1. /\ job[t] \in Job /\ Formed(job[t]) /\ job[t].phase = "next" /\ p \in job[t].index
        /\ job[t].todo = {}
    BY DEF Typed, AllFormed, ReadForIndex
  <1>2. /\ job' = [job EXCEPT ![t] = r]
        /\ UNCHANGED <<disk, row, edges, unsure, overlap, snaps, bare, stranded, stale>>
    BY DEF ReadForIndex, Set, corpus, graph, files, history, meets, failed
  <1>3. phase \in {"index", "next"} /\ phase = IF disk[p] # NoPage THEN "index" ELSE "next"
    BY DEF OnDisk
  <1>4. disk[p] \in Texts
    BY DEF Typed, Rows
  <1> HIDE DEF phase
  <1>5. /\ r \in Job /\ r.phase = phase /\ r.cur = {p} /\ r.ds = job[t].ds /\ r.auto = job[t].auto
        /\ r.todo = {} /\ r.written = job[t].written /\ r.text = disk[p]
        /\ r.index = job[t].index \ {p}
    BY <1>1, <1>3, <1>4 DEF Job, Phases
  <1> HIDE DEF r
  <1>6. Formed(r)
    BY <1>1, <1>3, <1>5 DEF Formed, Writing, Indexing
  <1>7. Becomes(t, r)
    BY <1>2, <1>5, <1>6 DEF Becomes
  <1> QED BY <1>1, <1>2, <1>3, <1>5, <1>7

\* index_document stores the row or misses it.
LEMMA IndexBecomes ==
  ASSUME Typed, AllFormed, NEW t \in Threads, NEW p \in Pages, StoreRow(t, p) \/ MissRow(t, p)
  PROVE  /\ UNCHANGED <<disk, edges, unsure, overlap, snaps, bare, stale>>
         /\ Indexing(job[t]) /\ job[t].cur = {p}
         /\ job[t].text \in Texts /\ job[t].written # {}
         /\ \E r : Becomes(t, r) /\ r.cur = {} /\ r.phase = "next" /\ SameWork(r, job[t])
  <1> DEFINE r == [job[t] EXCEPT !.phase = "next", !.cur = {}]
  <1>1. job[t] \in Job /\ Formed(job[t]) /\ job[t].phase = "index" /\ p \in job[t].cur
    BY DEF Typed, AllFormed, StoreRow, MissRow
  <1>2. /\ job' = [job EXCEPT ![t] = r]
        /\ UNCHANGED <<disk, edges, unsure, overlap, snaps, bare, stale>>
    BY DEF StoreRow, MissRow, Set, graph, files, meets
  <1>3. job[t].cur = {p} /\ job[t].todo = {} /\ job[t].text \in Texts /\ job[t].written # {}
    BY <1>1 DEF Formed, Indexing, Job
  <1>4. /\ r \in Job /\ r.phase = "next" /\ r.cur = {} /\ r.todo = job[t].todo
        /\ SameWork(r, job[t])
    BY <1>1 DEF Job, Phases, SameWork
  <1> HIDE DEF r
  <1>5. Formed(r)
    BY <1>1, <1>3, <1>4 DEF Formed, Writing, Indexing, SameWork
  <1>6. Becomes(t, r)
    BY <1>2, <1>4, <1>5 DEF Becomes
  <1> QED BY <1>1, <1>2, <1>3, <1>4, <1>6 DEF Indexing

LEMMA DiskEdgesTyped ==
  ASSUME disk \in Rows
  PROVE  OnDisk \subseteq Pages /\ DiskEdges \subseteq Edge
  <1>1. ASSUME NEW p \in OnDisk
        PROVE  EdgesOf(p, disk[p], OnDisk) \subseteq Edge
    <2>1. p \in Pages /\ disk[p] \in SUBSET Blocks
      BY DiffTypes DEF OnDisk, Rows
    <2>2. UNION {Link[b] : b \in disk[p]} \subseteq Pages
      BY <2>1, ContentAssumption
    <2>3. ASSUME NEW q \in UNION {Link[b] : b \in disk[p]}
          PROVE  [from |-> p, to |-> q, resolved |-> q \in OnDisk] \in Edge
      <3>1. q \in Pages /\ (q \in OnDisk) \in BOOLEAN
        BY <2>2
      <3> QED BY <2>1, <3>1 DEF Edge
    <2> QED BY <2>3 DEF EdgesOf
  <1> QED BY <1>1 DEF DiskEdges, OnDisk

LEMMA EdgeTypes == Typed => OnDisk \subseteq Pages /\ DiskEdges \subseteq Edge
  BY DiskEdgesTyped DEF Typed

\* The steps of the rebuild and of index.md.
Rebuilds(t) == \/ ScanGraph(t) \/ ClearEdges(t) \/ BreakGraph(t) \/ ListPages(t) \/ WriteListing(t)
               \/ \E e \in job[t].scan : AddEdge(t, e)

\* What a step of the rebuild makes of job j and of the edges.
Rebuilt(j, r) ==
    \/ r.phase = "clear" /\ r.scan = DiskEdges /\ stale' = stale
    \/ /\ j.phase = "clear" /\ r.phase = "edges"
       /\ r.scan = j.scan /\ edges' = {}
    \/ r.phase = "edges" /\ stale'
    \/ /\ j.phase = "edges" /\ r.phase = "list"
       /\ j.scan = {} /\ edges' = edges /\ stale' = stale
    \/ j.phase = "list" /\ r.phase = "report" /\ edges' = edges /\ stale' = stale
    \/ /\ j.phase = "edges" /\ r.phase = "edges" /\ stale' = stale
       /\ \E e \in j.scan :
             /\ r.scan = j.scan \ {e}
             /\ edges' = {e} \cup {f \in edges : f.from # e.from \/ f.to # e.to}

LEMMA RebuildBecomes ==
  ASSUME Typed, AllFormed, NEW t \in Threads, Rebuilds(t)
  PROVE  /\ UNCHANGED <<disk, row, unsure, overlap, snaps, bare, stranded>>
         /\ edges' \subseteq Edge /\ stale' \in BOOLEAN
         /\ \E r : /\ Becomes(t, r) /\ SameWork(r, job[t]) /\ Busy(t) /\ ~Indexing(job[t])
                   /\ r.phase \in {"clear", "edges", "list", "report"}
                   /\ Rebuilt(job[t], r)
  <1>1. job[t] \in Job /\ Formed(job[t]) /\ edges \subseteq Edge /\ stale \in BOOLEAN
    BY DEF Typed, AllFormed
  <1>2. /\ UNCHANGED <<disk, row, unsure, overlap, snaps, bare, stranded>>
        /\ Busy(t) /\ ~Indexing(job[t])
    BY DEF Rebuilds, ScanGraph, ClearEdges, BreakGraph, ListPages, WriteListing, AddEdge, corpus, graph,
       files, history, meets, failed, Busy, Indexing, Indexed
  <1>3. ASSUME NEW r \in Job, SameWork(r, job[t]), r.todo = {}, job[t].index = {},
               job[t].written # {}, r.phase \in {"clear", "edges", "list", "report"}
        PROVE  Formed(r)
    BY <1>1, <1>3 DEF Formed, SameWork, Writing, Indexing
  <1>4. job[t].phase \in {"clear", "edges", "list", "report"} =>
           job[t].todo = {} /\ job[t].index = {} /\ job[t].written # {}
    BY <1>1 DEF Formed
  <1>5. CASE ScanGraph(t)
    <2> DEFINE r == [job[t] EXCEPT !.phase = "clear", !.stems = OnDisk, !.scan = DiskEdges]
    <2>1. /\ job' = [job EXCEPT ![t] = r] /\ edges' = edges /\ stale' = stale
          /\ job[t].todo = {} /\ job[t].index = {} /\ job[t].written # {}
      BY <1>5 DEF ScanGraph, Set, Indexed, DiskEdges, history, failed
    <2>2. /\ r \in Job /\ r.phase = "clear" /\ r.scan = DiskEdges /\ SameWork(r, job[t])
          /\ r.todo = job[t].todo
      BY <1>1, EdgeTypes DEF Job, Phases, SameWork
    <2> HIDE DEF r
    <2>3. Becomes(t, r)
      BY <1>3, <2>1, <2>2 DEF Becomes
    <2> QED BY <1>1, <1>2, <2>1, <2>2, <2>3 DEF Rebuilt
  <1>6. CASE ClearEdges(t)
    <2> DEFINE r == [job[t] EXCEPT !.phase = "edges"]
    <2>1. /\ job' = [job EXCEPT ![t] = r] /\ edges' = {} /\ job[t].phase = "clear"
          /\ stale' = FALSE
      BY <1>6 DEF ClearEdges, Set
    <2>2. /\ r \in Job /\ r.phase = "edges" /\ r.scan = job[t].scan /\ SameWork(r, job[t])
          /\ r.todo = job[t].todo
      BY <1>1 DEF Job, Phases, SameWork
    <2> HIDE DEF r
    <2>3. Becomes(t, r)
      BY <1>3, <1>4, <2>1, <2>2 DEF Becomes
    <2> QED BY <1>2, <1>4, <2>1, <2>2, <2>3 DEF Rebuilt
  <1>7. CASE ListPages(t)
    <2> DEFINE r == [job[t] EXCEPT !.phase = "list", !.stems = OnDisk]
    <2>1. /\ job' = [job EXCEPT ![t] = r] /\ edges' = edges /\ job[t].phase = "edges"
          /\ job[t].scan = {} /\ stale' = stale
      BY <1>7 DEF ListPages, Set, graph, history, failed
    <2>2. r \in Job /\ r.phase = "list" /\ SameWork(r, job[t]) /\ r.todo = job[t].todo
      BY <1>1, EdgeTypes DEF Job, Phases, SameWork
    <2> HIDE DEF r
    <2>3. Becomes(t, r)
      BY <1>3, <1>4, <2>1, <2>2 DEF Becomes
    <2> QED BY <1>1, <1>2, <1>4, <2>1, <2>2, <2>3 DEF Rebuilt
  <1>8. CASE WriteListing(t)
    <2> DEFINE r == [job[t] EXCEPT !.phase = "report"]
    <2>1. /\ job' = [job EXCEPT ![t] = r] /\ edges' = edges /\ job[t].phase = "list"
          /\ stale' = stale
      BY <1>8 DEF WriteListing, Set, graph, history, failed
    <2>2. r \in Job /\ r.phase = "report" /\ SameWork(r, job[t]) /\ r.todo = job[t].todo
      BY <1>1 DEF Job, Phases, SameWork
    <2> HIDE DEF r
    <2>3. Becomes(t, r)
      BY <1>3, <1>4, <2>1, <2>2 DEF Becomes
    <2> QED BY <1>1, <1>2, <1>4, <2>1, <2>2, <2>3 DEF Rebuilt
  <1>9. CASE \E e \in job[t].scan : AddEdge(t, e)
    <2> PICK e \in job[t].scan : AddEdge(t, e)
      BY <1>9
    <2> DEFINE r == [job[t] EXCEPT !.scan = @ \ {e}]
    <2>1. /\ job' = [job EXCEPT ![t] = r] /\ job[t].phase = "edges" /\ stale' = stale
          /\ edges' = {e} \cup {f \in edges : f.from # e.from \/ f.to # e.to}
      BY DEF AddEdge, Set, history, failed
    <2>2. e \in Edge /\ edges' \subseteq Edge
      BY <1>1, <2>1 DEF Job
    <2>3. /\ r \in Job /\ r.phase = "edges" /\ SameWork(r, job[t]) /\ r.todo = job[t].todo
          /\ r.scan = job[t].scan \ {e}
      BY <1>1, <2>1 DEF Job, SameWork
    <2> HIDE DEF r
    <2>4. Becomes(t, r)
      BY <1>3, <1>4, <2>1, <2>3 DEF Becomes
    <2>5. Rebuilt(job[t], r)
      BY <2>1, <2>3 DEF Rebuilt
    <2> QED BY <1>1, <1>2, <2>1, <2>2, <2>3, <2>4, <2>5
  <1>10. CASE BreakGraph(t)
    <2> DEFINE r == [job[t] EXCEPT !.phase = "edges", !.scan = {}]
    <2>1. job' = [job EXCEPT ![t] = r] /\ edges' = edges /\ stale' = TRUE
      BY <1>10 DEF BreakGraph, Set
    <2>2. job[t].todo = {} /\ job[t].index = {} /\ job[t].written # {}
      BY <1>4, <1>10 DEF BreakGraph, Indexed
    <2>3. r \in Job /\ r.phase = "edges" /\ SameWork(r, job[t]) /\ r.todo = job[t].todo
      BY <1>1 DEF Job, Phases, SameWork
    <2> HIDE DEF r
    <2>4. Becomes(t, r)
      BY <1>3, <2>1, <2>2, <2>3 DEF Becomes
    <2> QED BY <1>1, <1>2, <2>1, <2>3, <2>4 DEF Rebuilt
  <1> QED BY <1>5, <1>6, <1>7, <1>8, <1>9, <1>10 DEF Rebuilds

LEMMA RaiseBecomes ==
  ASSUME Typed, AllFormed, NEW t \in Threads, Raise(t)
  PROVE  /\ UNCHANGED <<disk, row, edges, unsure, overlap, snaps, bare>>
         /\ Abandon(t, {}) /\ Busy(t) /\ ~Indexing(job[t])
         /\ job[t].phase \in {"read", "edges", "list"}
         /\ job[t].phase = "edges" => job[t].scan = {}
         /\ job[t].phase \in {"read", "write"} => job[t].todo # {}
  <1>1. Formed(job[t])
    BY DEF AllFormed
  <1>2. job[t].phase = "read" => job[t].todo # {}
    BY <1>1 DEF Formed, Writing
  <1>3. /\ job[t].phase \in {"read", "edges", "list"} /\ job[t].phase # "write"
        /\ job[t].phase = "edges" => job[t].scan = {}
    BY DEF Raise
  <1>4. UNCHANGED <<disk, row, edges, unsure, overlap, snaps, bare>> /\ Abandon(t, {})
    BY DEF Raise, corpus, graph, meets
  <1> QED BY <1>2, <1>3, <1>4 DEF Busy, Indexing

LEMMA ReportBecomes ==
  ASSUME Typed, AllFormed, NEW t \in Threads, Report(t)
  PROVE  /\ UNCHANGED <<disk, row, edges, unsure, overlap, snaps, bare, stranded, stale>>
         /\ Becomes(t, IdleJob) /\ job[t].index = {}
         /\ ~Indexing(job[t]) /\ ~Writing(job[t]) /\ Busy(t)
         /\ job[t].phase = "report" \/ (job[t].phase = "next" /\ job[t].written = {})
  <1>1. Formed(job[t])
    BY DEF AllFormed
  <1> QED BY <1>1, Idles DEF Report, Set, Becomes, Formed, Indexed, corpus, graph, files, meets,
             failed, Indexing, Writing, Busy

-----------------------------------------------------------------------------
(* What keeps each part of the invariant                                   *)

LEMMA ApartKept ==
  ASSUME Typed, AllFormed, Apart, NEW t \in Threads, NEW r, Becomes(t, r),
         r.ds \subseteq job[t].ds, unsure \subseteq unsure'
  PROVE  Apart'
  <1>1. /\ PagesOf(t)' \subseteq PagesOf(t)
        /\ \A u \in Threads \ {t} : PagesOf(u)' = PagesOf(u)
    BY JobAfter DEF PagesOf
  <1>2. \A u \in Threads : PagesOf(u)' \subseteq PagesOf(u)
    BY <1>1
  <1>3. ASSUME NEW u \in Threads, NEW v \in Threads, u # v
        PROVE  (PagesOf(u) \cap PagesOf(v))' \subseteq unsure'
    BY <1>2, <1>3 DEF Apart
  <1> QED BY <1>3 DEF Apart

\* What stays saved.
SavedStays == \A p \in Pages : Saved(p) => disk[p] \in snaps'[p] \/ p \in bare'

\* A step that writes neither a page nor a row.
LEMMA PagesKept ==
  ASSUME Typed, AllFormed, PagesCurrent, NEW t \in Threads, NEW r, Becomes(t, r),
         UNCHANGED <<disk, row>>, unsure \subseteq unsure', stranded \subseteq stranded', SavedStays,
         r.written \subseteq job[t].written,
         \A p \in Pages \ unsure' :
            /\ p \in job[t].index \/ (Indexing(job[t]) /\ p \in job[t].cur) =>
                  p \in r.index \/ (Indexing(r) /\ p \in r.cur) \/ p \in stranded'
            /\ Indexing(r) /\ p \in r.cur => r.text = disk[p]
            /\ \A d \in r.cur : Writing(r) /\ d.page = p =>
                  IF Creates(d) THEN disk[p] = NoPage ELSE disk[p] \in snaps'[p] \/ p \in bare'
  PROVE  PagesCurrent'
  <1>1. job'[t] = r /\ \A u \in Threads \ {t} : job'[u] = job[u]
    BY JobAfter
  <1> SUFFICES ASSUME NEW p \in Pages \ unsure'
               PROVE  PageCurrent(p)'
    BY DEF PagesCurrent
  <1>2. PageCurrent(p)
    BY DEF PagesCurrent
  <1>a. Saved(p) => disk[p] \in snaps'[p] \/ p \in bare'
    BY DEF SavedStays
  <1>3. \/ p \in stranded'
        \/ row[p] = disk[p]
        \/ \E u \in Threads : p \in job'[u].index \/ (Indexing(job'[u]) /\ p \in job'[u].cur)
    BY <1>1, <1>2 DEF PageCurrent
  <1>4. ASSUME NEW u \in Threads
        PROVE  /\ p \in job'[u].written => disk[p] # NoPage
               /\ Indexing(job'[u]) /\ p \in job'[u].cur => job'[u].text = disk[p]
               /\ \A d \in job'[u].cur :
                     Writing(job'[u]) /\ d.page = p =>
                         IF Creates(d) THEN disk[p] = NoPage
                         ELSE disk[p] \in snaps'[p] \/ p \in bare'
    <2>1. CASE u = t
      BY <1>1, <1>2, <2>1 DEF PageCurrent
    <2>2. CASE u # t
      BY <1>1, <1>2, <1>a, <2>2 DEF PageCurrent
    <2> QED BY <2>1, <2>2
  <1> QED BY <1>3, <1>4 DEF PageCurrent, Saved, Indexing, Writing

\* A step that changes the page of one of its job's diffs.
LEMMA PageChanged ==
  ASSUME Typed, AllFormed, Apart, PagesCurrent, NEW t \in Threads, NEW r, Becomes(t, r),
         NEW d \in job[t].ds, NEW text \in SUBSET Blocks, disk' = [disk EXCEPT ![d.page] = text],
         UNCHANGED <<row, unsure, snaps, bare>>, stranded \subseteq stranded',
         r.written \subseteq job[t].written \cup {d.page},
         job[t].index \subseteq r.index \cup stranded', d.page \in r.index \cup stranded',
         ~Indexing(job[t]), ~Indexing(r), ~Writing(r)
  PROVE  PagesCurrent'
  <1>1. job'[t] = r /\ \A u \in Threads \ {t} : job'[u] = job[u]
    BY JobAfter
  <1>2. /\ d.page \in Pages /\ text # NoPage /\ disk'[d.page] = text
        /\ \A p \in Pages \ {d.page} : disk'[p] = disk[p]
    BY DiffTypes DEF Typed, Rows, Job
  <1> SUFFICES ASSUME NEW p \in Pages \ unsure
               PROVE  PageCurrent(p)'
    BY DEF PagesCurrent
  <1>3. PageCurrent(p)
    BY DEF PagesCurrent
  <1>4. CASE p # d.page
    <2>1. disk'[p] = disk[p]
      BY <1>2, <1>4
    <2>2. \/ p \in stranded'
          \/ row[p] = disk[p]
          \/ \E u \in Threads : p \in job'[u].index \/ (Indexing(job'[u]) /\ p \in job'[u].cur)
      BY <1>1, <1>3 DEF PageCurrent
    <2>3. ASSUME NEW u \in Threads
          PROVE  /\ p \in job'[u].written => disk[p] # NoPage
                 /\ Indexing(job'[u]) /\ p \in job'[u].cur => job'[u].text = disk[p]
                 /\ \A e \in job'[u].cur :
                       Writing(job'[u]) /\ e.page = p =>
                           IF Creates(e) THEN disk[p] = NoPage ELSE Saved(p)
      <3>1. CASE u = t
        BY <1>1, <1>3, <1>4, <3>1 DEF PageCurrent
      <3>2. CASE u # t
        BY <1>1, <1>3, <3>2 DEF PageCurrent
      <3> QED BY <3>1, <3>2
    <2> QED BY <2>1, <2>2, <2>3 DEF PageCurrent, Saved, Indexing, Writing
  <1>5. CASE p = d.page
    <2>1. ASSUME NEW u \in Threads, u # t
          PROVE  /\ p \notin job'[u].written
                 /\ ~(Indexing(job'[u]) /\ p \in job'[u].cur)
                 /\ \A e \in job'[u].cur : Writing(job'[u]) => e.page # p
      <3>1. p \in PagesOf(t) /\ p \notin PagesOf(u)
        BY <1>5, <2>1 DEF PagesOf, Apart
      <3>2. Formed(job[u]) /\ job'[u] = job[u]
        BY <1>1, <2>1 DEF AllFormed
      <3>3. p \notin job[u].written
        BY <3>1, <3>2 DEF Formed, PagesOf
      <3>4. ~(Indexing(job[u]) /\ p \in job[u].cur)
        BY <3>2, <3>3 DEF Formed
      <3>5. \A e \in job[u].cur : Writing(job[u]) => e \in job[u].ds
        BY <3>2 DEF Formed
      <3>6. \A e \in job[u].ds : e.page # p
        BY <3>1 DEF PagesOf
      <3> QED BY <3>2, <3>3, <3>4, <3>5, <3>6
    <2>2. ASSUME NEW u \in Threads
          PROVE  /\ p \in job'[u].written => disk'[p] # NoPage
                 /\ Indexing(job'[u]) /\ p \in job'[u].cur => job'[u].text = disk'[p]
                 /\ \A e \in job'[u].cur : ~(Writing(job'[u]) /\ e.page = p)
      BY <1>1, <1>2, <1>5, <2>1
    <2>3. p \in job'[t].index \/ p \in stranded'
      BY <1>1, <1>5
    <2> QED BY <2>2, <2>3 DEF PageCurrent, Indexing, Writing
  <1> QED BY <1>4, <1>5

\* A step of the only job leaves the graph as its new phase says.
LEMMA GraphKept ==
  ASSUME Typed, AllFormed, GraphCurrent, NEW t \in Threads, NEW r, Becomes(t, r),
         overlap' \in BOOLEAN, ~overlap' => ~overlap /\ (Busy(t) \/ Quiet),
         ~overlap' => /\ r.phase = "idle" => (stale \/ edges = DiskEdges)'
                      /\ r.phase \in {"next", "read", "write", "index"} /\ r.written = {} =>
                            (stale \/ edges = DiskEdges)'
                      /\ r.phase = "clear" => r.scan = DiskEdges'
                      /\ r.phase = "edges" => stale' \/ edges' \cup r.scan = DiskEdges'
                      /\ r.phase \in {"list", "report"} => (stale \/ edges = DiskEdges)'
  PROVE  GraphCurrent'
  <1>1. job'[t] = r /\ \A u \in Threads \ {t} : job'[u] = job[u]
    BY JobAfter
  <1> SUFFICES ASSUME ~overlap'
               PROVE  /\ \A u, v \in Threads : Busy(u)' /\ Busy(v)' => u = v
                      /\ \A u \in Threads : GraphOf(job[u])'
                      /\ Quiet' => (stale \/ edges = DiskEdges)'
    BY DEF GraphCurrent
  <1>2. \A u \in Threads \ {t} : job[u].phase = "idle" /\ job'[u].phase = "idle"
    BY <1>1 DEF GraphCurrent, Quiet, Busy
  <1>3. \A u \in Threads \ {t} : ~Busy(u)' /\ GraphOf(job[u])'
    BY <1>2 DEF Busy, GraphOf
  <1>4. GraphOf(job[t])'
    BY <1>1 DEF GraphOf
  <1>5. Quiet' => (stale \/ edges = DiskEdges)'
    BY <1>1 DEF Quiet, Busy
  <1> QED BY <1>3, <1>4, <1>5

\* The links of pages that stay as they are stay as they are.
LEMMA SameLinks == UNCHANGED disk => UNCHANGED <<OnDisk, DiskEdges>>
  BY DEF OnDisk, DiskEdges

LEMMA SameCorpus ==
  UNCHANGED <<row, entry, query>> /\ CacheCurrent /\ RowsCurrent => CacheCurrent' /\ RowsCurrent'
  BY DEF CacheCurrent, RowsCurrent

-----------------------------------------------------------------------------
(* One step at a time                                                      *)

LEMMA StartInv ==
  ASSUME Inv, UNCHANGED scope, NEW t \in Threads, NEW auto \in BOOLEAN, NEW ds \in SUBSET Diffs,
         Start(t, auto, ds), ~auto => \A d, e \in ds : d = e
  PROVE  Inv'
  <1> USE DEF Inv
  <1>1. PICK r : /\ Becomes(t, r) /\ r.phase = "next" /\ r.ds = ds
                 /\ r.written = {} /\ r.index = {} /\ r.cur = {}
    BY StartBecomes
  <1>2. /\ job' \in [Threads -> Job] /\ job'[t] = r /\ AllFormed'
        /\ PagesOf(t)' = {d.page : d \in ds}
        /\ \A u \in Threads \ {t} : PagesOf(u)' = PagesOf(u)
    BY <1>1, JobAfter
  <1>3. /\ UNCHANGED <<disk, snaps, listing, row, entry, nodes, edges, linked, status, landed, batched,
                       hands, faults, stranded, stale, bare, query>>
        /\ unsure' = unsure \cup ({d.page : d \in ds} \cap UNION {PagesOf(u) : u \in Threads})
        /\ overlap' = (overlap \/ ~Quiet) /\ ~Busy(t)
    BY DEF Start, files, corpus, graph, counts, failed
  <1>4. job[t].phase = "idle" /\ job[t].ds = {} /\ job[t].written = {} /\ job[t].index = {}
    BY <1>3 DEF Busy, AllFormed, Formed
  <1>5. Typed'
    <2>1. unsure' \subseteq Pages /\ overlap' \in BOOLEAN
      BY <1>3, DiffTypes DEF Typed
    <2> QED BY <1>2, <1>3, <2>1 DEF Typed
  <1>6. Apart'
    <2>1. \A u \in Threads \ {t} : PagesOf(u) \cap {d.page : d \in ds} \subseteq unsure'
      BY <1>3
    <2>2. \A u, v \in Threads : u # v => PagesOf(u)' \cap PagesOf(v)' \subseteq unsure'
      BY <1>2, <1>3, <2>1 DEF Apart
    <2> QED BY <2>2 DEF Apart
  <1>7. PagesCurrent'
    <2>1. /\ UNCHANGED <<disk, row>> /\ unsure \subseteq unsure' /\ r.written \subseteq job[t].written
          /\ ~Indexing(job[t]) /\ ~Indexing(r) /\ SavedStays /\ stranded \subseteq stranded'
      BY <1>1, <1>3, <1>4 DEF Indexing, SavedStays, Saved
    <2> QED BY <1>1, <1>4, <2>1, PagesKept
  <1>8. GraphCurrent'
    <2>1. Quiet /\ ~overlap => stale \/ edges = DiskEdges
      BY DEF GraphCurrent
    <2>2. DiskEdges' = DiskEdges
      BY <1>3, SameLinks
    <2>3. overlap' \in BOOLEAN
      BY <1>3 DEF Typed
    <2> QED BY <1>1, <1>3, <2>1, <2>2, <2>3, GraphKept
  <1> QED BY <1>2, <1>3, <1>5, <1>6, <1>7, <1>8, SameCorpus

LEMMA BeginInv ==
  ASSUME Inv, UNCHANGED scope, NEW t \in Threads, NEW d \in Diffs, Begin(t, d)
  PROVE  Inv'
  <1> USE DEF Inv
  <1>1. /\ UNCHANGED <<disk, row, edges, unsure, overlap, stranded, stale>> /\ job[t].phase = "next"
        /\ UNCHANGED <<snaps, bare, faults>> \/ (disk[d.page] # NoPage /\ Snapshot(d))
    BY BeginBecomes
  <1>2. PICK r : /\ Becomes(t, r)
                 /\ \/ r = IdleJob /\ job[t].written = {}
                    \/ r.phase = "next" /\ r.cur = {} /\ SameWork(r, job[t])
                    \/ /\ Writing(r) /\ r.cur = {d} /\ SameWork(r, job[t])
                       /\ IF Creates(d) THEN disk[d.page] = NoPage
                          ELSE Snapshot(d) /\ disk[d.page] # NoPage
    BY BeginBecomes
  <1>3. job' \in [Threads -> Job] /\ job'[t] = r /\ AllFormed'
    BY <1>2, JobAfter
  <1>4. UNCHANGED <<listing, entry, nodes, linked, status, landed, batched, hands, query>>
    BY DEF Begin, corpus, graph
  <1>5. /\ d.page \in Pages /\ snaps \in [Pages -> SUBSET SUBSET Blocks] /\ bare \subseteq Pages
        /\ scope.faults \in Nat /\ faults \in 0 .. scope.faults
    BY DiffTypes, ScopesAssumption DEF Typed
  <1>6. /\ snaps' \in [Pages -> SUBSET SUBSET Blocks] /\ bare' \subseteq Pages
        /\ faults' \in 0 .. scope.faults /\ SavedStays
        /\ disk[d.page] # NoPage /\ Snapshot(d) => disk[d.page] \in snaps'[d.page] \/ d.page \in bare'
    <2>1. CASE UNCHANGED <<snaps, bare, faults>> /\ ~(disk[d.page] # NoPage /\ Snapshot(d))
      BY <1>5, <2>1 DEF SavedStays, Saved
    <2>2. CASE disk[d.page] # NoPage /\ Snapshot(d)
      <3>1. disk[d.page] \in SUBSET Blocks
        BY <1>5, <2>2, DiffTypes DEF Typed, Rows
      <3>2. CASE /\ snaps' = [snaps EXCEPT ![d.page] = @ \cup {disk[d.page]}]
                 /\ bare' = bare \ {d.page} /\ NoFault
        <4>1. /\ snaps' \in [Pages -> SUBSET SUBSET Blocks] /\ disk[d.page] \in snaps'[d.page]
              /\ \A p \in Pages : snaps[p] \subseteq snaps'[p]
              /\ \A p \in Pages \ {d.page} : p \in bare => p \in bare'
          BY <1>5, <3>1, <3>2
        <4> QED BY <1>5, <3>2, <4>1 DEF NoFault, SavedStays, Saved
      <3>3. CASE Fault /\ bare' = bare \cup {d.page} /\ UNCHANGED snaps
        BY <1>5, <3>3 DEF Fault, SavedStays, Saved
      <3> QED BY <2>2, <3>2, <3>3 DEF Snapshot
    <2> QED BY <1>1, <2>1, <2>2
  <1>7. Typed'
    BY <1>1, <1>3, <1>4, <1>6 DEF Typed
  <1>8. r.ds \subseteq job[t].ds /\ r.written \subseteq job[t].written /\ r.index \subseteq job[t].index
    BY <1>2, Idles DEF SameWork
  <1>9. Apart'
    BY <1>1, <1>2, <1>8, ApartKept
  <1>10. PagesCurrent'
    <2>1. ~Indexing(job[t]) /\ ~Indexing(r) /\ (r = IdleJob => job[t].index = {})
      BY <1>1, <1>2, Idles DEF Indexing, Writing, AllFormed, Formed
    <2>2. job[t].index = r.index
      BY <1>2, <2>1, Idles DEF SameWork
    <2>3. ASSUME NEW e \in r.cur, Writing(r)
          PROVE  IF Creates(e) THEN disk[e.page] = NoPage
                 ELSE disk[e.page] \in snaps'[e.page] \/ e.page \in bare'
      <3>1. e = d /\ IF Creates(d) THEN disk[d.page] = NoPage
                     ELSE Snapshot(d) /\ disk[d.page] # NoPage
        BY <1>2, <2>3, Idles DEF Writing
      <3>2. CASE Creates(d)
        BY <3>1, <3>2
      <3>3. CASE ~Creates(d)
        BY <1>6, <3>1, <3>3
      <3> QED BY <3>2, <3>3
    <2> QED BY <1>1, <1>2, <1>6, <1>8, <2>1, <2>2, <2>3, PagesKept
  <1>11. GraphCurrent'
    <2>1. Busy(t) /\ (~overlap => GraphOf(job[t]))
      BY <1>1 DEF GraphCurrent, Busy
    <2>2. DiskEdges' = DiskEdges
      BY <1>1, SameLinks
    <2>3. r.phase \in {"idle", "next", "read", "write"} /\ (r.written = {} => job[t].written = {})
             /\ (r.phase = "idle" => job[t].written = {})
      BY <1>2, Idles DEF Writing, SameWork
    <2>4. overlap' \in BOOLEAN
      BY <1>1 DEF Typed
    <2>5. ~overlap /\ job[t].written = {} => stale \/ edges = DiskEdges
      BY <1>1, <2>1 DEF GraphOf
    <2> QED BY <1>1, <1>2, <2>1, <2>2, <2>3, <2>4, <2>5, GraphKept
  <1> QED BY <1>1, <1>3, <1>4, <1>7, <1>9, <1>10, <1>11, SameCorpus

\* A run that ends in an exception has stranded what it wrote.
LEMMA AbandonInv ==
  ASSUME Inv, UNCHANGED scope, NEW t \in Threads, Abandon(t, {}), Busy(t), ~Indexing(job[t]),
         job[t].phase \in {"read", "edges", "list"},
         job[t].phase = "edges" => job[t].scan = {},
         job[t].phase \in {"read", "write"} => job[t].todo # {},
         UNCHANGED <<disk, snaps, row, entry, nodes, edges, linked, status, landed, batched, hands,
                     unsure, overlap, bare, query>>,
         listing' \subseteq Pages, faults' \in 0 .. scope.faults
  PROVE  Inv'
  <1> USE DEF Inv
  <1>1. /\ Becomes(t, IdleJob) /\ stranded' \subseteq Pages /\ stale' \in BOOLEAN
        /\ stranded \subseteq stranded' /\ job[t].index \subseteq stranded'
        /\ (stale => stale') /\ (job[t].phase = "read" /\ job[t].written # {} => stale')
    BY AbandonBecomes
  <1>2. job' \in [Threads -> Job] /\ job'[t] = IdleJob /\ AllFormed'
    BY <1>1, JobAfter
  <1>3. Typed'
    BY <1>1, <1>2 DEF Typed
  <1>4. Apart'
    BY <1>1, ApartKept, Idles
  <1>5. PagesCurrent'
    <2>1. ~Indexing(IdleJob) /\ ~Writing(IdleJob) /\ SavedStays /\ IdleJob.written \subseteq job[t].written
      BY Idles DEF Indexing, Writing, SavedStays, Saved
    <2> QED BY <1>1, <2>1, PagesKept
  <1>6. GraphCurrent'
    <2>1. ~overlap => GraphOf(job[t])
      BY DEF GraphCurrent
    <2>2. DiskEdges' = DiskEdges
      BY SameLinks
    <2>3. overlap' \in BOOLEAN
      BY DEF Typed
    <2>4. ~overlap => stale' \/ edges = DiskEdges
      <3>1. CASE job[t].phase = "read"
        BY <1>1, <2>1, <3>1 DEF GraphOf
      <3>2. CASE job[t].phase = "edges" /\ job[t].scan = {}
        BY <1>1, <2>1, <3>2 DEF GraphOf
      <3>3. CASE job[t].phase = "list"
        BY <1>1, <2>1, <3>3 DEF GraphOf
      <3> QED BY <3>1, <3>2, <3>3
    <2> QED BY <1>1, <2>2, <2>3, <2>4, Idles, GraphKept
  <1> QED BY <1>2, <1>3, <1>4, <1>5, <1>6, SameCorpus

LEMMA RaiseInv ==
  ASSUME Inv, UNCHANGED scope, NEW t \in Threads, Raise(t)
  PROVE  Inv'
  <1>1. /\ UNCHANGED <<disk, row, edges, unsure, overlap, snaps, bare>>
        /\ Abandon(t, {}) /\ Busy(t) /\ ~Indexing(job[t])
        /\ job[t].phase \in {"read", "edges", "list"}
        /\ job[t].phase = "edges" => job[t].scan = {}
        /\ job[t].phase \in {"read", "write"} => job[t].todo # {}
    BY RaiseBecomes DEF Inv
  <1>2. UNCHANGED <<entry, nodes, linked, status, landed, batched, hands, query>>
    BY DEF Raise, corpus, graph
  <1>3. listing' \subseteq Pages /\ faults' \in 0 .. scope.faults
    BY ScopesAssumption DEF Raise, Inv, Typed, Fault
  <1> QED BY <1>1, <1>2, <1>3, AbandonInv

LEMMA ReadInv ==
  ASSUME Inv, UNCHANGED scope, NEW t \in Threads, NEW d \in Diffs, ReadPage(t, d)
  PROVE  Inv'
  <1>1. /\ UNCHANGED <<disk, row, edges, unsure, overlap, snaps, bare>>
        /\ job[t].phase = "read" /\ job[t].cur = {d}
    BY ReadBecomes DEF Inv
  <1>2. UNCHANGED <<listing, entry, nodes, linked, status, landed, batched, hands, faults, query>>
    BY DEF ReadPage, corpus, graph, files, counts
  <1>3. CASE Abandon(t, {}) /\ job[t].todo # {}
    <2>1. listing' \subseteq Pages /\ faults' \in 0 .. scope.faults
      BY <1>2 DEF Inv, Typed
    <2>2. Busy(t) /\ ~Indexing(job[t])
      BY <1>1 DEF Busy, Indexing
    <2> QED BY <1>1, <1>2, <1>3, <2>1, <2>2, AbandonInv
  <1>4. ASSUME UNCHANGED <<stranded, stale>>, NEW r, Becomes(t, r),
               \/ r = IdleJob /\ job[t].written = {}
               \/ r.phase = "next" /\ r.cur = {} /\ SameWork(r, job[t])
               \/ r.phase = "write" /\ r.cur = {d} /\ SameWork(r, job[t])
        PROVE  Inv'
    <2> USE <1>4 DEF Inv
    <2>1. job' \in [Threads -> Job] /\ job'[t] = r /\ AllFormed'
      BY JobAfter
    <2>2. Typed'
      BY <1>1, <1>2, <2>1 DEF Typed
    <2>3. r.ds \subseteq job[t].ds /\ r.written \subseteq job[t].written
      BY Idles DEF SameWork
    <2>4. Apart'
      BY <1>1, <2>3, ApartKept
    <2>5. PagesCurrent'
      <3>1. ~Indexing(job[t]) /\ ~Indexing(r) /\ SavedStays /\ job[t].index \subseteq r.index
        BY <1>1, Idles DEF Indexing, SavedStays, Saved, SameWork, AllFormed, Formed
      <3>2. ASSUME NEW p \in Pages \ unsure, NEW e \in r.cur, Writing(r), e.page = p
            PROVE  IF Creates(e) THEN disk[p] = NoPage ELSE Saved(p)
        <4>1. e \in job[t].cur /\ Writing(job[t]) /\ PageCurrent(p)
          BY <1>1, <3>2, Idles DEF Writing, PagesCurrent
        <4> QED BY <3>2, <4>1 DEF PageCurrent
      <3> QED BY <1>1, <2>3, <3>1, <3>2, PagesKept DEF Saved
    <2>6. GraphCurrent'
      <3>1. Busy(t) /\ (~overlap => GraphOf(job[t]))
        BY <1>1 DEF GraphCurrent, Busy
      <3>2. DiskEdges' = DiskEdges
        BY <1>1, SameLinks
      <3>3. /\ r.phase \in {"idle", "next", "read", "write"}
            /\ r.phase = "idle" \/ r.written = {} => job[t].written = {}
        BY Idles DEF SameWork
      <3>4. overlap' \in BOOLEAN
        BY <1>1 DEF Typed
      <3>5. ~overlap /\ job[t].written = {} => stale \/ edges = DiskEdges
        BY <1>1, <3>1 DEF GraphOf
      <3> QED BY <1>1, <3>1, <3>2, <3>3, <3>4, <3>5, GraphKept
    <2> QED BY <1>1, <1>2, <2>1, <2>2, <2>4, <2>5, <2>6, SameCorpus
  <1> QED BY <1>3, <1>4, ReadBecomes DEF Inv

LEMMA FailInv ==
  ASSUME Inv, UNCHANGED scope, NEW t \in Threads, NEW d \in Diffs, FailWrite(t, d)
  PROVE  Inv'
  <1> USE DEF Inv
  <1>1. /\ UNCHANGED <<row, edges, unsure, overlap, snaps, bare>>
        /\ job[t].phase = "write" /\ job[t].cur = {d} /\ d \in job[t].ds
        /\ stranded' \subseteq Pages /\ stale' \in BOOLEAN /\ stranded \subseteq stranded'
        /\ stale => stale'
        /\ \/ disk' = disk
           \/ disk' = [disk EXCEPT ![d.page] = {}] /\ d.page \in stranded' /\ stale'
    BY FailBecomes
  <1>2. PICK r : /\ Becomes(t, r) /\ r.phase \in {"idle", "next"} /\ r.cur = {}
                 /\ \/ /\ r = IdleJob /\ job[t].index \subseteq stranded'
                       /\ job[t].written # {} => stale'
                    \/ SameWork(r, job[t]) /\ r.phase = "next"
    BY FailBecomes
  <1>3. job' \in [Threads -> Job] /\ job'[t] = r /\ AllFormed'
    BY <1>2, JobAfter
  <1>4. UNCHANGED <<listing, entry, nodes, linked, status, landed, batched, hands, query>>
    BY DEF FailWrite, corpus, graph
  <1>5. faults' \in 0 .. scope.faults
    BY ScopesAssumption DEF FailWrite, Typed, Fault
  <1>6. disk' \in Rows
    BY <1>1, DiffTypes DEF Typed, Rows
  <1>7. Typed'
    BY <1>1, <1>3, <1>4, <1>5, <1>6 DEF Typed
  <1>8. r.ds \subseteq job[t].ds /\ r.written \subseteq job[t].written /\ job[t].index \subseteq r.index \cup stranded'
    <2>1. CASE r = IdleJob /\ job[t].index \subseteq stranded'
      BY <2>1, Idles
    <2>2. CASE SameWork(r, job[t])
      BY <2>2 DEF SameWork
    <2> QED BY <1>2, <2>1, <2>2
  <1>9. Apart'
    BY <1>1, <1>2, <1>8, ApartKept
  <1>10. ~Indexing(job[t]) /\ ~Indexing(r) /\ ~Writing(r) /\ Busy(t)
    BY <1>1, <1>2 DEF Indexing, Writing, Busy
  <1>11. PagesCurrent'
    <2>1. CASE disk' = disk
      <3>1. SavedStays
        BY <1>1 DEF SavedStays, Saved
      <3> QED BY <1>1, <1>2, <1>8, <1>10, <2>1, <3>1, PagesKept
    <2>2. CASE disk' = [disk EXCEPT ![d.page] = {}] /\ d.page \in stranded'
      BY <1>1, <1>2, <1>8, <1>10, <2>2, PageChanged
    <2> QED BY <1>1, <2>1, <2>2
  <1>12. GraphCurrent'
    <2>1. ~overlap => GraphOf(job[t])
      BY DEF GraphCurrent
    <2>2. ~overlap /\ (r.phase = "idle" \/ r.written = {}) => stale' \/ edges = DiskEdges'
      <3>1. CASE stale'
        BY <3>1
      <3>2. CASE ~stale'
        <4>1. disk' = disk /\ DiskEdges' = DiskEdges /\ ~stale
          BY <1>1, <3>2, SameLinks
        <4>2. r.phase = "idle" \/ r.written = {} => job[t].written = {}
          BY <1>2, <3>2 DEF SameWork
        <4> QED BY <1>1, <2>1, <4>1, <4>2 DEF GraphOf
      <3> QED BY <3>1, <3>2
    <2>3. overlap' \in BOOLEAN
      BY <1>1 DEF Typed
    <2> QED BY <1>1, <1>2, <1>10, <2>2, <2>3, GraphKept
  <1> QED BY <1>1, <1>3, <1>4, <1>7, <1>9, <1>11, <1>12, SameCorpus

LEMMA WriteInv ==
  ASSUME Inv, UNCHANGED scope, NEW t \in Threads, NEW d \in Diffs, WritePage(t, d)
  PROVE  Inv'
  <1> USE DEF Inv
  <1>1. /\ UNCHANGED <<row, edges, unsure, overlap, snaps, bare, stranded, stale>>
        /\ job[t].phase = "write" /\ job[t].cur = {d} /\ d \in job[t].ds
    BY WriteBecomes
  <1>2. PICK r : /\ Becomes(t, r) /\ r.phase = "next" /\ r.cur = {} /\ r.ds = job[t].ds
                 /\ r.written = job[t].written \cup {d.page}
                 /\ r.index = job[t].index \cup {d.page}
    BY WriteBecomes
  <1>3. PICK text \in SUBSET Blocks : disk' = [disk EXCEPT ![d.page] = text]
    BY WriteBecomes
  <1>4. job' \in [Threads -> Job] /\ job'[t] = r /\ AllFormed'
           /\ \A u \in Threads \ {t} : job'[u] = job[u]
    BY <1>2, JobAfter
  <1>5. /\ UNCHANGED <<listing, entry, nodes, linked, status, batched, hands, faults, query>>
        /\ landed' = landed \cup {d}
    BY DEF WritePage, corpus, graph
  <1>6. disk' \in Rows
    BY <1>3, DiffTypes DEF Typed, Rows
  <1>7. Typed'
    BY <1>1, <1>4, <1>5, <1>6 DEF Typed
  <1>8. Apart'
    BY <1>1, <1>2, ApartKept
  <1>9. PagesCurrent'
    <2>1. ~Indexing(job[t]) /\ ~Indexing(r) /\ ~Writing(r)
      BY <1>1, <1>2 DEF Indexing, Writing
    <2> QED BY <1>1, <1>2, <1>3, <2>1, PageChanged
  <1>10. GraphCurrent'
    <2>1. Busy(t) /\ r.written # {}
      BY <1>1, <1>2 DEF Busy
    <2>2. overlap' \in BOOLEAN
      BY <1>1 DEF Typed
    <2> QED BY <1>1, <1>2, <2>1, <2>2, GraphKept
  <1> QED BY <1>1, <1>4, <1>5, <1>7, <1>8, <1>9, <1>10, SameCorpus

LEMMA ReadForIndexInv ==
  ASSUME Inv, UNCHANGED scope, NEW t \in Threads, NEW p \in Pages, ReadForIndex(t, p)
  PROVE  Inv'
  <1> USE DEF Inv
  <1>1. /\ UNCHANGED <<disk, row, edges, unsure, overlap, snaps, bare, stranded, stale>>
        /\ job[t].phase = "next" /\ p \in job[t].index
    BY ReadForIndexBecomes
  <1>2. PICK r : /\ Becomes(t, r) /\ r.cur = {p} /\ r.text = disk[p]
                 /\ r.phase = IF disk[p] # NoPage THEN "index" ELSE "next"
                 /\ r.ds = job[t].ds /\ r.written = job[t].written
                 /\ r.index = job[t].index \ {p}
    BY ReadForIndexBecomes
  <1>3. job' \in [Threads -> Job] /\ job'[t] = r /\ AllFormed'
    BY <1>2, JobAfter
  <1>4. UNCHANGED <<listing, entry, nodes, linked, status, landed, batched, hands, faults, query>>
    BY DEF ReadForIndex, corpus, graph, files, history, counts
  <1>5. Typed'
    BY <1>1, <1>3, <1>4 DEF Typed
  <1>6. Apart'
    BY <1>1, <1>2, ApartKept
  <1>7. p \in job[t].written
    BY <1>1 DEF AllFormed, Formed
  <1>8. PagesCurrent'
    <2>1. ~Indexing(job[t]) /\ ~Writing(r) /\ SavedStays
      BY <1>1, <1>2 DEF Indexing, Writing, SavedStays, Saved
    <2>2. ASSUME NEW q \in Pages \ unsure', q \in job[t].index
          PROVE  q \in r.index \/ (Indexing(r) /\ q \in r.cur)
      <3>1. CASE q # p
        BY <1>2, <2>2, <3>1
      <3>2. CASE q = p
        <4>1. disk[p] # NoPage
          BY <1>1, <1>7, <2>2, <3>2 DEF PagesCurrent, PageCurrent
        <4> QED BY <1>2, <3>2, <4>1 DEF Indexing
      <3> QED BY <3>1, <3>2
    <2>3. \A q \in Pages : q \in r.cur => r.text = disk[q]
      BY <1>2
    <2> QED BY <1>1, <1>2, <2>1, <2>2, <2>3, PagesKept
  <1>9. GraphCurrent'
    <2>1. Busy(t) /\ r.written # {} /\ r.phase \in {"index", "next"}
      BY <1>1, <1>2, <1>7 DEF Busy
    <2>2. overlap' \in BOOLEAN
      BY <1>1 DEF Typed
    <2> QED BY <1>1, <1>2, <2>1, <2>2, GraphKept
  <1> QED BY <1>1, <1>3, <1>4, <1>5, <1>6, <1>8, <1>9, SameCorpus

LEMMA StoreRowInv ==
  ASSUME Inv, UNCHANGED scope, NEW t \in Threads, NEW p \in Pages, StoreRow(t, p)
  PROVE  Inv'
  <1> USE DEF Inv
  <1>1. /\ UNCHANGED <<disk, edges, unsure, overlap, snaps, bare, stale>>
        /\ row' = [row EXCEPT ![p] = job[t].text] /\ Indexing(job[t]) /\ job[t].cur = {p}
        /\ job[t].text \in Texts /\ job[t].written # {} /\ stranded' = stranded \ {p}
    BY IndexBecomes DEF StoreRow
  <1>2. PICK r : Becomes(t, r) /\ r.cur = {} /\ r.phase = "next" /\ SameWork(r, job[t])
    BY IndexBecomes
  <1>3. job' \in [Threads -> Job] /\ job'[t] = r /\ AllFormed'
           /\ \A u \in Threads \ {t} : job'[u] = job[u]
    BY <1>2, JobAfter
  <1>4. /\ UNCHANGED <<listing, nodes, linked, status, landed, batched, hands, faults>>
        /\ IF row[p] = job[t].text THEN UNCHANGED <<entry, query>> ELSE InvalidateCache
    BY DEF StoreRow, graph, files, counts
  <1>5. row \in Rows /\ row' \in Rows /\ row'[p] = job[t].text
           /\ \A q \in Pages \ {p} : row'[q] = row[q]
    BY <1>1 DEF Typed, Rows
  <1>6. /\ entry' \in [valid : BOOLEAN, rows : Rows, raced : BOOLEAN]
        /\ query' \in [Queries -> Read] /\ CacheCurrent' /\ RowsCurrent'
    <2>1. CASE row[p] = job[t].text
      <3>1. row' = row /\ UNCHANGED <<entry, query>>
        BY <1>1, <1>4, <1>5, <2>1 DEF Rows
      <3> QED BY <3>1, SameCorpus DEF Typed
    <2>2. CASE row[p] # job[t].text
      <3>1. InvalidateCache
        BY <1>4, <2>2
      <3>2. /\ entry' \in [valid : BOOLEAN, rows : Rows, raced : BOOLEAN] /\ ~entry'.valid
        BY <3>1 DEF InvalidateCache, Typed
      <3>3. ASSUME NEW q \in Queries
            PROVE  /\ query'[q] \in Read
                   /\ query'[q].loaded => query'[q].raced
        <4>1. query[q] \in Read /\ query'[q] = [query[q] EXCEPT !.raced = query[q].loaded]
          BY <3>1 DEF InvalidateCache, Typed
        <4> QED BY <4>1 DEF Read
      <3>4. query' \in [Queries -> Read]
        BY <3>1, <3>3 DEF InvalidateCache
      <3> QED BY <3>2, <3>3, <3>4 DEF CacheCurrent, RowsCurrent
    <2> QED BY <2>1, <2>2
  <1>7. Typed'
    BY <1>1, <1>3, <1>4, <1>5, <1>6 DEF Typed
  <1>8. Apart'
    BY <1>1, <1>2, ApartKept DEF SameWork
  <1>9. PagesCurrent'
    <2> SUFFICES ASSUME NEW q \in Pages \ unsure
                 PROVE  PageCurrent(q)'
      BY <1>1 DEF PagesCurrent
    <2>1. PageCurrent(q)
      BY DEF PagesCurrent
    <2>2. ~Indexing(r) /\ ~Writing(r) /\ r.written = job[t].written /\ r.index = job[t].index
      BY <1>2 DEF Indexing, Writing, SameWork
    <2> HIDE DEF Inv
    <2>3. \/ q \in stranded'
          \/ row'[q] = disk[q]
          \/ \E u \in Threads : q \in job'[u].index \/ (Indexing(job'[u]) /\ q \in job'[u].cur)
      <3>1. CASE q = p
        BY <1>1, <1>5, <2>1, <3>1 DEF PageCurrent
      <3>2. CASE q # p
        BY <1>1, <1>3, <1>5, <2>1, <2>2, <3>2 DEF PageCurrent
      <3> QED BY <3>1, <3>2
    <2>4. ASSUME NEW u \in Threads
          PROVE  /\ q \in job'[u].written => disk[q] # NoPage
                 /\ Indexing(job'[u]) /\ q \in job'[u].cur => job'[u].text = disk[q]
                 /\ \A e \in job'[u].cur :
                       Writing(job'[u]) /\ e.page = q =>
                           IF Creates(e) THEN disk[q] = NoPage ELSE Saved(q)
      <3>1. CASE u = t
        BY <1>3, <2>1, <2>2, <3>1 DEF PageCurrent
      <3>2. CASE u # t
        BY <1>3, <2>1, <3>2 DEF PageCurrent
      <3> QED BY <3>1, <3>2
    <2> QED BY <1>1, <2>3, <2>4 DEF PageCurrent, Saved, Indexing, Writing
  <1>10. GraphCurrent'
    <2>1. Busy(t) /\ r.written # {}
      BY <1>1, <1>2 DEF Busy, SameWork, Indexing
    <2>2. overlap' \in BOOLEAN
      BY <1>1 DEF Typed
    <2> QED BY <1>1, <1>2, <2>1, <2>2, GraphKept
  <1> QED BY <1>3, <1>6, <1>7, <1>8, <1>9, <1>10

LEMMA MissRowInv ==
  ASSUME Inv, UNCHANGED scope, NEW t \in Threads, NEW p \in Pages, MissRow(t, p)
  PROVE  Inv'
  <1> USE DEF Inv
  <1>1. /\ UNCHANGED <<disk, edges, unsure, overlap, snaps, bare, stale>>
        /\ Indexing(job[t]) /\ job[t].cur = {p} /\ job[t].written # {}
    BY IndexBecomes
  <1>2. PICK r : Becomes(t, r) /\ r.cur = {} /\ r.phase = "next" /\ SameWork(r, job[t])
    BY IndexBecomes
  <1>3. job' \in [Threads -> Job] /\ job'[t] = r /\ AllFormed'
    BY <1>2, JobAfter
  <1>4. /\ UNCHANGED <<listing, row, entry, nodes, linked, status, landed, batched, hands, query>>
        /\ stranded' = stranded \cup {p}
    BY DEF MissRow, graph, files, corpus
  <1>5. faults' \in 0 .. scope.faults
    BY ScopesAssumption DEF MissRow, Typed, Fault
  <1>6. Typed'
    BY <1>1, <1>3, <1>4, <1>5 DEF Typed
  <1>7. Apart'
    BY <1>1, <1>2, ApartKept DEF SameWork
  <1>8. PagesCurrent'
    <2>1. /\ ~Indexing(r) /\ ~Writing(r) /\ SavedStays
          /\ r.index = job[t].index /\ r.written = job[t].written
      BY <1>1, <1>2 DEF Indexing, Writing, SavedStays, Saved, SameWork
    <2> QED BY <1>1, <1>2, <1>4, <2>1, PagesKept
  <1>9. GraphCurrent'
    <2>1. Busy(t) /\ r.written # {}
      BY <1>1, <1>2 DEF Busy, SameWork, Indexing
    <2>2. overlap' \in BOOLEAN
      BY <1>1 DEF Typed
    <2> QED BY <1>1, <1>2, <2>1, <2>2, GraphKept
  <1> QED BY <1>3, <1>4, <1>6, <1>7, <1>8, <1>9, SameCorpus

LEMMA RebuildInv ==
  ASSUME Inv, UNCHANGED scope, NEW t \in Threads, Rebuilds(t)
  PROVE  Inv'
  <1> USE DEF Inv
  <1>1. /\ UNCHANGED <<disk, row, unsure, overlap, snaps, bare, stranded>>
        /\ edges' \subseteq Edge /\ stale' \in BOOLEAN
    BY RebuildBecomes
  <1>2. PICK r : /\ Becomes(t, r) /\ SameWork(r, job[t]) /\ Busy(t) /\ ~Indexing(job[t])
                 /\ r.phase \in {"clear", "edges", "list", "report"}
                 /\ Rebuilt(job[t], r)
    BY RebuildBecomes
  <1>3. job' \in [Threads -> Job] /\ job'[t] = r /\ AllFormed'
    BY <1>2, JobAfter
  <1>4. /\ UNCHANGED <<row, entry, status, landed, batched, hands, query>>
        /\ listing' \subseteq Pages /\ nodes' \subseteq Pages /\ linked' \subseteq Episodes \X Pages
        /\ faults' \in 0 .. scope.faults
    <2>1. /\ job[t].stems \subseteq Pages /\ OnDisk \subseteq Pages /\ listing \subseteq Pages
          /\ nodes \subseteq Pages /\ linked \subseteq Episodes \X Pages
          /\ scope.faults \in Nat /\ faults \in 0 .. scope.faults
      BY EdgeTypes, ScopesAssumption DEF Typed, Job
    <2>2. CASE ScanGraph(t)
      BY <2>1, <2>2 DEF ScanGraph, corpus, files, history, counts
    <2>3. CASE ClearEdges(t)
      BY <2>1, <2>3 DEF ClearEdges, corpus, files, counts
    <2>4. CASE BreakGraph(t)
      BY <2>1, <2>4 DEF BreakGraph, corpus, files, Fault
    <2>5. CASE ListPages(t)
      BY <2>1, <2>5 DEF ListPages, corpus, files, graph, history, counts
    <2>6. CASE WriteListing(t)
      BY <2>1, <2>6 DEF WriteListing, corpus, graph, history, counts
    <2>7. ASSUME NEW e, AddEdge(t, e)
          PROVE  /\ UNCHANGED <<row, entry, status, landed, batched, hands, query>>
                 /\ UNCHANGED <<listing, nodes, linked, faults>>
      BY <2>7 DEF AddEdge, corpus, files, history, counts
    <2> QED BY <2>1, <2>2, <2>3, <2>4, <2>5, <2>6, <2>7 DEF Rebuilds
  <1>5. Typed'
    BY <1>1, <1>3, <1>4 DEF Typed
  <1>6. Apart'
    BY <1>1, <1>2, ApartKept DEF SameWork
  <1>7. PagesCurrent'
    <2>1. ~Indexing(r) /\ ~Writing(r) /\ SavedStays
      BY <1>1, <1>2 DEF Indexing, Writing, SavedStays, Saved
    <2>2. r.index = job[t].index /\ r.written = job[t].written
      BY <1>2 DEF SameWork
    <2> QED BY <1>1, <1>2, <2>1, <2>2, PagesKept
  <1>8. GraphCurrent'
    <2>1. ~overlap => GraphOf(job[t])
      BY DEF GraphCurrent
    <2>2. DiskEdges' = DiskEdges
      BY <1>1, SameLinks
    <2>3. overlap' \in BOOLEAN
      BY <1>1 DEF Typed
    <2>4. ASSUME ~overlap, r.phase = "edges"
          PROVE  stale' \/ edges' \cup r.scan = DiskEdges
      <3>1. CASE job[t].phase = "clear"
        BY <1>2, <2>1, <2>4, <3>1 DEF GraphOf, Rebuilt
      <3>2. CASE job[t].phase = "edges" /\ ~stale'
        <4>1. PICK e \in job[t].scan :
                 /\ r.scan = job[t].scan \ {e}
                 /\ edges' = {e} \cup {f \in edges : f.from # e.from \/ f.to # e.to}
                 /\ stale' = stale
          BY <1>2, <2>4, <3>2 DEF Rebuilt
        <4>2. edges \cup job[t].scan = DiskEdges
          BY <2>1, <2>4, <3>2, <4>1 DEF GraphOf
        <4>3. \A f, g \in DiskEdges : f.from = g.from /\ f.to = g.to => f = g
          BY DEF DiskEdges, EdgesOf
        <4>4. \A f \in edges : f \in edges' \/ f = e
          BY <4>1, <4>2, <4>3
        <4> QED BY <4>1, <4>2, <4>4
      <3> QED BY <1>2, <2>4, <3>1, <3>2 DEF Rebuilt
    <2>5. ASSUME ~overlap, r.phase \in {"list", "report"}
          PROVE  stale' \/ edges' = DiskEdges
      BY <1>2, <2>1, <2>5 DEF GraphOf, Rebuilt
    <2>6. r.phase = "clear" => r.scan = DiskEdges
      BY <1>2 DEF Rebuilt
    <2> QED BY <1>1, <1>2, <2>2, <2>3, <2>4, <2>5, <2>6, GraphKept
  <1> QED BY <1>1, <1>3, <1>4, <1>5, <1>6, <1>7, <1>8, SameCorpus

LEMMA ReportInv ==
  ASSUME Inv, UNCHANGED scope, NEW t \in Threads, Report(t)
  PROVE  Inv'
  <1> USE DEF Inv
  <1>1. /\ UNCHANGED <<disk, row, edges, unsure, overlap, snaps, bare, stranded, stale>>
        /\ Becomes(t, IdleJob) /\ job[t].index = {}
        /\ ~Indexing(job[t]) /\ ~Writing(job[t]) /\ Busy(t)
        /\ job[t].phase = "report" \/ (job[t].phase = "next" /\ job[t].written = {})
    BY ReportBecomes
  <1>2. job' \in [Threads -> Job] /\ job'[t] = IdleJob /\ AllFormed'
    BY <1>1, JobAfter
  <1>3. UNCHANGED <<listing, entry, nodes, linked, landed, hands, query>>
    BY DEF Report, corpus, graph, files
  <1>4. /\ status' \in [Diffs -> {"none", "pending", "applied"}]
        /\ batched' \subseteq Tasks /\ faults' \in 0 .. scope.faults
    <2>1. job[t].ds \subseteq Diffs
      BY DEF Typed, Job
    <2>2. {d.task : d \in job[t].ds} \subseteq Tasks
      BY <2>1 DEF Tasks
    <2>3. scope.faults \in Nat
      BY ScopesAssumption DEF Typed
    <2> QED BY <2>2, <2>3 DEF Report, Typed, Fault, NoFault
  <1>5. Typed'
    BY <1>1, <1>2, <1>3, <1>4 DEF Typed
  <1>6. Apart'
    BY <1>1, ApartKept, Idles
  <1>7. PagesCurrent'
    <2>1. /\ ~Indexing(IdleJob) /\ ~Writing(IdleJob) /\ SavedStays
          /\ IdleJob.written \subseteq job[t].written
      BY <1>1, Idles DEF Indexing, Writing, SavedStays, Saved
    <2> QED BY <1>1, <2>1, PagesKept
  <1>8. GraphCurrent'
    <2>1. ~overlap => stale \/ edges = DiskEdges
      BY <1>1 DEF GraphCurrent, GraphOf
    <2>2. DiskEdges' = DiskEdges
      BY <1>1, SameLinks
    <2>3. overlap' \in BOOLEAN
      BY <1>1 DEF Typed
    <2> QED BY <1>1, <2>1, <2>2, <2>3, Idles, GraphKept
  <1> QED BY <1>1, <1>2, <1>3, <1>5, <1>6, <1>7, <1>8, SameCorpus

LEMMA ProposeInv ==
  ASSUME Inv, UNCHANGED scope, NEW k, Propose(k)
  PROVE  Inv'
  <1> USE DEF Inv
  <1>1. UNCHANGED <<disk, snaps, listing, row, entry, nodes, edges, linked, landed, batched, hands,
                    faults, unsure, overlap, stranded, stale, bare, job, query>>
    BY DEF Propose, files, corpus, graph, history, counts, meets, failed
  <1>2. status' \in [Diffs -> {"none", "pending", "applied"}]
    BY DEF Propose, Typed
  <1>3. Typed' /\ AllFormed' /\ Apart'
    BY <1>1, <1>2 DEF Typed, AllFormed, Apart, PagesOf
  <1>4. PagesCurrent' /\ GraphCurrent'
    BY <1>1, SameLinks DEF PagesCurrent, PageCurrent, Saved, GraphCurrent, GraphOf, Busy, Quiet
  <1> QED BY <1>1, <1>3, <1>4, SameCorpus

\* A step that changes only the queries, the cache or the episodes' edges.
LEMMA AsideInv ==
  ASSUME Inv, UNCHANGED <<disk, snaps, listing, row, nodes, edges, status, history, scope, job>>,
         entry' \in [valid : BOOLEAN, rows : Rows, raced : BOOLEAN], query' \in [Queries -> Read],
         linked' \subseteq Episodes \X Pages, CacheCurrent', RowsCurrent'
  PROVE  Inv'
  <1> USE DEF Inv
  <1>1. Typed' /\ AllFormed' /\ Apart'
    BY DEF Typed, AllFormed, Apart, PagesOf, history, counts, meets, failed
  <1>2. PagesCurrent' /\ GraphCurrent'
    BY SameLinks DEF PagesCurrent, PageCurrent, Saved, GraphCurrent, GraphOf, Busy, Quiet, history,
                     meets, failed
  <1> QED BY <1>1, <1>2

LEMMA LoadRowsInv ==
  ASSUME Inv, UNCHANGED scope, NEW q \in Queries, LoadRows(q)
  PROVE  Inv'
  <1> DEFINE loaded == [loaded |-> TRUE, rows |-> row, raced |-> FALSE]
  <1>1. /\ UNCHANGED <<disk, snaps, listing, row, entry, nodes, edges, linked, status, history, scope,
                       job>>
        /\ query' = [query EXCEPT ![q] = loaded]
    BY DEF LoadRows, files, corpus, graph
  <1>2. Typed /\ CacheCurrent /\ RowsCurrent /\ row \in Rows /\ query \in [Queries -> Read]
    BY DEF Inv, Typed
  <1>3. loaded \in Read /\ loaded.rows = row
    BY <1>2 DEF Read
  <1> HIDE DEF loaded
  <1>4. query' \in [Queries -> Read] /\ CacheCurrent' /\ RowsCurrent'
    BY <1>1, <1>2, <1>3 DEF CacheCurrent, RowsCurrent
  <1>5. entry' \in [valid : BOOLEAN, rows : Rows, raced : BOOLEAN] /\ linked' \subseteq Episodes \X Pages
    BY <1>1, <1>2 DEF Typed
  <1> QED BY <1>1, <1>4, <1>5, AsideInv

LEMMA WriteCacheInv ==
  ASSUME Inv, UNCHANGED scope, NEW q \in Queries, WriteCache(q)
  PROVE  Inv'
  <1>1. /\ UNCHANGED <<disk, snaps, listing, row, nodes, edges, linked, status, history, scope, job>>
        /\ entry' = [valid |-> TRUE, rows |-> query[q].rows, raced |-> query[q].raced]
        /\ query' = [query EXCEPT ![q] = IdleQuery] /\ query[q].loaded
    BY DEF WriteCache, files, graph
  <1>2. /\ Typed /\ RowsCurrent /\ query \in [Queries -> Read] /\ query[q] \in Read
    BY DEF Inv, Typed
  <1>3. IdleQuery \in Read /\ ~IdleQuery.loaded
    BY DEF IdleQuery, Read, Rows, Texts
  <1>4. /\ entry' \in [valid : BOOLEAN, rows : Rows, raced : BOOLEAN]
        /\ entry'.valid /\ entry'.rows = query[q].rows /\ entry'.raced = query[q].raced
    BY <1>1, <1>2 DEF Read
  <1>5. CacheCurrent'
    BY <1>1, <1>2, <1>4 DEF CacheCurrent, RowsCurrent
  <1>6. query' \in [Queries -> Read] /\ RowsCurrent'
    BY <1>1, <1>2, <1>3 DEF RowsCurrent
  <1>7. linked' \subseteq Episodes \X Pages
    BY <1>1, <1>2 DEF Typed
  <1> QED BY <1>1, <1>4, <1>5, <1>6, <1>7, AsideInv

LEMMA LinkInv ==
  ASSUME Inv, UNCHANGED scope, NEW e \in Episodes, NEW p \in Pages, LinkEpisode(e, p)
  PROVE  Inv'
  <1>1. /\ UNCHANGED <<disk, snaps, listing, row, entry, nodes, edges, status, history, scope, job,
                       query>>
        /\ linked' = linked \cup {<<e, p>>}
    BY DEF LinkEpisode, files, corpus
  <1>2. /\ entry' \in [valid : BOOLEAN, rows : Rows, raced : BOOLEAN] /\ query' \in [Queries -> Read]
        /\ linked' \subseteq Episodes \X Pages
    BY <1>1 DEF Inv, Typed
  <1>3. CacheCurrent' /\ RowsCurrent'
    BY <1>1, SameCorpus DEF Inv
  <1> QED BY <1>1, <1>2, <1>3, AsideInv

LEMMA HandEditInv ==
  ASSUME Inv, UNCHANGED scope, NEW p \in Pages, NEW c \in HandTexts, HandEdit(p, c)
  PROVE  Inv'
  <1> USE DEF Inv
  <1>1. /\ UNCHANGED <<snaps, listing, row, entry, nodes, edges, linked, status, landed, batched,
                       faults, stranded, stale, bare, job, query>>
        /\ hands < scope.hands /\ hands' = hands + 1 /\ disk' = [disk EXCEPT ![p] = c]
        /\ unsure' = unsure \cup {p} /\ overlap' = TRUE
    BY DEF HandEdit, corpus, graph, failed
  <1>2. scope.hands \in Nat
    BY ScopesAssumption DEF Typed
  <1>3. hands' \in 0 .. scope'.hands
    BY <1>1, <1>2 DEF Typed
  <1>4. disk' \in Rows /\ \A q \in Pages \ {p} : disk'[q] = disk[q]
    BY <1>1, ContentAssumption DEF Typed, Rows
  <1>5. Typed'
    BY <1>1, <1>3, <1>4 DEF Typed
  <1>6. AllFormed' /\ Apart'
    BY <1>1 DEF AllFormed, Apart, PagesOf
  <1>7. PagesCurrent'
    <2> SUFFICES ASSUME NEW q \in Pages \ unsure'
                 PROVE  PageCurrent(q)'
      BY DEF PagesCurrent
    <2>1. q \in Pages \ unsure /\ disk'[q] = disk[q]
      BY <1>1, <1>4
    <2>2. PageCurrent(q)
      BY <2>1 DEF PagesCurrent
    <2> HIDE DEF Inv
    <2> QED BY <1>1, <2>1, <2>2 DEF PageCurrent, Saved
  <1>8. GraphCurrent'
    BY <1>1 DEF GraphCurrent
  <1> QED BY <1>1, <1>5, <1>6, <1>7, <1>8, SameCorpus

\* After a start nothing is under way and everything is as it is on disk, or has
\* failed.
Started == /\ Typed /\ CacheCurrent /\ (stale \/ edges = DiskEdges)
           /\ \A p \in Pages : p \in stranded \/ row[p] = disk[p]
           /\ job = [t \in Threads |-> IdleJob] /\ query = [q \in Queries |-> IdleQuery]

LEMMA StartedInv == Started => Inv
  <1> SUFFICES ASSUME Started PROVE Inv
    OBVIOUS
  <1> USE DEF Started
  <1>1. \A t \in Threads : job[t] = IdleJob
    OBVIOUS
  <1>2. AllFormed /\ Apart
    BY <1>1, Idles DEF AllFormed, Apart, PagesOf
  <1>3. PagesCurrent
    <2>1. IdleJob.cur = {} /\ ~Indexing(IdleJob)
      BY DEF IdleJob, Indexing
    <2> QED BY <1>1, <2>1, Idles DEF PagesCurrent, PageCurrent
  <1>4. RowsCurrent
    <2>1. ~IdleQuery.loaded
      BY DEF IdleQuery
    <2> QED BY <2>1 DEF RowsCurrent
  <1>5. GraphCurrent
    BY <1>1, Idles DEF GraphCurrent, GraphOf, Busy
  <1> QED BY <1>2, <1>3, <1>4, <1>5 DEF Inv

LEMMA InitInv == Init => Inv
  <1> SUFFICES ASSUME Init PROVE Inv
    OBVIOUS
  <1>1. disk \in Rows /\ Initial \in Rows
    BY ContentAssumption DEF Init, Rows
  <1>2. OnDisk \subseteq Pages /\ DiskEdges \subseteq Edge
    BY <1>1, DiskEdgesTyped
  <1>3. IdleQuery \in Read
    BY DEF IdleQuery, Read, Rows, Texts
  <1>4. scope.hands \in Nat /\ scope.faults \in Nat
    BY ScopesAssumption DEF Init
  <1>5. Typed
    <2>1. /\ status \in [Diffs -> {"none", "pending", "applied"}]
          /\ snaps \in [Pages -> SUBSET SUBSET Blocks]
          /\ entry \in [valid : BOOLEAN, rows : Rows, raced : BOOLEAN]
          /\ job \in [Threads -> Job] /\ query \in [Queries -> Read]
      BY <1>1, <1>3, Idles DEF Init
    <2>2. row \in Rows /\ hands \in 0 .. scope.hands /\ faults \in 0 .. scope.faults
          /\ scope \in Scopes
      BY <1>1, <1>4 DEF Init
    <2>3. listing \subseteq Pages /\ nodes \subseteq Pages /\ edges \subseteq Edge
      BY <1>2 DEF Init
    <2>4. /\ linked \subseteq Episodes \X Pages /\ landed \subseteq Diffs /\ batched \subseteq Tasks
          /\ unsure \subseteq Pages /\ stranded \subseteq Pages /\ bare \subseteq Pages
          /\ overlap \in BOOLEAN /\ stale \in BOOLEAN
      BY DEF Init
    <2> QED BY <1>1, <2>1, <2>2, <2>3, <2>4 DEF Typed
  <1>6. CacheCurrent
    BY DEF Init, CacheCurrent
  <1> QED BY <1>5, <1>6, StartedInv DEF Init, Started

LEMMA RestartInv ==
  ASSUME Inv, UNCHANGED scope, Restart
  PROVE  Inv'
  <1>1. /\ UNCHANGED <<disk, snaps, listing, status, landed, batched, hands, bare>>
        /\ unsure' = {} /\ overlap' = FALSE
        /\ job' = [t \in Threads |-> IdleJob] /\ query' = [q \in Queries |-> IdleQuery]
        /\ Regraph \/ RegraphFails
        /\ NoFault \/ Fault
    BY DEF Restart, files
  <1>2. Typed /\ CacheCurrent /\ scope.faults \in Nat
    BY ScopesAssumption DEF Inv, Typed
  <1>3. PICK missed \in SUBSET Pages : Reindex(missed)
    BY DEF Restart
  <1>4. OnDisk \subseteq Pages /\ DiskEdges \subseteq Edge /\ DiskEdges' = DiskEdges
    BY <1>1, <1>2, DiskEdgesTyped, SameLinks DEF Typed
  <1>5. /\ nodes' \subseteq Pages /\ edges' \subseteq Edge /\ linked' \subseteq Episodes \X Pages
        /\ stale' \in BOOLEAN /\ (stale' \/ edges' = DiskEdges')
    BY <1>1, <1>2, <1>4 DEF Regraph, RegraphFails, Typed
  <1>6. /\ row' = [p \in Pages |-> IF p \in missed THEN row[p] ELSE disk[p]]
        /\ stranded' = {p \in missed : row[p] # disk[p]}
        /\ entry' = [entry EXCEPT !.valid = @ /\ \A p \in Pages \ missed : row[p] = disk[p]]
    BY <1>3 DEF Reindex
  <1>7. /\ row' \in Rows /\ stranded' \subseteq Pages
        /\ entry' \in [valid : BOOLEAN, rows : Rows, raced : BOOLEAN]
        /\ \A p \in Pages : p \in stranded' \/ row'[p] = disk[p]
    BY <1>2, <1>6 DEF Typed, Rows
  <1>8. IdleQuery \in Read
    BY DEF IdleQuery, Read, Rows, Texts
  <1>9. faults' \in 0 .. scope.faults
    BY <1>1, <1>2 DEF Typed, Fault, NoFault
  <1>10. Typed'
    BY <1>1, <1>2, <1>5, <1>7, <1>8, <1>9, Idles DEF Typed
  <1>11. CacheCurrent'
    <2>1. (\A p \in Pages \ missed : row[p] = disk[p]) => row' = row
      BY <1>2, <1>6 DEF Typed, Rows
    <2>2. /\ entry'.valid => entry.valid /\ \A p \in Pages \ missed : row[p] = disk[p]
          /\ entry'.rows = entry.rows /\ entry'.raced = entry.raced
      BY <1>2, <1>6 DEF Typed
    <2> QED BY <1>2, <2>1, <2>2 DEF CacheCurrent
  <1>12. Started'
    BY <1>1, <1>5, <1>7, <1>10, <1>11 DEF Started
  <1> QED BY <1>12, StartedInv, PTL

LEMMA NextInv == Inv /\ [Next]_vars => Inv'
  <1> SUFFICES ASSUME Inv, [Next]_vars PROVE Inv'
    OBVIOUS
  <1> USE DEF Inv
  <1>1. /\ scope.threads \subseteq Threads /\ scope.queries \subseteq Queries
        /\ scope.episodes \subseteq Episodes
    BY ScopesAssumption DEF Typed
  <1> HIDE DEF Inv
  <1>2. CASE Next
    <2> USE <1>2
    <2>1. UNCHANGED scope
      BY DEF Next
    <2>2. ASSUME NEW k, Propose(k) PROVE Inv'
      BY <2>1, <2>2, ProposeInv
    <2>3. ASSUME NEW k, NEW t \in Threads, StartAuto(t, k) PROVE Inv'
      BY <2>1, <2>3, StartInv DEF StartAuto, OfTask
    <2>4. ASSUME NEW d \in Diffs, NEW t \in Threads, StartPending(t, d) PROVE Inv'
      BY <2>1, <2>4, StartInv DEF StartPending
    <2>5. ASSUME NEW t \in Threads, Step(t) PROVE Inv'
      BY <2>1, <2>5, BeginInv, ReadInv, WriteInv, FailInv, ReadForIndexInv, StoreRowInv, MissRowInv,
         RebuildInv, RaiseInv, ReportInv DEF Step, Rebuilds
    <2>6. ASSUME NEW q \in Queries, LoadRows(q) \/ WriteCache(q) PROVE Inv'
      BY <2>1, <2>6, LoadRowsInv, WriteCacheInv
    <2>7. ASSUME NEW e \in Episodes, NEW p \in Pages, LinkEpisode(e, p) PROVE Inv'
      BY <2>1, <2>7, LinkInv
    <2>8. ASSUME NEW p \in Pages, NEW c \in HandTexts, HandEdit(p, c) PROVE Inv'
      BY <2>1, <2>8, HandEditInv
    <2>9. ASSUME Restart PROVE Inv'
      BY <2>1, <2>9, RestartInv
    <2> QED BY <1>1, <2>2, <2>3, <2>4, <2>5, <2>6, <2>7, <2>8, <2>9 DEF Next
  <1>3. CASE UNCHANGED vars
    <2>1. /\ UNCHANGED <<disk, snaps, listing, row, nodes, edges, status, history, scope, job>>
          /\ UNCHANGED <<row, entry, linked, query>>
      BY <1>3 DEF vars, files, corpus, graph
    <2>2. CacheCurrent' /\ RowsCurrent'
      BY <2>1, SameCorpus DEF Inv
    <2>3. /\ entry' \in [valid : BOOLEAN, rows : Rows, raced : BOOLEAN] /\ query' \in [Queries -> Read]
          /\ linked' \subseteq Episodes \X Pages
      BY <2>1 DEF Inv, Typed
    <2> QED BY <2>1, <2>2, <2>3, AsideInv
  <1> QED BY <1>2, <1>3

LEMMA Invariant == Spec => []Inv
  BY InitInv, NextInv, PTL DEF Spec

-----------------------------------------------------------------------------
(* The theorems                                                            *)

\* Every variable has its type, and no job has more to do than its diffs.
THEOREM TypeCorrect == Spec => []TypeOK
  <1>1. Inv => TypeOK
    <2> SUFFICES ASSUME Inv PROVE TypeOK
      OBVIOUS
    <2>1. Typed /\ AllFormed
      BY DEF Inv
    <2>2. edges \subseteq [from : Pages, to : Pages, resolved : BOOLEAN]
      BY <2>1 DEF Typed, Edge
    <2>3. entry.valid \in BOOLEAN /\ entry.rows \in [Pages -> Texts]
      BY <2>1 DEF Typed, Rows
    <2>4. ASSUME NEW t \in Threads
          PROVE  job[t].ds \subseteq Diffs /\ job[t].todo \subseteq job[t].ds /\ job[t].text \in Texts
      BY <2>1 DEF Typed, AllFormed, Formed, Job
    <2>5. ASSUME NEW q \in Queries PROVE query[q].rows \in [Pages -> Texts]
      BY <2>1 DEF Typed, Read, Rows
    <2> QED BY <2>1, <2>2, <2>3, <2>4, <2>5 DEF Typed, TypeOK, Rows
  <1> QED BY <1>1, Invariant, PTL

\* "Every page written to disk is immediately passed to index_document()": a
\* page that no job is working on is in the index as it stands on disk, unless
\* jobs or a hand edit met on it or its own index call failed or was never made,
\* whatever diffs and threads there are and wherever the process stopped.
THEOREM IndexIsCurrent == Spec => []IndexCurrent
  <1>1. Inv => IndexCurrent
    <2> SUFFICES ASSUME Inv, NEW p \in Pages \ (unsure \cup stranded),
                        \A t \in Threads : p \notin PagesOf(t)
                 PROVE  row[p] = disk[p]
      BY DEF IndexCurrent
    <2>1. PageCurrent(p)
      BY DEF Inv, PagesCurrent
    <2>2. ASSUME NEW t \in Threads
          PROVE  p \notin job[t].index /\ ~(Indexing(job[t]) /\ p \in job[t].cur)
      <3>1. Formed(job[t])
        BY DEF Inv, AllFormed
      <3>2. p \notin job[t].written
        BY <3>1 DEF Formed, PagesOf
      <3> QED BY <3>1, <3>2 DEF Formed
    <2> QED BY <2>1, <2>2 DEF PageCurrent
  <1> QED BY <1>1, Invariant, PTL

\* A valid cache entry scored the rows of the index, unless the index changed
\* between the query's read and its write.
THEOREM CacheIsCurrent == Spec => []CacheCurrent
  <1>1. Inv => CacheCurrent
    BY DEF Inv
  <1> QED BY <1>1, Invariant, PTL

\* When the jobs did not overlap and no rebuild is owed, the graph holds the
\* links that are on disk.
THEOREM EdgesAreCurrent == Spec => []EdgesCurrent
  <1>1. Inv => EdgesCurrent
    BY DEF Inv, GraphCurrent, EdgesCurrent
  <1> QED BY <1>1, Invariant, PTL

\* What a job overwrites or cuts short is in the snapshots of its page, unless
\* the snapshot failed or jobs or a hand edit met on the page.
THEOREM OverwrittenIsSnapshotted == Spec => Snapshotted
  <1> DEFINE Safe == \A p \in Pages \ (unsure \cup bare) : Overwritten(p) => disk[p] \in snaps[p]
  <1>1. Inv /\ [Next]_vars => [Safe]_vars
    <2> SUFFICES ASSUME Inv, Next, NEW p \in Pages \ (unsure \cup bare), Overwritten(p)
                 PROVE  disk[p] \in snaps[p]
      OBVIOUS
    <2>1. scope.threads \subseteq Threads /\ hands \in Nat
      BY ScopesAssumption DEF Inv, Typed
    <2>2. hands' = hands /\ disk'[p] # disk[p] /\ disk[p] # NoPage
      BY DEF Overwritten
    <2>a. hands' = hands /\ disk' # disk
      BY <2>2
    <2> HIDE DEF Overwritten
    <2>b. ASSUME NEW t \in scope.threads, Step(t), disk' # disk
          PROVE  \E d \in Diffs : WritePage(t, d) \/ FailWrite(t, d)
      BY <2>b DEF Step, Begin, ReadPage, ReadForIndex, StoreRow, MissRow, AddEdge, ScanGraph,
                  ClearEdges, BreakGraph, ListPages, WriteListing, Raise, Report, files
    <2>c. ASSUME NEW q, NEW c, HandEdit(q, c) PROVE hands' # hands
      BY <2>1, <2>c DEF HandEdit
    <2>d. \E t \in scope.threads : Step(t)
      <3>1. ASSUME NEW k, Propose(k) PROVE FALSE
        BY <2>a, <3>1 DEF Propose, files
      <3>2. ASSUME NEW k, NEW t, StartAuto(t, k) PROVE FALSE
        BY <2>a, <3>2 DEF StartAuto, Start, files
      <3>3. ASSUME NEW k, NEW t, StartPending(t, k) PROVE FALSE
        BY <2>a, <3>3 DEF StartPending, Start, files
      <3>4. ASSUME NEW q, LoadRows(q) \/ WriteCache(q) PROVE FALSE
        BY <2>a, <3>4 DEF LoadRows, WriteCache, files
      <3>5. ASSUME NEW e, NEW q, LinkEpisode(e, q) PROVE FALSE
        BY <2>a, <3>5 DEF LinkEpisode, files
      <3>6. ASSUME Restart PROVE FALSE
        BY <2>a, <3>6 DEF Restart, files
      <3> QED BY <2>a, <2>c, <3>1, <3>2, <3>3, <3>4, <3>5, <3>6 DEF Next
    <2>3. PICK t \in Threads : \E d \in Diffs : WritePage(t, d) \/ FailWrite(t, d)
      BY <2>1, <2>a, <2>b, <2>d
    <2> PICK d \in Diffs : WritePage(t, d) \/ FailWrite(t, d)
      BY <2>3
    <2>4. /\ job[t].phase = "write" /\ job[t].cur = {d}
          /\ \/ disk' = disk
             \/ \E text \in SUBSET Blocks : disk' = [disk EXCEPT ![d.page] = text]
      <3>1. CASE WritePage(t, d)
        BY <3>1, WriteBecomes DEF Inv
      <3>2. CASE FailWrite(t, d)
        BY <3>2, FailBecomes DEF Inv
      <3> QED BY <3>1, <3>2
    <2>5. d.page = p
      BY <2>2, <2>4 DEF Inv, Typed, Rows
    <2>6. PageCurrent(p)
      BY DEF Inv, PagesCurrent
    <2> QED BY <2>2, <2>4, <2>5, <2>6 DEF PageCurrent, Writing, Saved
  <1> QED BY <1>1, Invariant, PTL DEF Spec, Snapshotted

-----------------------------------------------------------------------------
(* The status of the diffs                                                 *)

\* A job is one turn's, and one that wrote pages has landed one of its diffs.
Landed(j) ==
    /\ \A d, e \in j.ds : d.task = e.task
    /\ j.written # {} => \E d \in j.ds : d \in landed

Sound == AppliedIsWritten /\ \A t \in Threads : Landed(job[t])

\* What accounts for a diff goes on to.
LEMMA SoundKept ==
  ASSUME Sound, landed \subseteq landed', batched \subseteq batched',
         \A d \in Diffs : status'[d] = "applied" =>
             status[d] = "applied" \/ \E e \in landed' : Accounts(e, d)',
         \A t \in Threads : Landed(job[t])'
  PROVE  Sound'
  <1>1. ASSUME NEW d \in Diffs, status[d] = "applied"
        PROVE  \E e \in landed' : Accounts(e, d)'
    <2>1. PICK e \in landed : Accounts(e, d)
      BY <1>1 DEF Sound, AppliedIsWritten
    <2> QED BY <2>1 DEF Accounts
  <1> QED BY <1>1 DEF Sound, AppliedIsWritten

\* A step of one thread that marks nothing.
LEMMA SoundOnward ==
  ASSUME Typed, Sound, NEW t \in Threads, NEW r, Becomes(t, r), landed \subseteq landed',
         UNCHANGED <<batched, status>>,
         \/ r.ds = {} /\ r.written = {}
         \/ r.ds = job[t].ds /\ (r.written \subseteq job[t].written \/ \E d \in r.ds : d \in landed')
  PROVE  Sound'
  <1>1. job'[t] = r /\ \A u \in Threads \ {t} : job'[u] = job[u]
    BY DEF Typed, Becomes
  <1>2. \A u \in Threads : Landed(job[u])
    BY DEF Sound
  <1>3. \A u \in Threads \ {t} : Landed(job[u])'
    BY <1>1, <1>2 DEF Landed
  <1>4. Landed(job[t])'
    BY <1>1, <1>2 DEF Landed
  <1> QED BY <1>3, <1>4, SoundKept

LEMMA ReportSound ==
  ASSUME Inv, Sound, NEW t \in Threads, Report(t)
  PROVE  Sound'
  <1>1. /\ Typed /\ Formed(job[t]) /\ UNCHANGED landed /\ job' = [job EXCEPT ![t] = IdleJob]
        /\ Landed(job[t])
    BY DEF Inv, AllFormed, Report, Set, Sound
  <1>2. \A u \in Threads : Landed(job[u])'
    <2>1. job'[t] = IdleJob /\ \A u \in Threads \ {t} : job'[u] = job[u]
      BY <1>1 DEF Typed
    <2>2. ASSUME NEW u \in Threads, u # t PROVE Landed(job[u])'
      BY <1>1, <2>1, <2>2 DEF Sound, Landed
    <2>3. Landed(job[t])'
      BY <2>1, Idles DEF Landed
    <2> QED BY <2>2, <2>3
  <1>3. batched \subseteq batched'
    BY DEF Report
  <1>4. ASSUME NEW e \in Diffs, status'[e] = "applied", status[e] # "applied"
        PROVE  \E d \in landed : Accounts(d, e)'
    <2>1. /\ job[t].written # {} /\ Marked(t, e)
          /\ batched' = batched \cup (IF job[t].auto /\ job[t].written # {}
                                     THEN {d.task : d \in job[t].ds} ELSE {})
      BY <1>4 DEF Report
    <2>2. PICK d \in job[t].ds : d \in landed
      BY <1>1, <2>1 DEF Landed
    <2>3. CASE job[t].auto
      <3>1. e \in job[t].ds /\ d.task = e.task /\ e.task \in batched'
        BY <1>1, <2>1, <2>2, <2>3 DEF Marked, Landed
      <3> QED BY <2>2, <3>1 DEF Accounts
    <2>4. CASE ~job[t].auto
      <3>1. d.task = e.task /\ d.page = e.page
        BY <1>1, <2>1, <2>2, <2>4 DEF Marked, Formed
      <3> QED BY <2>2, <3>1 DEF Accounts
    <2> QED BY <2>3, <2>4
  <1> QED BY <1>1, <1>2, <1>3, <1>4, SoundKept

LEMMA StepSound ==
  ASSUME Inv, Sound, NEW t \in Threads, Step(t)
  PROVE  Sound'
  <1>1. Typed /\ AllFormed
    BY DEF Inv
  <1>2. ASSUME NEW r, Becomes(t, r), r = IdleJob \/ SameWork(r, job[t]),
               UNCHANGED <<landed, batched, status>>
        PROVE  Sound'
    BY <1>1, <1>2, Idles, SoundOnward DEF SameWork
  <1>3. ASSUME NEW d \in Diffs, Begin(t, d) PROVE Sound'
    <2>1. UNCHANGED <<landed, batched, status>>
      BY <1>3 DEF Begin
    <2> QED BY <1>1, <1>2, <1>3, <2>1, BeginBecomes
  <1>4. ASSUME Abandon(t, {}), UNCHANGED <<landed, batched, status>> PROVE Sound'
    <2>1. Becomes(t, IdleJob)
      BY <1>4, Idles DEF Becomes, Abandon, Set
    <2> QED BY <1>2, <1>4, <2>1
  <1>5. ASSUME NEW d \in Diffs, ReadPage(t, d) PROVE Sound'
    <2>1. UNCHANGED <<landed, batched, status>>
      BY <1>5 DEF ReadPage, counts
    <2> QED BY <1>1, <1>2, <1>4, <1>5, <2>1, ReadBecomes
  <1>6. ASSUME NEW d \in Diffs, FailWrite(t, d) PROVE Sound'
    <2>1. UNCHANGED <<landed, batched, status>>
      BY <1>6 DEF FailWrite
    <2>2. PICK r : Becomes(t, r) /\ (r = IdleJob \/ SameWork(r, job[t]))
      BY <1>1, <1>6, FailBecomes
    <2> QED BY <1>2, <2>1, <2>2
  <1>7. ASSUME NEW d \in Diffs, WritePage(t, d) PROVE Sound'
    <2>1. landed' = landed \cup {d} /\ UNCHANGED <<batched, status>>
      BY <1>7 DEF WritePage
    <2>2. PICK r : Becomes(t, r) /\ r.ds = job[t].ds
      BY <1>1, <1>7, WriteBecomes
    <2>3. d \in job[t].ds
      BY <1>1, <1>7, WriteBecomes
    <2> QED BY <1>1, <2>1, <2>2, <2>3, SoundOnward
  <1>8. ASSUME NEW p \in Pages, ReadForIndex(t, p) PROVE Sound'
    <2>1. UNCHANGED <<landed, batched, status>>
      BY <1>8 DEF ReadForIndex, history, counts
    <2>2. PICK r : Becomes(t, r) /\ r.ds = job[t].ds /\ r.written = job[t].written
      BY <1>1, <1>8, ReadForIndexBecomes
    <2> QED BY <1>1, <2>1, <2>2, SoundOnward
  <1>9. ASSUME NEW p \in Pages, StoreRow(t, p) \/ MissRow(t, p) PROVE Sound'
    <2>1. UNCHANGED <<landed, batched, status>>
      BY <1>9 DEF StoreRow, MissRow, counts
    <2> QED BY <1>1, <1>2, <1>9, <2>1, IndexBecomes
  <1>10. CASE Rebuilds(t)
    <2>1. UNCHANGED <<landed, batched, status>>
      BY <1>10 DEF Rebuilds, ScanGraph, ClearEdges, BreakGraph, ListPages, WriteListing, AddEdge,
                   history, counts
    <2> QED BY <1>1, <1>2, <1>10, <2>1, RebuildBecomes
  <1>11. CASE Raise(t)
    BY <1>4, <1>11 DEF Raise
  <1> QED BY <1>3, <1>5, <1>6, <1>7, <1>8, <1>9, <1>10, <1>11, ReportSound DEF Step, Rebuilds

LEMMA SoundStep ==
  ASSUME Inv, Sound, [Next]_vars
  PROVE  Sound'
  <1>1. Typed
    BY DEF Inv
  <1>2. ASSUME UNCHANGED <<job, landed, batched>>,
               \A d \in Diffs : status'[d] = "applied" => status[d] = "applied"
        PROVE  Sound'
    BY <1>2, SoundKept DEF Sound, Landed
  <1>3. ASSUME NEW k, Propose(k) PROVE Sound'
    <2>1. /\ UNCHANGED <<job, landed, batched>>
          /\ \A d \in Diffs : status'[d] = "applied" => status[d] = "applied"
      BY <1>3 DEF Propose, history, counts
    <2> QED BY <1>2, <2>1
  <1>4. ASSUME NEW t \in Threads, NEW auto \in BOOLEAN, NEW ds \in SUBSET Diffs, Start(t, auto, ds),
               \A d, e \in ds : d.task = e.task
        PROVE  Sound'
    <2> DEFINE r == [IdleJob EXCEPT !.phase = "next", !.auto = auto, !.ds = ds, !.todo = ds]
    <2>1. /\ job'[t] = r /\ \A u \in Threads \ {t} : job'[u] = job[u]
          /\ UNCHANGED <<landed, batched, status>>
      BY <1>1, <1>4 DEF Start, Set, Typed, counts
    <2>2. r.ds = ds /\ r.written = {}
      BY DEF IdleJob
    <2> HIDE DEF r
    <2>3. \A u \in Threads : Landed(job[u])'
      BY <1>4, <2>1, <2>2 DEF Sound, Landed
    <2> QED BY <2>1, <2>3, SoundKept
  <1>5. ASSUME NEW k, NEW t \in Threads, StartAuto(t, k) PROVE Sound'
    <2>1. OfTask(k) \in SUBSET Diffs /\ \A d, e \in OfTask(k) : d.task = e.task
      BY DEF OfTask
    <2> QED BY <1>4, <1>5, <2>1 DEF StartAuto
  <1>6. ASSUME NEW d \in Diffs, NEW t \in Threads, StartPending(t, d) PROVE Sound'
    <2>1. {d} \in SUBSET Diffs /\ \A e, f \in {d} : e.task = f.task
      OBVIOUS
    <2> QED BY <1>4, <1>6, <2>1 DEF StartPending
  <1>7. ASSUME NEW q, LoadRows(q) \/ WriteCache(q) PROVE Sound'
    BY <1>2, <1>7 DEF LoadRows, WriteCache, history, counts
  <1>8. ASSUME NEW e, NEW p, LinkEpisode(e, p) \/ HandEdit(p, e) PROVE Sound'
    BY <1>2, <1>8 DEF LinkEpisode, HandEdit, history, counts
  <1>9. CASE Restart
    <2>1. UNCHANGED <<landed, batched, status>> /\ \A t \in Threads : job'[t] = IdleJob
      BY <1>9 DEF Restart
    <2>2. \A t \in Threads : Landed(job[t])'
      BY <2>1, Idles DEF Landed
    <2> QED BY <2>1, <2>2, SoundKept
  <1>10. CASE UNCHANGED vars
    BY <1>2, <1>10 DEF vars, history, counts
  <1>11. scope.threads \subseteq Threads
    BY <1>1, ScopesAssumption DEF Typed
  <1> QED BY <1>3, <1>5, <1>6, <1>7, <1>8, <1>9, <1>10, <1>11, StepSound DEF Next

\* A diff shown as applied was written to disk; or, by an Apply, another diff of
\* its turn for its page; or, by an auto_apply run, another diff of its turn.
\* This holds for any diffs, whatever jobs overlap, fail, or are cut short by a
\* crash, and whatever is edited by hand.
THEOREM AppliedWasWritten == Spec => []AppliedIsWritten
  <1>1. Init => Sound
    BY Idles DEF Init, Sound, AppliedIsWritten, Landed
  <1>2. Inv /\ Sound /\ [Next]_vars => Sound'
    BY SoundStep
  <1>3. Sound => AppliedIsWritten
    BY DEF Sound
  <1> QED BY <1>1, <1>2, <1>3, Invariant, PTL DEF Spec
=============================================================================
