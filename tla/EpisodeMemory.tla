---------------------------- MODULE EpisodeMemory ----------------------------
(***************************************************************************)
(* The lifecycle of episodic memory: the `episodes` table and the writers  *)
(* on it (EpisodicMemoryWriter, sweep_expired_memory), what is derived     *)
(* from it (MEMORY.md and the controller's recency cache), and the chat    *)
(* turns, HTTP requests and starts that drive them (controller_agent.py,   *)
(* episodic_extractor.py, main.py).                                        *)
(*                                                                         *)
(* Every turn and every request builds a writer of its own, so the         *)
(* writers' locks exclude nothing: single transactions are atomic, the     *)
(* MEMORY.md rewrite and the hooks after them are steps of their own.      *)
(***************************************************************************)
EXTENDS Naturals, FiniteSets, Sequences

CONSTANTS
    Subjects,       \* subjects an extraction yields
    Types,          \* VALID_EPISODE_TYPES
    PrimeTypes,     \* _PRIME_TYPES
    RecencyLimit,   \* LIMIT of by_recency
    MaxRow,         \* bound: rows ever inserted
    Gate,           \* episodic_write_approval
    Turns,          \* threads running a chat turn
    Requests        \* threads serving approve, reject and reactivate

ASSUME TypesAssumption == PrimeTypes \subseteq Types
ASSUME LimitsAssumption == RecencyLimit \in Nat \ {0} /\ MaxRow \in Nat
ASSUME GateAssumption == Gate \in BOOLEAN

VARIABLES
    episode,   \* the rows of `episodes`, in id order: subject, type and status
    memoryMd,  \* ids listed in MEMORY.md
    cache,     \* _recency_cache of one project context: valid, and its ids
    job,       \* job[t]: what the turn or request of thread t still has to do
    doubled,   \* history: keys approve left with two active episodes
    torn,      \* history: rewrites of MEMORY.md overlapped, failed, were cut
               \* short, or were not made (a reactivation that came second)
    late       \* history: the cache missed a change of the episodes

history == <<doubled, torn, late>>
vars    == <<episode, memoryMd, cache, job, history>>

Threads == Turns \cup Requests
Ids     == 1 .. Len(episode)
Key(i)  == <<episode[i].subject, episode[i].type>>
ActiveIn(rows) == {i \in DOMAIN rows : rows[i].status = "active"}
Active  == ActiveIn(episode)
Recent  == {i \in Active : episode[i].type \in PrimeTypes}

\* todo: the steps left, in order.  id: the episode the hooks are about.
\* types: what the fallback retraction of `subject` still tries.
\* ids: active rows read for MEMORY.md, or rows by_recency returned.
IdleJob == [todo |-> <<>>, id |-> 0, subject |-> "none", types |-> {}, ids |-> {},
            raced |-> FALSE]
Idle(t)     == job[t].todo = <<>>
AllIdle     == \A t \in Threads : Idle(t)
At(t, step) == ~Idle(t) /\ Head(job[t].todo) = step
Done(t)     == IF Len(job[t].todo) = 1 THEN IdleJob ELSE [job[t] EXCEPT !.todo = Tail(@)]
Has(t, step) == \E n \in 1 .. Len(job[t].todo) : job[t].todo[n] = step
RewritesMd(t) == Has(t, "file")

\* A transaction that leaves the rows `new`; thread t goes on as r, ...
Transact(t, new, r) ==
    /\ episode' = new
    /\ job'     = [u \in Threads |->
                     IF u = t THEN r
                     ELSE [job[u] EXCEPT !.raced = @ \/ (At(u, "store") /\ ActiveIn(new) # Active)]]

\* ... which begins with a rewrite of MEMORY.md.
Commit(t, new, r) ==
    /\ Transact(t, new, r)
    /\ torn' = \E u \in Threads \ {t} : RewritesMd(u)

-----------------------------------------------------------------------------
(* EpisodicMemoryWriter                                                    *)

\* Mutant: the UPDATE forgets that only active rows are superseded.
SupersededAll(rows, s, ty) ==
    [i \in DOMAIN rows |-> IF rows[i].subject = s /\ rows[i].type = ty
                           THEN [rows[i] EXCEPT !.status = "superseded"] ELSE rows[i]]

\* _supersede_existing
Superseded(rows, s, ty) ==
    [i \in DOMAIN rows |->
        IF rows[i].subject = s /\ rows[i].type = ty /\ rows[i].status = "active"
        THEN [rows[i] EXCEPT !.status = "superseded"] ELSE rows[i]]

\* Mutant: a pending row supersedes the active one.
InsertedOver(s, ty, status) ==
    Append(Superseded(episode, s, ty), [subject |-> s, type |-> ty, status |-> status])

\* The rows after insert(); a pending row supersedes nothing.
Inserted(s, ty, status) ==
    Append(IF status = "active" THEN Superseded(episode, s, ty) ELSE episode,
           [subject |-> s, type |-> ty, status |-> status])

Restatus(rows, ids, status) ==
    [i \in DOMAIN rows |-> IF i \in ids THEN [rows[i] EXCEPT !.status = status]
                           ELSE rows[i]]

MdRows == Active

\* _write_memory_md, after the commit: the SELECT ...
SelectActive(t) ==
    /\ At(t, "select")
    /\ job' = [job EXCEPT ![t] = [Done(t) EXCEPT !.ids = MdRows]]
    /\ UNCHANGED <<episode, memoryMd, cache, history>>

\* ... and write_text.
WriteFile(t) ==
    /\ At(t, "file")
    /\ memoryMd' = job[t].ids
    /\ job' = [job EXCEPT ![t] = [Done(t) EXCEPT !.ids = {}]]
    /\ UNCHANGED <<episode, cache, history>>

\* The SELECT or write_text raises, which is logged and ignored: the old file
\* stays, or is left empty by the open that truncates it.
WriteFileFails(t) ==
    /\ At(t, "file")
    /\ memoryMd' \in {memoryMd, {}}
    /\ torn' = TRUE
    /\ job' = [job EXCEPT ![t] = [Done(t) EXCEPT !.ids = {}]]
    /\ UNCHANGED <<episode, cache, doubled, late>>

\* The steps of _write_memory_md.
MdSteps == <<"select", "file">>

-----------------------------------------------------------------------------
(* A chat turn                                                             *)

\* process_explicit_signal on a memory instruction.
Remember(t, s, ty) ==
    /\ t \in Turns /\ Idle(t)
    /\ Len(episode) < MaxRow
    /\ Commit(t, Inserted(s, ty, "active"),
              [IdleJob EXCEPT !.id = Len(episode) + 1,
                              !.todo = MdSteps \o <<"clear", "link", "recall">>])
    /\ doubled' = doubled \ {<<s, ty>>}
    /\ UNCHANGED <<memoryMd, cache, late>>

\* best_match scores every active episode, whatever its project, and returns
\* the first, whichever that is.
BestMatches == Active

\* A retraction: best_match finds an episode above its floor ...
Match(t, i) ==
    /\ t \in Turns /\ Idle(t) /\ i \in BestMatches
    /\ job' = [job EXCEPT ![t] = [IdleJob EXCEPT !.id = i, !.todo = <<"retract", "clear",
                                                                      "recall">>]]
    /\ UNCHANGED <<episode, memoryMd, cache, history>>

\* ... which retract_by_id retracts if it still is active; ...
RetractById(t) ==
    LET i == job[t].id
    IN  /\ At(t, "retract") /\ i # 0
        /\ IF i \in Active
           THEN Commit(t, Restatus(episode, {i}, "retracted"),
                       [Done(t) EXCEPT !.id = 0, !.todo = MdSteps \o @])
           ELSE /\ job' = [job EXCEPT ![t] = [Done(t) EXCEPT !.id = 0]]
                /\ UNCHANGED <<episode, torn>>
        /\ UNCHANGED <<memoryMd, cache, doubled, late>>

\* ... or no match: every type is tried with the extracted subject.
MatchNothing(t, s) ==
    /\ t \in Turns /\ Idle(t)
    /\ job' = [job EXCEPT ![t] = [IdleJob EXCEPT !.subject = s, !.types = Types,
                                                 !.todo = <<"retract", "clear", "recall">>]]
    /\ UNCHANGED <<episode, memoryMd, cache, history>>

RetractType(t, ty) ==
    LET rows == {i \in Active : Key(i) = <<job[t].subject, ty>>}
        left == job[t].types \ {ty}
        rest == IF left = {} THEN Tail(job[t].todo) ELSE job[t].todo
    IN  /\ At(t, "retract") /\ job[t].id = 0 /\ ty \in job[t].types
        /\ IF rows # {}
           THEN Commit(t, Restatus(episode, rows, "retracted"),
                       [job[t] EXCEPT !.types = left, !.todo = MdSteps \o rest])
           ELSE /\ job' = [job EXCEPT ![t] = [@ EXCEPT !.types = left, !.todo = rest]]
                /\ UNCHANGED <<episode, torn>>
        /\ UNCHANGED <<memoryMd, cache, doubled, late>>

\* Any other instruction writes nothing before the answer, and may leave an
\* implicitly extracted episode after it.
Ask(t) ==
    /\ t \in Turns /\ Idle(t)
    /\ job' = [job EXCEPT ![t] = [IdleJob EXCEPT !.todo = <<"recall", "extract">>]]
    /\ UNCHANGED <<episode, memoryMd, cache, history>>

\* No recall: the turn is a wiki or a graph turn.
SkipRecall(t) ==
    /\ At(t, "recall")
    /\ job' = [job EXCEPT ![t] = Done(t)]
    /\ UNCHANGED <<episode, memoryMd, cache, history>>

\* Step 5, Mode 2: the recency cache is used when it is valid ...
RecallCached(t) ==
    /\ At(t, "recall") /\ cache.valid
    /\ job' = [job EXCEPT ![t] = Done(t)]
    /\ UNCHANGED <<episode, memoryMd, cache, history>>

\* Mutant: the LIMIT is forgotten.
AllRecent == {Recent}

\* What by_recency may return: RecencyLimit rows, in an order (last_accessed)
\* the model leaves open.
ByRecency == {rows \in SUBSET Recent :
                 /\ Cardinality(rows) <= RecencyLimit
                 /\ rows = Recent \/ Cardinality(rows) = RecencyLimit}

\* ... else by_recency is called ...
RecallRows(t, rows) ==
    /\ At(t, "recall") /\ ~cache.valid
    /\ job' = [job EXCEPT ![t] = [Done(t) EXCEPT !.todo = <<"store">> \o @, !.ids = rows,
                                                 !.raced = FALSE]]
    /\ UNCHANGED <<episode, memoryMd, cache, history>>

\* ... and their records become the cache.
StoreRecall(t) ==
    /\ At(t, "store")
    /\ cache' = [valid |-> TRUE, ids |-> job[t].ids]
    /\ late'  = job[t].raced
    /\ job'   = [job EXCEPT ![t] = [Done(t) EXCEPT !.ids = {}]]
    /\ UNCHANGED <<episode, memoryMd, doubled, torn>>

\* What extract_implicit_episode may find in a turn, when it finds anything.
Facts == Subjects \X Types

ImplicitStatus == IF Gate THEN "pending" ELSE "active"

\* process_implicit_extraction
Extract(t, s, ty) ==
    /\ At(t, "extract") /\ <<s, ty>> \in Facts
    /\ Len(episode) < MaxRow
    /\ Commit(t, Inserted(s, ty, ImplicitStatus),
              [IdleJob EXCEPT !.id = Len(episode) + 1,
                              !.todo = MdSteps \o
                                       (IF Gate THEN <<"clear">> ELSE <<"clear", "link">>)])
    /\ doubled' = IF Gate THEN doubled ELSE doubled \ {<<s, ty>>}
    /\ UNCHANGED <<memoryMd, cache, late>>

ExtractNothing(t) ==
    /\ At(t, "extract")
    /\ job' = [job EXCEPT ![t] = IdleJob]
    /\ UNCHANGED <<episode, memoryMd, cache, history>>

\* Mutant: the cache outlives the write.
KeepRecency == UNCHANGED <<cache, late>>

\* self._recency_cache.clear()
ClearRecency == cache' = [valid |-> FALSE, ids |-> {}] /\ late' = FALSE

ClearCache(t) ==
    /\ At(t, "clear")
    /\ ClearRecency
    /\ job' = [job EXCEPT ![t] = Done(t)]
    /\ UNCHANGED <<episode, memoryMd, doubled, torn>>

\* _write_episode_graph_node; the graph itself is WikiCorpus.
LinkNode(t) ==
    /\ At(t, "link")
    /\ job' = [job EXCEPT ![t] = Done(t)]
    /\ UNCHANGED <<episode, memoryMd, cache, history>>

-----------------------------------------------------------------------------
(* POST /memory/episodes/{id}/approve, /reject and /reactivate             *)

Approve(t, i) ==
    /\ t \in Requests /\ Idle(t)
    /\ i \in Ids /\ episode[i].status = "pending"
    /\ Commit(t, Restatus(episode, {i}, "active"),
              [IdleJob EXCEPT !.id = i, !.todo = MdSteps \o <<"link">>])
    /\ doubled' = doubled \cup {Key(i) : j \in {k \in Active : Key(k) = Key(i)}}
    /\ late' = (late \/ cache.valid)
    /\ UNCHANGED <<memoryMd, cache>>

Reject(t, i) ==
    /\ t \in Requests /\ Idle(t)
    /\ i \in Ids /\ episode[i].status = "pending"
    /\ Commit(t, Restatus(episode, {i}, "retracted"), [IdleJob EXCEPT !.todo = MdSteps])
    /\ UNCHANGED <<memoryMd, cache, doubled, late>>

\* reactivate: the SELECT is outside the transaction of the two UPDATEs.
FindRetracted(t, i) ==
    /\ t \in Requests /\ Idle(t)
    /\ i \in Ids /\ episode[i].status = "retracted"
    /\ job' = [job EXCEPT ![t] = [IdleJob EXCEPT !.id = i, !.todo = <<"reactivate">>]]
    /\ UNCHANGED <<episode, memoryMd, cache, history>>

\* Mutant: the active episode of the subject stays active.
ReactivatedBeside(i) ==
    IF episode[i].status = "retracted" THEN Restatus(episode, {i}, "active") ELSE episode

\* The rows after reactivate()'s transaction on row i.
Reactivated(i) ==
    LET rows == Superseded(episode, episode[i].subject, episode[i].type)
    IN  IF episode[i].status = "retracted" THEN Restatus(rows, {i}, "active") ELSE rows

\* The UPDATE of row i finds it retracted, ...
Reactivate(t) ==
    LET i == job[t].id
    IN  /\ At(t, "reactivate") /\ episode[i].status = "retracted"
        /\ Commit(t, Reactivated(i), [job[t] EXCEPT !.todo = MdSteps \o <<"link">>])
        /\ late' = (late \/ cache.valid)
        /\ doubled' = doubled \ {Key(i)}
        /\ UNCHANGED <<memoryMd, cache>>

\* ... or another request has reactivated it since the SELECT: what superseding
\* its key changed is committed, and MEMORY.md is not rewritten.
ReactivateLate(t) ==
    LET i == job[t].id
    IN  /\ At(t, "reactivate") /\ episode[i].status # "retracted"
        /\ Transact(t, Reactivated(i), IdleJob)
        /\ torn' = (torn \/ Reactivated(i) # episode)
        /\ late' = (late \/ cache.valid)
        /\ doubled' = doubled \ {Key(i)}
        /\ UNCHANGED <<memoryMd, cache>>

-----------------------------------------------------------------------------
\* Mutant: MEMORY.md is left as it was.
NoRegeneration(swept) == UNCHANGED <<memoryMd, torn>>

\* regenerate_memory_md, only if the sweep retracted anything.
Regenerate(swept) ==
    IF swept = {}
    THEN /\ torn' = (torn \/ \E t \in Threads : RewritesMd(t))
         /\ UNCHANGED memoryMd
    ELSE memoryMd' = MdRows \ swept /\ torn' = FALSE

\* The process stops anywhere and starts again: sweep_expired_memory retracts
\* the active episodes older than the retention preset, those up to id n.
Swept(n) == {i \in Active : i <= n}
Start(n) ==
    /\ episode' = Restatus(episode, Swept(n), "retracted")
    /\ cache' = [valid |-> FALSE, ids |-> {}] /\ late' = FALSE
    /\ job'   = [t \in Threads |-> IdleJob]
    /\ UNCHANGED doubled

Restart(n) == Start(n) /\ Regenerate(Swept(n))

\* The start stopped between the sweep and the rewrite, or the rewrite raised.
RestartTorn(n) == Start(n) /\ Swept(n) # {} /\ torn' = TRUE /\ UNCHANGED memoryMd

Init ==
    /\ episode = <<>> /\ memoryMd = {}
    /\ cache = [valid |-> FALSE, ids |-> {}]
    /\ job = [t \in Threads |-> IdleJob]
    /\ doubled = {} /\ torn = FALSE /\ late = FALSE

TurnStep(t) ==
    \/ \E s \in Subjects, ty \in Types : Remember(t, s, ty) \/ Extract(t, s, ty)
    \/ \E s \in Subjects : MatchNothing(t, s)
    \/ \E i \in Ids : Match(t, i)
    \/ \E ty \in Types : RetractType(t, ty)
    \/ \E rows \in ByRecency : RecallRows(t, rows)
    \/ RetractById(t) \/ Ask(t) \/ SkipRecall(t) \/ RecallCached(t) \/ StoreRecall(t)
    \/ ExtractNothing(t) \/ ClearCache(t)

Next ==
    \/ \E t \in Turns : TurnStep(t)
    \/ \E t \in Requests :
          \/ \E i \in Ids : Approve(t, i) \/ Reject(t, i) \/ FindRetracted(t, i)
          \/ Reactivate(t) \/ ReactivateLate(t)
    \/ \E t \in Threads : SelectActive(t) \/ WriteFile(t) \/ WriteFileFails(t) \/ LinkNode(t)
    \/ \E n \in 0 .. Len(episode) : Restart(n) \/ RestartTorn(n)

Spec == Init /\ [][Next]_vars
-----------------------------------------------------------------------------
(* Properties                                                              *)

Statuses == {"active", "pending", "superseded", "retracted"}
Steps    == {"select", "file", "clear", "link", "recall", "store", "extract", "retract",
             "reactivate"}

\* Every variable has its type, and the cache respects the LIMIT.
TypeOK ==
    /\ episode \in Seq([subject : Subjects, type : Types, status : Statuses])
    /\ Len(episode) <= MaxRow
    /\ memoryMd \subseteq Ids
    /\ cache \in [valid : BOOLEAN, ids : SUBSET Ids]
    /\ Cardinality(cache.ids) <= RecencyLimit
    /\ doubled \subseteq Subjects \X Types
    /\ torn \in BOOLEAN /\ late \in BOOLEAN
    /\ job \in [Threads -> [todo : Seq(Steps), id : Ids \cup {0},
                            subject : Subjects \cup {"none"}, types : SUBSET Types,
                            ids : SUBSET Ids, raced : BOOLEAN]]

\* MEMORY.md lists exactly the active episodes once no writer is under way,
\* after every kind of write and after the retention sweep, unless since the
\* last one that succeeded alone a rewrite overlapped another, failed (which is
\* only logged), was cut short by a crash, or was left out by a reactivation
\* that came second; the next write repairs it.
MemoryMdCurrent ==
    ((\A t \in Threads : ~RewritesMd(t)) /\ ~torn) => memoryMd = Active

\* At most one episode of a subject and type is active, whatever interleaves,
\* but for the one case approve() documents: approving beside an active one,
\* until the next insert or reactivation of that subject.
OneActive ==
    \A i, j \in Active : (Key(i) = Key(j) /\ Key(i) \notin doubled) => i = j

\* The UPDATEs of a reactivation of i's key whose episode another reactivation
\* has brought back since it was selected.
CameSecond(i) ==
    \E t \in Requests : /\ At(t, "reactivate") /\ ~At(t, "reactivate")'
                        /\ episode[job[t].id].status # "retracted" /\ Key(job[t].id) = Key(i)

\* An episode is superseded only by another that is active afterwards: no
\* step retires the only live record of a subject and leaves none, but one: of
\* two overlapping reactivations of an episode the second may retire the row
\* the first has brought back.
SupersededReplaced ==
    [][\A i \in Ids :
          (episode[i].status = "active" /\ episode'[i].status = "superseded")
          => \/ \E j \in DOMAIN episode' : /\ episode'[j].status = "active"
                                           /\ episode'[j].subject = episode[i].subject
                                           /\ episode'[j].type = episode[i].type
             \/ CameSecond(i)]_vars

\* The audit trail: rows are never deleted or rewritten, and a status changes
\* only along the documented lifecycle; a superseded row never comes back.
MovesTo(s) == CASE s = "pending"   -> {"pending", "active", "retracted"}
                [] s = "active"    -> {"active", "superseded", "retracted"}
                [] s = "retracted" -> {"retracted", "active"}
                [] OTHER           -> {s}
Lifecycle ==
    [][\A i \in Ids :
          /\ i \in DOMAIN episode'
          /\ episode'[i].subject = episode[i].subject /\ episode'[i].type = episode[i].type
          /\ episode'[i].status \in MovesTo(episode[i].status)]_vars

\* What a turn recalls from the cache is what by_recency would return, unless
\* a request changed the episodes or another turn did while the cache was
\* being filled.
RecencyCurrent ==
    ((\A t \in Threads : ~Has(t, "clear")) /\ cache.valid /\ ~late)
    => cache.ids \in ByRecency

\* The comment on _recency_cache: it is "Cleared whenever an insert/retract
\* happens anywhere", "never serving stale data".
RecencyNeverStale ==
    ((\A t \in Threads : ~Has(t, "clear")) /\ cache.valid) => cache.ids \subseteq Active
=============================================================================
