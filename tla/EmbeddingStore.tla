--------------------------- MODULE EmbeddingStore ---------------------------
(***************************************************************************)
(* The per-model embedding vectors of MemoryManager (memory_manager.py):   *)
(* each embedded table keeps one vector per row in its `embedding` column, *)
(* a provenance row names the model the column belongs to, and an archive  *)
(* keeps the vectors of every other model.  Replacing the embedding source *)
(* swaps column and archive; a manual re-embed fills the rows left empty.  *)
(*                                                                         *)
(* A vector is a record of the model that computed it and of the text it   *)
(* was computed from: what the properties tell apart, and what the code    *)
(* does not store next to the vector.                                      *)
(*                                                                         *)
(* Threads: writers (index_document, add_chat_turn, an episode insert)     *)
(* compute the vector before they take self._lock; re-embed requests hold  *)
(* the lock over all their embed calls but read self._embed_fn at every    *)
(* row and set the stale flag after the lock is released; the one switch   *)
(* at a time (main.py's _runtime_switch_lock) writes self._embed_fn and    *)
(* self._embedding_model_name without the lock.                            *)
(***************************************************************************)
EXTENDS Integers, FiniteSets

CONSTANTS
    Stores,           \* the embedded tables modelled, see StoresAssumption
    Models,           \* embedding models
    Texts,            \* row contents the properties tell apart
    MaxRow,           \* bound: rows ever inserted into one table
    Writers,          \* threads inside a write
    Requests,         \* re-embed requests
    AbortAfter,       \* _REEMBED_ABORT_AFTER_CONSECUTIVE_FAILURES
    QuiescentSwitch,  \* TRUE: no write or re-embed overlaps a switch
    CleanReembed,     \* TRUE: re-embedding a table that has no provenance row
                      \*       fills all of its rows or none
    NoModel,          \* None as a model name or embed_fn; no provenance row
    NoText            \* the row does not exist

ASSUME StoresAssumption == Stores \subseteq {"corpus", "episodes", "chat_turns"}
ASSUME BoundsAssumption == MaxRow \in Nat /\ AbortAfter \in Nat \ {0}
ASSUME RegimeAssumption == QuiescentSwitch \in BOOLEAN /\ CleanReembed \in BOOLEAN
ASSUME NullAssumption == NoModel \notin Models /\ NoText \notin Texts

VARIABLES
    text,     \* text[s][i]: content of row i of table s
    nextId,   \* AUTOINCREMENT counter of each table
    column,   \* column[s][i]: the `embedding` column
    archive,  \* archive[s][i][m]: embedding_archive
    prov,     \* embedding_provenance: model and complete
    fn,       \* self._embed_fn, by the model it calls
    name,     \* self._embedding_model_name
    heldFn,   \* embed_fn held by the current controller's episode writer
    stale,    \* _corpus_stale, _chat_turns_stale (never set for episodes)
    switch,   \* progress of the switch: phase and target
    write,    \* write[w]: the write thread w is in
    reembed   \* reembed[q]: progress of re-embed request q

db     == <<text, nextId, column, archive, prov>>
source == <<fn, name, heldFn, switch>>
vars   == <<db, source, stale, write, reembed>>

Ids    == 1 .. MaxRow
NoVec  == [model |-> NoModel, text |-> NoText]
Vector == [model : Models, text : Texts]

Seeded == Stores \ {"episodes"}      \* stores whose writes seed provenance
Manual == Stores \ {"episodes"}      \* stores only re-embedded on request

Present(s)  == {i \in Ids : text[s][i] # NoText}
HasProv(s)  == prov[s].model # NoModel
Unfilled(s) == {i \in Present(s) : column[s][i] = NoVec}

\* Mutant: the lock is not held over the embed calls.
NoLock == TRUE

LockFree == \A q \in Requests : reembed[q].phase # "rows"
Quiet    == /\ \A w \in Writers : write[w].phase = "idle"
            /\ \A q \in Requests : reembed[q].phase = "idle"

-----------------------------------------------------------------------------
(* The provenance check and the swap.  m is the active model.              *)

Mismatch(s, m) == HasProv(s) /\ prov[s].model # m

\* Mutant: a row without an archived vector counts as covered.
GapsUnseen(s, m) == {}

\* Rows that have a vector now and none archived for m.
Gaps(s, m) == {i \in Present(s) : column[s][i] # NoVec /\ archive[s][i][m] = NoVec}

\* Mutant: the column is archived under the model switched to.
ArchiveUnderNew(s, m) ==
    IF Mismatch(s, m)
    THEN [i \in Ids |-> IF column[s][i] = NoVec THEN archive[s][i]
                        ELSE [archive[s][i] EXCEPT ![m] = column[s][i]]]
    ELSE archive[s]

\* Mutant: the column is overwritten without being archived.
ArchiveNothing(s, m) == archive[s]

SwapArchive(s, m) ==
    IF Mismatch(s, m)
    THEN [i \in Ids |-> IF column[s][i] = NoVec THEN archive[s][i]
                        ELSE [archive[s][i] EXCEPT ![prov[s].model] = column[s][i]]]
    ELSE archive[s]

SwapColumn(s, m) ==
    IF Mismatch(s, m)
    THEN [i \in Ids |-> IF i \in Present(s) THEN archive[s][i][m] ELSE NoVec]
    ELSE column[s]

SwapComplete(s, m) == IF Mismatch(s, m) THEN Gaps(s, m) = {} ELSE prov[s].complete

\* The rows the check embeds itself: an incomplete episodes store's empty ones.
AutoFill(s, m) ==
    IF s = "episodes" /\ HasProv(s) /\ ~SwapComplete(s, m)
    THEN {i \in Present(s) : SwapColumn(s, m)[i] = NoVec}
    ELSE {}

\* A re-embed pass over rows, in id order, may fail on the rows F: after
\* AbortAfter failures in a row every later row counts as failed.
PassFailures(rows) ==
    {F \in SUBSET rows :
        \A i \in F :
            LET upTo == {k \in rows : k <= i}
                run  == {k \in upTo : \A j \in upTo : k <= j => j \in F}
            IN  Cardinality(run) >= AbortAfter => {k \in rows : k > i} \subseteq F}

CheckColumn(s, m, failed) ==
    [i \in Ids |-> IF i \in AutoFill(s, m) \ failed
                   THEN [model |-> m, text |-> text[s][i]]
                   ELSE SwapColumn(s, m)[i]]

\* Mutant: the swap leaves the provenance row as it was.
ProvUnchanged(s, m, failed) == prov[s]

\* Mutant: the episodes fill records complete although rows failed.
FillAlwaysCompletes(s, m, failed) ==
    IF HasProv(s) THEN [model    |-> m,
                        complete |-> SwapComplete(s, m) \/ s = "episodes"]
    ELSE prov[s]

\* A table with vectors and no provenance row is taken to be m's.
CheckProv(s, m, failed) ==
    IF HasProv(s)
    THEN [model    |-> m,
          complete |-> SwapComplete(s, m) \/ (s = "episodes" /\ failed = {})]
    ELSE IF \E i \in Ids : column[s][i] # NoVec
    THEN [model |-> m, complete |-> TRUE]
    ELSE prov[s]

\* Mutant: the check never raises the flag.
NeverStale(s, m, old) == FALSE

\* Mutant: the check leaves the flag of an earlier model.
StaleKept(s, m, old) == old

CheckStale(s, m, old) ==
    IF s \in Manual /\ HasProv(s) THEN ~SwapComplete(s, m) ELSE old

\* _check_embedding_provenance with active model m; old: the stale flags before.
\* The lock is held throughout and each store commits on its own.
CheckProvenance(m, old) ==
    \E failed \in PassFailures(UNION {AutoFill(s, m) : s \in Stores}) :
        /\ column'  = [s \in Stores |-> CheckColumn(s, m, failed)]
        /\ archive' = [s \in Stores |-> SwapArchive(s, m)]
        /\ prov'    = [s \in Stores |-> CheckProv(s, m, failed)]
        /\ stale'   = [s \in Stores |-> CheckStale(s, m, old[s])]
        /\ UNCHANGED <<text, nextId>>

-----------------------------------------------------------------------------
(* set_embedding_source, then the controller rebuilt around the new source *)

IdleSwitch == [phase |-> "idle", model |-> NoModel]

SetEmbedFn(m) ==
    /\ switch.phase = "idle"
    /\ QuiescentSwitch => Quiet
    /\ fn' = m
    /\ switch' = [phase |-> "name", model |-> m]
    /\ UNCHANGED <<db, name, heldFn, stale, write, reembed>>

SetModelName ==
    /\ switch.phase = "name"
    /\ name' = switch.model
    /\ switch' = [switch EXCEPT !.phase = IF switch.model = NoModel
                                          THEN "build" ELSE "check"]
    /\ UNCHANGED <<db, fn, heldFn, stale, write, reembed>>

SwitchCheck ==
    /\ switch.phase = "check"
    /\ LockFree
    /\ CheckProvenance(switch.model, stale)
    /\ switch' = [switch EXCEPT !.phase = "build"]
    /\ UNCHANGED <<fn, name, heldFn, write, reembed>>

BuildController ==
    /\ switch.phase = "build"
    /\ heldFn' = fn
    /\ switch' = IdleSwitch
    /\ UNCHANGED <<db, fn, name, stale, write, reembed>>

-----------------------------------------------------------------------------
(* Writes: the vector is computed first, then stored under the lock.       *)

IdleWrite == [phase |-> "idle", store |-> "none", text |-> NoText, vec |-> NoVec]

SourceOf(s) == IF s = "episodes" THEN heldFn ELSE fn

\* The embed call: it fails, or returns a vector of the source read now.
Embed(w, s, t) ==
    /\ write[w].phase = "idle"
    /\ QuiescentSwitch => switch.phase = "idle"
    /\ \E v \in {NoVec} \cup
               {[model |-> m, text |-> t] : m \in {SourceOf(s)} \cap Models} :
          write' = [write EXCEPT ![w] =
                       [phase |-> "embedded", store |-> s, text |-> t, vec |-> v]]
    /\ UNCHANGED <<db, source, stale, reembed>>

\* _maybe_seed_*_provenance, in the transaction of a write that stores v.
SeedProv(s, v) ==
    prov' = IF s \in Seeded /\ v # NoVec /\ ~HasProv(s) /\ name # NoModel
            THEN [prov EXCEPT ![s] = [model |-> name, complete |-> TRUE]]
            ELSE prov

Insert(w) ==
    LET s == write[w].store
        i == nextId[s]
        v == write[w].vec
    IN  /\ write[w].phase = "embedded"
        /\ LockFree
        /\ i \in Ids                                   \* bound MaxRow
        /\ text'   = [text   EXCEPT ![s][i] = write[w].text]
        /\ column' = [column EXCEPT ![s][i] = v]
        /\ nextId' = [nextId EXCEPT ![s] = i + 1]
        /\ SeedProv(s, v)
        /\ write'  = [write EXCEPT ![w] = IdleWrite]
        /\ UNCHANGED <<archive, source, stale, reembed>>

\* Mutant: the archived vectors outlive the row or the text they belong to.
KeptArchive(s, rows) == archive[s]

\* The archived vectors of rows are dropped.
ClearedArchive(s, rows) ==
    [i \in Ids |-> IF i \in rows THEN [m \in Models |-> NoVec] ELSE archive[s][i]]

\* index_document on a path already indexed as row i.
Reindex(w, i) ==
    LET s == write[w].store
        v == write[w].vec
    IN  /\ write[w].phase = "embedded"
        /\ s = "corpus"
        /\ LockFree
        /\ i \in Present(s)
        /\ write' = [write EXCEPT ![w] = IdleWrite]
        /\ IF text[s][i] = write[w].text               \* content hash unchanged
           THEN UNCHANGED <<text, column, archive, prov>>
           ELSE /\ text'    = [text EXCEPT ![s][i] = write[w].text]
                /\ column'  = [column EXCEPT ![s][i] = v]
                /\ archive' = [archive EXCEPT ![s] = ClearedArchive(s, {i})]
                /\ SeedProv(s, v)
        /\ UNCHANGED <<nextId, source, stale, reembed>>

\* remove_document; delete_conversation and the retention sweep on chat_turns.
\* The AFTER DELETE trigger drops the archived vectors.
Delete(s, rows) ==
    /\ s \in {"corpus", "chat_turns"}
    /\ rows # {} /\ rows \subseteq Present(s)
    /\ s = "corpus" => Cardinality(rows) = 1
    /\ LockFree
    /\ text'    = [text EXCEPT ![s] = [i \in Ids |-> IF i \in rows THEN NoText ELSE @[i]]]
    /\ column'  = [column EXCEPT ![s] = [i \in Ids |-> IF i \in rows THEN NoVec ELSE @[i]]]
    /\ archive' = [archive EXCEPT ![s] = ClearedArchive(s, rows)]
    /\ UNCHANGED <<nextId, prov, source, stale, write, reembed>>

-----------------------------------------------------------------------------
(* reembed_corpus, reembed_chat_turns, reembed_episodes                    *)

IdleReembed == [phase |-> "idle", store |-> "none", todo |-> {},
                done |-> [i \in Ids |-> NoModel], failed |-> {}, streak |-> 0, flag |-> FALSE]

StartReembed(q, s) ==
    /\ reembed[q].phase = "idle"
    /\ QuiescentSwitch => switch.phase = "idle"
    /\ fn # NoModel                                    \* else RuntimeError
    /\ LockFree
    /\ reembed' = [reembed EXCEPT ![q] =
                     [IdleReembed EXCEPT !.phase = "rows", !.store = s,
                                         !.todo = Unfilled(s)]]
    /\ UNCHANGED <<db, source, stale, write>>

NextRow(q, i) ==
    /\ reembed[q].phase = "rows"
    /\ i \in reembed[q].todo
    /\ \A k \in reembed[q].todo : i <= k

SeedlessClean(q) == CleanReembed /\ ~HasProv(reembed[q].store)

EmbedRow(q, i) ==
    /\ NextRow(q, i)
    /\ fn # NoModel
    /\ SeedlessClean(q) => reembed[q].failed = {}
    /\ reembed' = [reembed EXCEPT
                     ![q].todo = @ \ {i}, ![q].streak = 0, ![q].done[i] = fn]
    /\ UNCHANGED <<db, source, stale, write>>

\* Every attempt of _embed_with_retry failed, or the dimension was wrong.
FailRow(q, i) ==
    LET aborts == reembed[q].streak + 1 >= AbortAfter
    IN  /\ NextRow(q, i)
        /\ SeedlessClean(q) => \A k \in Ids : reembed[q].done[k] = NoModel
        /\ reembed' = [reembed EXCEPT
                         ![q].todo   = IF aborts THEN {} ELSE @ \ {i},
                         ![q].failed = @ \cup IF aborts THEN reembed[q].todo ELSE {i},
                         ![q].streak = @ + 1]
        /\ UNCHANGED <<db, source, stale, write>>

\* The stale result of _finish_store_reembed_locked.
StillStale(q) ==
    LET s == reembed[q].store
    IN  /\ reembed[q].failed # {}
        /\ HasProv(s)
        /\ prov[s].model # name \/ ~prov[s].complete

\* _finish_store_reembed_locked, the commit, and the release of the lock.
FinishReembed(q) ==
    LET s    == reembed[q].store
        done == reembed[q].done
    IN  /\ reembed[q].phase = "rows"
        /\ reembed[q].todo = {}
        /\ reembed[q].failed = {} => name # NoModel
        /\ column' = [column EXCEPT ![s] =
                        [i \in Ids |-> IF done[i] = NoModel THEN @[i]
                                       ELSE [model |-> done[i], text |-> text[s][i]]]]
        /\ prov' = IF reembed[q].failed = {}
                   THEN [prov EXCEPT ![s] = [model |-> name, complete |-> TRUE]]
                   ELSE prov
        /\ reembed' = [reembed EXCEPT ![q] =
                         IF s \in Manual
                         THEN [IdleReembed EXCEPT !.phase = "flag", !.store = s,
                                                  !.flag = StillStale(q)]
                         ELSE IdleReembed]
        /\ UNCHANGED <<text, nextId, archive, source, stale, write>>

\* The provenance upsert with no model name raises: the rows roll back.
ReembedRaises(q) ==
    /\ reembed[q].phase = "rows"
    /\ reembed[q].todo = {} /\ reembed[q].failed = {}
    /\ name = NoModel
    /\ reembed' = [reembed EXCEPT ![q] = IdleReembed]
    /\ UNCHANGED <<db, source, stale, write>>

\* self._corpus_stale = stale, after the lock is released.
SetStaleFlag(q) ==
    /\ reembed[q].phase = "flag"
    /\ stale' = [stale EXCEPT ![reembed[q].store] = reembed[q].flag]
    /\ reembed' = [reembed EXCEPT ![q] = IdleReembed]
    /\ UNCHANGED <<db, source, write>>

-----------------------------------------------------------------------------
\* The process stops anywhere and MemoryManager.__init__ runs on the database
\* with whatever model is configured then; uncommitted work is lost.
Restart(m) ==
    /\ fn' = m /\ name' = m /\ heldFn' = m
    /\ switch'  = IdleSwitch
    /\ write'   = [w \in Writers |-> IdleWrite]
    /\ reembed' = [q \in Requests |-> IdleReembed]
    /\ IF m = NoModel
       THEN stale' = [s \in Stores |-> FALSE] /\ UNCHANGED db
       ELSE CheckProvenance(m, [s \in Stores |-> FALSE])

\* A new database, configured with some model or none.
Init ==
    /\ text    = [s \in Stores |-> [i \in Ids |-> NoText]]
    /\ nextId  = [s \in Stores |-> 1]
    /\ column  = [s \in Stores |-> [i \in Ids |-> NoVec]]
    /\ archive = [s \in Stores |-> [i \in Ids |-> [m \in Models |-> NoVec]]]
    /\ prov    = [s \in Stores |-> [model |-> NoModel, complete |-> FALSE]]
    /\ fn \in Models \cup {NoModel}
    /\ name = fn /\ heldFn = fn
    /\ stale   = [s \in Stores |-> FALSE]
    /\ switch  = IdleSwitch
    /\ write   = [w \in Writers |-> IdleWrite]
    /\ reembed = [q \in Requests |-> IdleReembed]

Next ==
    \/ \E m \in Models \cup {NoModel} : SetEmbedFn(m) \/ Restart(m)
    \/ SetModelName \/ SwitchCheck \/ BuildController
    \/ \E w \in Writers :
          \/ \E s \in Stores, t \in Texts : Embed(w, s, t)
          \/ Insert(w)
          \/ \E i \in Ids : Reindex(w, i)
    \/ \E s \in Stores, rows \in SUBSET Ids : Delete(s, rows)
    \/ \E q \in Requests :
          \/ \E s \in Stores : StartReembed(q, s)
          \/ \E i \in Ids : EmbedRow(q, i) \/ FailRow(q, i)
          \/ FinishReembed(q) \/ ReembedRaises(q) \/ SetStaleFlag(q)

Spec == Init /\ [][Next]_vars

-----------------------------------------------------------------------------
(* Properties                                                              *)

\* Every variable has its type.
TypeOK ==
    /\ text    \in [Stores -> [Ids -> Texts \cup {NoText}]]
    /\ nextId  \in [Stores -> 1 .. MaxRow + 1]
    /\ column  \in [Stores -> [Ids -> Vector \cup {NoVec}]]
    /\ archive \in [Stores -> [Ids -> [Models -> Vector \cup {NoVec}]]]
    /\ prov    \in [Stores -> [model : Models \cup {NoModel}, complete : BOOLEAN]]
    /\ fn      \in Models \cup {NoModel}
    /\ name    \in Models \cup {NoModel}
    /\ heldFn  \in Models \cup {NoModel}
    /\ stale   \in [Stores -> BOOLEAN]
    /\ switch  \in [phase : {"idle", "name", "check", "build"},
                    model : Models \cup {NoModel}]
    /\ write   \in [Writers -> [phase : {"idle", "embedded"},
                                store : Stores \cup {"none"},
                                text  : Texts \cup {NoText},
                                vec   : Vector \cup {NoVec}]]
    /\ reembed \in [Requests -> [phase  : {"idle", "rows", "flag"},
                                 store  : Stores \cup {"none"},
                                 todo   : SUBSET Ids,
                                 done   : [Ids -> Models \cup {NoModel}],
                                 failed : SUBSET Ids,
                                 streak : Nat,
                                 flag   : BOOLEAN]]

\* Whatever overlaps whatever, a vector in the column or in the archive was
\* computed from the text its row holds now, and a deleted row has none left:
\* re-indexing clears the archive, the delete trigger does, and a re-embed
\* reads its texts under the lock it writes the vectors under.
VectorsCurrent ==
    \A s \in Stores, i \in Ids :
        /\ column[s][i] # NoVec => column[s][i].text = text[s][i]
        /\ \A m \in Models :
              archive[s][i][m] # NoVec => archive[s][i][m].text = text[s][i]

\* "The embedding column always holds the vectors of the model named in that
\* store's embedding_provenance row; other models' vectors live in
\* embedding_archive", for the stores whose writes seed that row.
ProvenanceHonest ==
    \A s \in Seeded, i \in Ids :
        /\ column[s][i] # NoVec => HasProv(s) /\ column[s][i].model = prov[s].model
        /\ \A m \in Models :
              archive[s][i][m] # NoVec => archive[s][i][m].model = m

\* The first half of it as each write must keep it, whatever overlaps: a text
\* stored while no switch is under way is stored with a vector of the model its
\* table's provenance row names, or with none.
StoredUnderItsModel ==
    [][switch.phase = "idle" =>
          \A s \in Seeded, i \in Ids :
              (HasProv(s)' /\ text'[s][i] # text[s][i] /\ column'[s][i] # NoVec) =>
                  column'[s][i].model = prov'[s].model]_vars

\* When a semantic search may use a store (embedding source configured, flag
\* clear, no switch under way), every vector it scores is of the source's
\* model and no model change has left rows to fill.
SearchSound ==
    \A s \in Seeded :
        (switch.phase = "idle" /\ fn # NoModel /\ ~stale[s]) =>
            /\ \A i \in Ids : column[s][i] # NoVec => column[s][i].model = fn
            /\ HasProv(s) => prov[s] = [model |-> fn, complete |-> TRUE]

\* The loss of a vector by a row that keeps its text, and a record of the store
\* as complete while the provenance row keeps its model.
Loses(s, i) == /\ text[s][i] # NoText /\ text'[s][i] = text[s][i]
               /\ column[s][i] # NoVec /\ column'[s][i] = NoVec
Completed(s) == /\ HasProv(s) /\ prov'[s].model = prov[s].model
                /\ ~prov[s].complete /\ prov'[s].complete

GapStep ==
    \A s \in Stores : /\ (\E i \in Ids : Loses(s, i)) => ~prov'[s].complete
                      /\ Completed(s) => Unfilled(s)' = {}

\* "complete: 0 while a store has gaps left by a model change": the step that
\* takes the vector of a row leaves the store recorded incomplete, and under the
\* same model it is recorded complete again only when no row is empty, whatever
\* fails, overlaps or restarts meanwhile.  Not covered: a second change of model
\* before the gaps are filled, whose check finds the rows empty and records the
\* store complete with them.
GapsRecorded == [][GapStep]_vars

\* The same promise for episodes, whose inserts never seed the provenance row.
EpisodesHonest ==
    \A s \in Stores \ Seeded, i \in Ids :
        (HasProv(s) /\ column[s][i] # NoVec) => column[s][i].model = prov[s].model

\* The models whose vector of a row's text can be found again: the column's
\* under the model of the provenance row, every other's in the archive.
Kept(s, i) ==
    {m \in Models :
        (IF prov[s].model = m THEN column[s][i] ELSE archive[s][i][m])
        = [model |-> m, text |-> text[s][i]]}

Promise == INSTANCE ModelVectors WITH kept <- [s \in Stores |-> [i \in Ids |-> Kept(s, i)]]

\* Once computed, a model's vector of a row stays to be found under that model
\* for as long as the row keeps its text: a switch archives it, switching back
\* costs no embed call, and neither a re-embed nor a check overwrites it.
NoVectorLost == Promise!Spec
=============================================================================
