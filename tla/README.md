# localist in TLA+

TLA+ models of localist (`src/README.md`), a local-first research assistant: a FastAPI backend
(`src/backend/src/localist`), a Svelte UI (`src/localist-ui`), a tool server and one SQLite
database. The models are written from the source. TLC checks them on small instances. TLAPS proves
for all instances every invariant and action property the passing runs check, and that the
embedding store and the task stream implement their abstract specifications; liveness is only
model-checked. `PROJECT.json` maps every definition to the
lines it stands for and lists components, runs, mutants, hazards, findings and theorems.

    tlc -workers 2 -config EmbeddingStore_quiet.cfg MCEmbeddingStore
    tlapm EmbeddingStoreProofs.tla

Each run takes at most three minutes with two workers.

Paths below are relative to `src/backend/src/localist/` unless they start with `src/`.

## 1. The system

A task goes from the UI to `post_task_stream` (`main.py`), which runs routing and
`ControllerAgent` (`controller_agent.py`) in worker threads and streams status, tokens
and the answer back over SSE. The controller plans (`planner.py`), fetches
context from the wiki index and from episodic memory (`memory_manager.py`), calls tools
(`mcp_tool_dispatcher.py`), runs one agent (`conversational_agent.py`, `wiki_agent.py`) and
then memory hooks (`episodic_extractor.py`). The settings page replaces the
runtime client, its chat model and the embedding source while this runs.

The hard part is that one process serves everything without a common order:
handlers on the event loop, worker threads behind them, one database lock that covers
single methods only, locks of short-lived writer objects that exclude nobody, files
next to the database, several derived copies (caches, index, graph, `MEMORY.md`, `.env`,
UI stores), and a local model that fails or takes half a minute at any call.

| Component | State | Operations | Who interacts | What makes it correct |
|---|---|---|---|---|
| Per-model embedding store | `embedding` columns of `document_index`, `chat_turns`, `episodes`; `embedding_archive`, `embedding_provenance`, stale flags, `_embed_fn` | write, re-index, delete, switch source, automatic and manual re-embed, start | writers, re-embed requests and switches overlap | one model per column, no vector of an older text, a search compares like with like, switching loses nothing |
| Wiki corpus | pages, `.snapshots/`, `index.md`, `document_index`, `retrieval_cache`, graph, `pending_diffs` | propose, apply, auto-apply, index, query, rebuild graph, start | nothing serialises Apply requests and turns; user edits files | derived copies follow the pages; an overwrite is snapshotted; "applied" is true |
| Episodic memory | `episodes`, `MEMORY.md`, recency cache | insert/supersede, retract, approve, reject, reactivate, recall, sweep | turns, review requests, start-up | one active episode per key, audit trail, review gate |
| Runtime switching | `Settings`, `.env`, client, controller, embedder, calibration | switch backend, pin model, set embedding model, re-embed and calibrate, poll and recover, start | requests queue on one lock, read state before it | client, controller, embedder, thresholds, settings and file agree; a user's choice survives |
| Task streaming | generator, worker, `event_queue`, SSE buffer, `chat_turns`, `tasksStore` | submit, route, stream, answer early, hooks, disconnect, reload | page, event loop and worker thread of each task | input gate, no lost answer, page status final, liveness |
| Planner | the last turn's tools | `route` | embedder, database, yes/no model calls | documented priority, whatever the services answer |
| Controller turn | `_persona_cache`, conversation memory, results | call tools, ground, recall, load persona, prompt, answer, retry, save, hooks | settings requests change name and files meanwhile | one effect per turn, no empty answer, failures shown as such |
| Tool dispatch, file tools | files and their turn-id sidecars | nine tools with fallbacks, research loop | MCP server, search providers | bounded retries, a retry repeats no effect |
| Session files, prompt, context profile | session files | add, pin, remove, build | controller | every slot within its ceiling, prompt and answer within the window |
| Working state | one row per conversation | read, infer, replace | overlapping turns | no lost update |
| Conversation store | `chat_turns`, titles | insert, list, delete, sweep | turns, UI | deletion is complete |
| Diff application | none | `apply_unified_diff` | wiki agent | a hunk lands where it matches or nowhere |
| Retrieval scores, BM25, calibration statistics | none | score, cut | controller, planner | floating point, see section 6 |
| UI switch and content stores | loading flags, lists | fetch and replace | user, backend | late answers do not overwrite newer ones |
| News, GitHub, Hacker News | daily snapshots | fetch, cache | UI, external sites | at most one snapshot a day |
| Tool server, desktop shell, packaging | none, processes | HTTP, OCR, files; start and stop | external | see section 6 |

## 2. Modules

The components share data only through narrow interfaces, so each module is checked on its own;
where one touches another it has that part's interface, abstracted: EpisodeMemory's graph hook
is WikiCorpus' `LinkEpisode`, RuntimeSwitch's `SetSource` is EmbeddingStore's
`SetEmbedFn`/`SetModelName`/`SwitchCheck`, TaskStream's `run` is the turn of TurnPipeline and its
`hooks` are the turn of EpisodeMemory. TurnPipeline composes three modules of operators.

    EmbeddingStore --implements--> ModelVectors      TurnPipeline --EXTENDS--> Planner
    TaskStream     --implements--> ChatTasks                                   ToolDispatch
    WikiCorpus, EpisodeMemory, RuntimeSwitch                                   PromptBuilder

    proofs   EmbeddingStoreRefinement --EXTENDS--> EmbeddingStoreProofs
             TurnPipelineProofs       --EXTENDS--> PlannerProofs
             WikiCorpusProofs, EpisodeMemoryProofs, RuntimeSwitchProofs, TaskStreamProofs

**EmbeddingStore** (`memory_manager.py`, the switch of `main.py`). A vector is a record
of the model and the text it was computed from, which the code does not store. `column`,
`archive`, `prov` are the tables; `CheckProvenance` is `_check_embedding_provenance` whole,
with the automatic re-embed of episodes and its abort after consecutive failures (`PassFailures`). A
write is two steps, `Embed` outside the lock and `Insert`/`Reindex` inside; a manual re-embed is
one step per row under the lock, and the stale flag is a step after it (`SetStaleFlag`). A switch is four
steps, because `_embed_fn`, the name, the check and the rebuilt controller are not one
transaction. `Restart` is a crash and the next start.

**ModelVectors** is what those tables promise together, without columns, archives or
provenance: for each row, the set of models whose vector of its present text is kept. A row gets a
new text, or disappears, or gains one model's vector; the set never shrinks otherwise. EmbeddingStore
refines it (`NoVectorLost == Promise!Spec`) under the mapping `Kept`: the vector of model *m* is
the column's if the provenance row names *m* and the archive's if not, and it counts if it is of
*m* and of the present text. A switch, which moves a whole column into the archive and another
one back, must map to a stutter or, when its check re-embeds episodes, to `Fill`.

**WikiCorpus** (`wiki_agent.py`, `build_graph.py`, index, cache and diff status of
`memory_manager.py`). A page is a set of blocks, a diff replaces a block. Every apply thread goes
through existence check, snapshot, read, write, index, two-pass graph rebuild, `index.md` and the
diff's status, each a step; `LoadRows`/`WriteCache` are the two ends of a query. Every call may fail. What the code
catches and logs goes on without it: a snapshot (`bare`), an index call (`MissRow`), the graph rebuild (`BreakGraph`,
which leaves old, no or some edges), the mark of a diff, and in an auto_apply run the write of a patched page
(`FailWrite`, which may leave the page cut short). What it does not catch ends the run (`Abandon`): a page that vanished
before it was read, the page a run creates, `logs.md`, `index.md`; the pages written before are then in neither index
nor graph (`Owe`). The start's own indexing may miss pages and its `build_graph` raise (`Restart`). `scope`, chosen in
the initial state and never changed, says which of the turns, threads, queries and episodes there are:
it bounds several instances in one run.

**EpisodeMemory** (`EpisodicMemoryWriter`, `episodic_extractor.py`, endpoints). A thread's
`todo` is the sequence of steps its operation still has: the transaction, then the `MEMORY.md`
select and write, then cache and graph hooks. Transactions are atomic, everything else
interleaves. A rewrite of `MEMORY.md` may fail, which is only logged (`WriteFileFails`). `BestMatches` is which episodes a retraction may hit, `Facts` what extraction may
propose.

**RuntimeSwitch** (`main.py`). The four settings requests, the second half of `POST
/memory/reembed` (measure, replace the thresholds, rebuild the controller) and the health poll, each from
its reads before the lock through its health checks to the commit; `_runtime_switch_lock` is FIFO. Health
answers are any of `Listings`, anew at every check. A row of `calibrated` is a model and the
model whose embedder produced the scores, which the code does not store. `Stop` is a
crash between any two steps, which leaves .env and the calibration rows; `Restart` is the next lifespan,
with its migration and recovery.

**TaskStream** (`_stream_task`, `handle_task_with_plan`, `tasks.ts`, `files.ts`). Three processes
per task: the generator (one step between two awaits; a yield waits for the connection's
buffer), the worker thread and the page's reader. `Break`, `BreakCleanly`, `Refuse` and `Reload`
are the ways a stream ends early; the worker thread goes on in all of them. A request that is
dropped before the server accepts it is taken never to arrive. The working state is the set of tasks
whose exchange it was built from; `persisted[t]` is the sequence of roles handed to
`_persist_chat_turn` for `t`, which logs a database error and does not keep the turn (`main.py:1811`): what is said of
the history below is said of what it is given.

**ChatTasks** is what the stream promises, without threads, queues, events and connections: a task is
asked once; its turns are given to the history once, the instruction before the answer, and none after it failed;
how it ended is decided once, "complete" if the answer is given and "failed" if it never is, unless
its connection breaks (`Lose`); only a reload forgets it (`Forget`). TaskStream refines it
(`PromiseKept == Promise!Spec`): `asked` are the tasks submitted, `here` those the page still shows,
`history` is `persisted`, `outcome` the page's status once it is final (`Ended`), `lost` the tasks
whose connection broke. An early answer, which the page shows before the hooks have run, must have been
given to the history when the page decides, and each event that arrives after the outcome must map to a stutter.

**Planner** (`planner.py`). `Route` is `_route_impl`: the first gate that claims the turn. A request is
the set of signals its text carries, one per keyword table, template score or
pattern, and the answers the embedder, the database and the yes/no model calls would give
(`Facts`); a gate is an operator from these to a plan or `NoPlan`, with its own copy of each guard
as in the code. The word lists themselves are data. `Pages` are the wiki files, `Stems` the pages the
graph knows: a pinned page need not be in the graph yet.

**ToolDispatch** (`mcp_tool_dispatcher.py`, `mcp_server/file_ops.py`). For each tool the set of
outcomes one run may have, an outcome being the set of `ToolResult`s with the tool name they
carry, because later steps decide by that name. `Research` is the search, gate, fetch, gate,
reformulate loop as a recursive function. `FileOp` changes the file: numbered versions on write,
one append per turn id of the sidecar, which keeps the newest ids only; the sidecar may be unreadable, or not be
written after its append; a reply may be lost before or after the server acted.

**PromptBuilder** (`prompt_builder.py`, `session_files.py`, `context_profile.py`). A text is its
length in characters. `AddFile`, `RemoveFile`, `Accepted` are the file cache; `FilesTokens`,
`SourcesTokens`, `EpisodesTokens`, `StateTokens`, `TurnsTokens` what each slot may take with its own way of
cutting (whole blocks, the last one cut, up to the first that overflows, oldest dropped). The instruction has no
ceiling, nor has the project's line: `Uncapped` (in TurnPipeline) is what they and the line breaks take. Running totals
are a recursive function (`Totals`), the three sources three applications of `Cite`.

**TurnPipeline** (`controller_agent.py`, `conversational_agent.py`, requests of `main.py`). One turn
after the other: `Submit` (routing), `Accept`, `CallTools`, `Gather` (grounding, corpus query,
recall), `ReadPersona`/`FetchPersona`, `Build`, `Reply` or `Propose`, perhaps `Retry` back to
`Gather`'s end, `Save`, `Ready` (early answer), `Hook`, `Finish`. `Rename` and `Invalidate` (two
steps), `Upload`, `Detach` and `Restart` happen between any two of them. What a
later step cannot read any more is forgotten at the step that reads it last. `scenario` plays the part of
WikiCorpus' `scope`.

Modules are written for proof: constants with named assumptions, one action per
operation, no RECURSIVE operator. Operators
marked `Mutant` are deviations of the definition next to them; each property of a passing run has
one that breaks it, so no property holds whatever the code does.

## 3. Runs

| Run | Bounds | Shows |
|---|---|---|
| `EmbeddingStore_quiet` | 2 models, 2 rows in each of `chat_turns` and `episodes`, 1 writer, 1 request, `QuiescentSwitch`, `CleanReembed` | `ProvenanceHonest`, `SearchSound`, `GapsRecorded`; refinement of ModelVectors (`NoVectorLost`) |
| `EmbeddingStore_races` | corpus, 2 texts, no restriction | `VectorsCurrent` under every overlap |
| `EmbeddingStore_inflight_write` | as races, clean re-embeds | finding: a write in flight over a switch stores a vector of the old model under the new one (`StoredUnderItsModel`) |
| `WikiCorpus_turns` | 2 turns of 5 diffs on 3 pages, one created, with crashes: `Edited` with a hand edit, `Failing` with a failed call, `Either` one turn with both; `Overlap`: 1 turn applied by 2 threads, a query; `Linked`: 1 turn, an episode | `IndexCurrent`, `EdgesCurrent`, `CacheCurrent`, `Snapshotted`, `AppliedIsWritten` |
| `WikiCorpus_episode_links` | 1 thread, 1 episode | finding: rebuilds delete episode edges |
| `EpisodeMemory_requests` | 1 subject, 2 types, 2 rows, a turn and two request threads, review gate on | the lifecycle and what is derived from it |
| `EpisodeMemory_recency` | the same, 3 rows, 1 request thread | finding: the recency cache serves retired episodes |
| `RuntimeSwitch_requests` | 2 backends, 2 chat and 2 embedding models, 2 concurrent requests, 2 `.env` files | consistency, choices kept, every request answered |
| `RuntimeSwitch_crossing` | the same, with an embedding model chosen for each backend | finding: an embedding-model request that crosses a backend switch files its vectors under the other backend's model |
| `TaskStream_turns` | 2 tasks, 1 chunk, 1 unread event, 1 fault | gate, history, shown answer, working state; refinement of ChatTasks (`PromiseKept`); input returns |
| `TurnPipeline_turns` | `alone`: every instruction of at most 2 signals with at most one answer of a service, and the conjunctions a gate asks for, 2 configurations; `two turns` with 1 change around them; `two edits` within one turn | `FilesAndUrlsHonoured`, `FailedSearchGrounded`, `PersonaNamed`, `PromptFits`, `AppendedOnce`, `LoggedOnce`, `NeverEmpty`; turns end |
| `TurnPipeline_saved` | 1 deferred write | finding: a substitute for the answer is saved as the user's file |

Why these bounds are enough: the hazards are between pairs (a write and a switch, two
applies, a poll and a switch, a task and its successor, a rename and a turn), on one key or row, and the second
row, page or type is there so that one of several can fail or be missed. `AbortAfter` 2 with 2
rows has an abort and a success; one unread event is where a full buffer and a
cancellation differ; one chunk is enough for "shown in part"; a page applied by two threads, then
listed and linked, has every step of both between the other's; one failed call, with the second page written before or
after it, leaves one page owed and the other not. In the planner a
priority conflict is between two gates, hence two signals; the gates that ask for three get theirs in `Wide`.
A blank answer is retried once, so one turn has a whole retry; the second turn is for what a turn leaves
behind (`lastTools`, the persona cache, the file and its turn ids), the second edit for a rename
with its file change or restart. `MaxResearch` 2 is a loop with a second round, `MaxVersions` 2 a file
whose names run out; the code has 3 and 10.
The prompt's ceilings are the code's own numbers but for the files' total, which is two full files instead of five;
headroom and window are smaller by the same 12,000 tokens. The file, source, episode and history lengths of the
instance overflow each ceiling, and one of its two instructions is longer than the spare. `HeadroomAssumption` asks that the ceilings of
all slots, with the history at its default, and an answer fit the headroom; the code's add up to 25,239 of 27,000,
which spares 1,761 for what has no ceiling. `MaxSidecar` 1 drops a turn id at the second append; the code keeps 50.
`MaxRow`, `AbortAfter`, `MaxRequests`, `MaxTokens`, `MaxInFlight`, `MaxFaults`, `MaxTurns`, `MaxEdits`,
`MaxResearch`, `MaxVersions`, `MaxSidecar`, and `hands` and `faults` of a scope are the only bounds, each in a guard.
Symmetry is used for models and texts in EmbeddingStore and for request threads in EpisodeMemory only, whose
runs have no liveness property (refinement and action properties are safety properties and symmetric).

**Regimes.** A property that holds with a reservation states it, either in the formula by a history
variable (`unsure`, `overlap`, `raced`, `stranded`, `stale`, `bare`, `batched`, `doubled`, `torn`, `late`, `crossed`, `broken`,
`reopened`, `unseen`: which states the exception covers is part of the claim) or by a constant: `QuiescentSwitch` (no write or re-embed
overlaps a switch), `CleanReembed` (re-embedding a table without a provenance row fills all its
rows or none), and in RuntimeSwitch the variable
`serial` (the user's requests do not overlap; polls always may). What happens without them is in section 5.

**Fairness.** Three runs need it. RuntimeSwitch: weak fairness of each thread's steps,
since health checks time out, worker threads return and `asyncio.Lock` wakes its waiters in
order; `Answered` would fail if any path left the lock held. TaskStream: weak fairness of one
action, "some connection, worker, generator or reader takes a step"; model and tool calls time
out, the loop polls every 50 ms and tasks have finitely many steps. TurnPipeline: weak fairness of
the turn's own steps, which run in a thread nothing cancels, each call with a timeout; `TurnEnds`
fails as soon as a blank answer may be retried again. The user, faults, edits and `Detach` are never fair.

Deadlock is checked wherever the system can always do something. In TaskStream and TurnPipeline
it is off: once all the tasks or turns of the instance are over, nothing is left to do.

## 4. Proofs

Eight modules hold the proofs, each from the ASSUMEs of the module it is about and for any values of its
constants. Where a theorem has a hypothesis of its own it is named here, and a run's instance satisfies it. Each
module starts with its inductive invariant and ends with the theorems; between them are lemmas on what the
operators compute and one per group of actions.

**EmbeddingStoreProofs.** `TypeCorrect`, `VectorsStayCurrent`: `TypeOK` and `VectorsCurrent` always hold,
whatever overlaps. `VectorsCurrent` is not inductive: a re-embed writes vectors of texts read rows ago, an
insert one computed earlier. `IInv` adds that ids from `nextId` on are unused (`FreshIds`), that a write in
flight carries the vector of its own text (`WriteInv`), that at most one re-embed is in its rows and all it has
embedded is still present (`LockInv`, the lock at work), and that the check runs for a model (`SwitchInv`).
`ProvenanceStaysHonest`, `SearchStaysSound`: with `QuiescentSwitch` and `CleanReembed`, each column holds the
vectors of the model its provenance names, and a store that may be searched holds only the query model's. `QInv`
adds to `IInv` that a switch runs alone (`SwitchAlone`), that whatever is under way is the present source's
(`UnderWay`), and how name, source and flags stand in each phase of the switch (`Active`).

**EmbeddingStoreRefinement**, under the same two hypotheses. `VectorsAreKept` is `NoVectorLost`: every step is a
step of ModelVectors or a stutter. `QInv` does not suffice: a row that is empty while the archive holds its
vector of the provenance row's own model would gain that model at the next switch. `RInv` adds `Unstranded`,
that there is no such row and nothing archived without a provenance row, and `Named`, that every provenance row
names the source in place, the episodes' too (theorem `RowsStayNamed`). A check leaves the models found for each
row as they were, but for the episodes it fills (`CheckKeeps`); the other steps are shown to be `Fill`, `Write`
or `Remove` from what they do to `Kept`. `GapsAreRecorded` (`GapsRecorded`) needs neither
hypothesis, so it holds whatever overlaps: `IInv` and `Covered`, that a pass accounts for every row that is empty
while it holds the lock.

**EpisodeMemoryProofs.** `TypeCorrect`, `CacheIsRecent`, `AtMostOneActive`, `AuditTrail` (`Lifecycle`), `MdCurrent`
and `NoneOrphaned` (`SupersededReplaced`), however turns and requests overlap. The strengthening is on the sequences
of steps still to do: `Shaped` says where a rewrite, a retraction, a cache store or an extraction may stand in one,
so that a cache made stale by a step has the `clear` that drops it still ahead (`CacheRead`). `SInv` adds for
`MdCurrent` that, unless `torn`, one rewrite of `MEMORY.md` at most is under way, on the rows as they are. A
transaction either leaves another row of the superseded key active (`Replaced`) or is that of a reactivation that
came second (`CameLate`).

**WikiCorpusProofs.** `TypeCorrect`, `IndexIsCurrent`, `CacheIsCurrent`, `EdgesAreCurrent`, `OverwrittenIsSnapshotted`,
`AppliedWasWritten`: for any pages, diffs, threads and scopes, hand edits, failed calls and crashes, without further
hypotheses. In `Inv`, `Formed` ties what a job still has to do to its phase, `Apart` says two jobs share only pages
known to be shared (`unsure`), `PagesCurrent` that a page is indexed, about to be or `stranded`, and what is about to be
overwritten is in a snapshot or `bare`, `GraphCurrent` what a lone job has made of the graph in each phase unless it is
`stale`. A run that raises strands what it wrote and did not
index, and leaves the graph stale if there is any (`AbandonBecomes`); a write that fails strands a page it cut short
(`FailBecomes`). `Sound` adds that a job is one turn's and that one
that wrote pages has landed one of its diffs (`Landed`), which is what a mark by page or by run rests on.

**RuntimeSwitchProofs.** `TypeCorrect` (with the lock's exclusion), `NothingHalfMoved` (`Together`),
`OnlyListed`, `SerialConsistent`, `ChoicesKept`, `EnvCurrent`. `IInv` holds however requests overlap: `Locked`
(who holds the lock and who is queued once), `Requests` (the steps of each kind and what it carries in them,
`Formed`; what it read still stands, `Coupled`) and `Joined` (controller, client and embedder agree but between
a new source and its commit). `SInv` is what a request relies on while no other user request runs (`Serially`):
the properties that carry `serial` in their formula follow from it. A pin may begin while a recovery is between its
plan and its `.env` line (`Met` says which backend it may disturb) and a recovery while a pin is (`Snapped`).

**TaskStreamProofs.** `TypeCorrect`, `InputGated`, `WorkingStateStands`, `AnswerShown`, `StreamKeepsPromise`.
Per task, `Life` keeps generator, worker and connection in step, `Early` queues the early answer once, `Flow` says
which events may follow which on the connection (`May`, `After`) and that the outcome is in flight or read
exactly if it was written, `Display` what the page shows. `Gated`: a task whose pipeline may still run and that
closed the gate is the only one (`Ahead`). `Counts`: a turn once counted in a working state is in the current
one and in each that a task behind the gate has read. `SInv` adds for each task its `Story`, on which history,
stream and page agree: only the instruction is given to the history while the answer is `Pending`, both turns once it is
`Stored`; a `done` in flight means both are; an `error` in flight means the answer is not, and that nothing will
store it any more (`Sealed`); the page's status says the same unless the connection broke. `SInv` is inductive,
one lemma per action. `AnswerShown` (`AnswerKept`) follows from it. For `StreamKeepsPromise` (`PromiseKept`)
each step is an `Ask`, `Store`, `Decide`, `Lose`, `Forget` or a stutter: `Story` is why a reader that gets
`done` or `error` decides what the history says, and why the history is still the same if it decided before.

**PlannerProofs.** `RouteIsPlan`: some gate claims every turn, and what it returns is a plan; the first that
claims is the minimum of a well-founded order. `FileOrUrlRouted`: the eleven gates before `_priority3_tool`
leave an instruction with a file or a URL alone, each by its own guard.

**TurnPipelineProofs.** `TypeCorrect`, `FilesAndUrlsFirst`, `PersonaOfTheTurn`, `PromptFitsWindow`, `AppendsOnce`,
`ShowsSomething`, `RemembersOnce`, `SearchGrounded`, for any instructions, configurations, files, names and bounds.
`Inv` says which names a turn may have read and that the cache is empty between the two steps of `_load_persona`
(`Voiced`), that no turn to come appended yet and that the sidecar, unless it failed, has the running turn once that
turn appended (`Stored`, through every retry and lost reply of `FileOp` and the cap of the sidecar), what the answer
may be before it is filtered (`Answering`), and what the memory holds in each phase
(`Logged`). `Fitted` adds that the prompt built fits. It has a lemma per slot with a ceiling: whatever the slot is
offered, it takes no more than that (the working state: than that and the project's line). Each rests on the running totals being natural numbers, shown by the
least length for which one is not; the history's ceiling is what the window leaves beyond the headroom, and
`HeadroomAssumption` says the other ceilings and the answer are within the headroom. `Grounded`, for `SearchGrounded`,
says that results without anything a search found count as failed for `_web_search_failed`: the plan's search leaves a
result under one of the names that looks for, through the fallbacks, the loop of `Research` (`ResearchHas`) and the
list of tools (`OutcomesHave`), and a good one under such a name is no other tool's.

**Only model-checked.** `Answered`, `InputReturns`, `TurnEnds`: liveness and ENABLED are outside what the provers
do. The properties of the five runs that expect a violation are false of the code, so there is nothing to prove;
`StoredUnderItsModel` follows from `ProvenanceHonest`, which is proved with the hypothesis its run drops.

## 5. Where code and documentation disagree

Five disagreements have a run (section 3) and an entry under `findings`. These were seen with the same
models, or while writing them, and are not kept as runs; a name in code font is a formula that a change of a cfg
refutes:

- EmbeddingStore: `ProvenanceHonest` with `CleanReembed = FALSE` (a partial first re-embed leaves vectors
  without provenance, which a later start files under the model configured then) or with
  `QuiescentSwitch = FALSE`: a write between the two assignments of `set_embedding_source` (583-584) is computed by the new
  function and seeds the provenance row under the old name, or none. A second change of model before the gaps of a first
  are filled finds the rows empty and records the store complete with them (1521-1529, `GapsRecorded` says what one change
  records). `EpisodesHonest` with `Stores = {"episodes"}` (episode inserts seed no provenance). With two requests, or a
  switch during one, the stale flag and the provenance row disagree, since the flag is set after the lock.
- WikiCorpus: `CacheExact` (a query that read rows before an index change
  marks its answer valid after it), `SnapshottedAlways` (two threads: the second write loses
  the first), `IndexFollowsJobs`, `NoStaleEdges`, `ListingCurrent` (a
  crash before `index.md` is written), each also with a failed call. An Apply marks every entry of its turn that names
  the page, and an auto_apply run that wrote anything all its diffs (`memory_manager.py:2256`; `AppliedIsWritten` with
  `Accounts` reduced to its first case), those that did not match included. A page that vanishes before it is read, or a
  page that cannot be created, ends an auto_apply run past the index of the pages written before (`wiki_agent.py:1936,1947`).
  A source that becomes None and returns keeps answers cached from keywords alone; nodes of deleted pages are never removed.
- EpisodeMemory: `SupersededReplaced` without its last disjunct (of two overlapping reactivations of one episode
  the second retires the row the first brought back, leaves none active and does not rewrite `MEMORY.md`, against
  `main.py:2812`, "reactivating an id that's already active/pending ... returns updated=False"); a failed rewrite of `MEMORY.md`
  lasts until the next one (`MemoryMdCurrent` without `torn`), against "the file and the UI never disagree"
  (`memory_manager.py:5124`); `process_explicit_signal`'s remark that one retraction can
  never retract more than one episode per subject does not hold, as supersession is per type.
- RuntimeSwitch: a recovery runs in a worker thread, and a pin made between its plan and its `.env` line is replaced
  in the settings, or loses its line to the older file content (`main.py:638-659`; `ChoiceKept` without `crossed`), against
  `main.py:625` ("An explicitly configured model is never replaced by an auto-pick"). Without `serial`: `ControllerNamed`, `ChoiceKept`, `ThresholdsOwn` (a re-embed reads the active model before the lock,
  `main.py:2546`, and measures the embedder there is after it) and `ActiveBackend` (a pin reads the active
  backend before the lock, `main.py:2297`, and installs its client after a switch, against 429-431). A switch commits a
  client whose second health check found the backend gone. A calibration whose embedder fails leaves a
  row that counts as measured, so nothing measures again by itself.
- Task stream and UI: `page.finalizing` is one flag for all tasks and every stream clears it
  (`tasks.ts:247,276,284,361,369`), so a task's last events reopen the input under its successor, against 69-71 ("Gate the
  next submission on this"; `GateHeld` without `reopened`). An ingest from the Files panel ignores the gate; `injectCompletedTask` shows the
  streamed chunks, which the wiki agent never sends, and takes over the active task; a read that fails in
  `ingestFile` leaves `isIngesting` set until a reload; a connection that breaks after `done` turns a
  complete task to failed; a clean end without `[DONE]` leaves a task in planning; `task_complete` does not
  precede `[DONE]` after a routing error (`main.py:1880-1883`). `conversation/[id]/+page.svelte` may show the history of the
  conversation left last; deleting a conversation during a turn brings it back with the turn's answer.
- Planner: a cosine at the research threshold turns a search into research, and the keyword gate appends the
  web search again (`planner.py:2475`, "one search variant"); a turn answered from the graph gets profile facts against 2640; gates
  scored by cosine do not fall back to words when the embedder fails later.
- Turn: an append whose sidecar cannot be written afterwards is answered with an error, and the retry of a blank answer
  appends again, as it does when the sidecar has become unreadable (`mcp_server/file_ops.py:169-192`; `AppendedOnce` without
  `unseen`). A retry forces a web search that `plan.tools_to_call` does not list, so a true citation of it is
  stripped (`controller_agent.py:399-416`), and its failed search is not grounded in the corpus; it omits
  `working_memory_ceiling` and so keeps 300 tokens of history; it writes a second numbered version of a file,
  against `conversational_agent.py:108-114`. Step 3b asks for any failed search where its comment says every; a miss
  with an empty text reaches neither `tool_results` nor `tool_failures`; a failed chart leaves no result
  and is listed in `tools_fired`; a search beside an ingest is made and dropped; an edit of `persona.md` is never
  reloaded, nor a profile line whose embedding failed once; the conversation memory lacks the "(Saved to ...)" line;
  a deferred save of a wiki turn would save an empty text.
- Prompt: an instruction, with the project's line, of more than the spare 1,761 tokens overflows a local model's window
  once the other slots are full (`prompt_builder.py:158`, "always present; uncapped"; `PromptFits` without its condition on
  `uncapped`). Five session files of 4,000 tokens are accepted and the last is dropped from the prompt, because labels count
  there (`docs/architecture/03-unified-prompt-contract.md:254`); the result's sources list documents and
  files that the ceilings cut; `context_profile.py` speaks of about 3K tokens for other slots whose ceilings sum to 3,775, so
  a window smaller than the headroom overflows (`PromptFits` without `Window >= Headroom`).

## 6. Not modelled

- Wording, prompts, parsing of model output and of JSON envelopes, HTTP, OCR, the reading of a GitHub file: external or
  stateless string work. The planner's word lists and patterns are one signal each.
- Scores (cosine, BM25, calibration statistics): floating point. Their outcomes are open choices.
- `apply_unified_diff`'s line bookkeeping: WikiCorpus has a hunk that matches or does not.
- WikiCorpus: the text of `logs.md`, pruning of snapshots, the raw-file endpoints; a process that dies inside a write is
  taken to have written all or nothing. TurnPipeline: `FetchPersona` is one step; turns are one at a time, as the gate of
  TaskStream keeps them but for the exceptions it names.
- Conversation titles, previews and deletion during a turn; UI content and settings stores; daily caches (one table keyed by
  date each); themes, dialogs, desktop shell, packaging and scripts. The blocking `POST /task`, which the UI does not use, is
  TurnPipeline without a stream.

## 7. Plan

1. EmbeddingStore with its proofs, WikiCorpus, EpisodeMemory, RuntimeSwitch, TaskStream, ModelVectors and
   ChatTasks with their refinements, Planner, ToolDispatch, PromptBuilder, TurnPipeline: done.
2. Proofs of the invariants, the action properties and the refinements (section 4): done.
   Left: `ProvenanceHonest` without `QuiescentSwitch`, as far as it holds (which stores stay honest when no
   write crosses a switch but re-embeds do), and an abstract specification of the episode lifecycle,
   refined like ModelVectors and ChatTasks.
3. If the models grow: `apply_unified_diff` against a reference definition, the deletion of a conversation during a turn.
