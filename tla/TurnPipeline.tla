---------------------------- MODULE TurnPipeline ----------------------------
(***************************************************************************)
(* One chat turn of ControllerAgent (controller_agent.py) from the request *)
(* to its result: routing (Planner), the tools (ToolDispatch), grounding,  *)
(* memory and persona, the prompt (PromptBuilder), the agent, its retry,   *)
(* the deferred file, the early and the final result.  Turns come one at a *)
(* time (the task gate of module TaskStream); the settings and the session *)
(* files may change between any two steps of a turn.                       *)
(***************************************************************************)
EXTENDS Planner, ToolDispatch, PromptBuilder

CONSTANTS
    Scenarios,     \* instances explored together, by name
    Requests,      \* what each one's turns ask
    Configs,       \* configurations its process may start with
    MaxTurns, MaxEdits,   \* its bounds
    Names,         \* assistant names; never NoText
    DefaultName,   \* _DEFAULT_ASSISTANT_NAME
    Uploads,       \* session files on offer
    Corpora,       \* what a corpus query may return: sequences of lengths
    Recalls,       \* the episodes a turn may recall, likewise
    Histories,     \* the turns kept in memory, likewise
    Window,        \* max_model_len of the local model
    Headroom,      \* _LOCAL_RESERVED_HEADROOM_TOKENS
    CloudTokens,   \* CLOUD_PROFILE.working_memory_tokens
    OutputTokens,  \* max_tokens of an answer
    Tasks,         \* lengths of an instruction and of its project's line
    FixedTokens,   \* ceilings of the system, persona, date, profile slots and labels
    GraphTokens, NeighborTokens, ToolTokens, FailureTokens,  \* and of these
    NoText

ASSUME TurnAssumption ==
    /\ Requests \in [Scenarios -> SUBSET [says : SUBSET Signals, contains : SUBSET Stems,
                          shares : SUBSET Stems, pins : SUBSET Pages, facts : SUBSET Facts]]
    /\ MaxTurns \in [Scenarios -> Nat] /\ MaxEdits \in [Scenarios -> Nat]
    /\ \A f \in Uploads : f.chars \in Nat /\ (f.source = "wiki_pin" => f.name \in Pages)
    /\ Corpora \cup Recalls \cup Histories \subseteq Seq(Nat)
    /\ Tasks \subseteq [chars : Nat, project : Nat]
    /\ DefaultName \in Names /\ NoText \notin Names
    /\ {Window, Headroom, CloudTokens, OutputTokens, FixedTokens, GraphTokens,
        NeighborTokens, ToolTokens, FailureTokens} \subseteq Nat

\* What a local window reserves has room for every slot that has a ceiling, at
\* its ceiling, for the history at its default, and for an answer.
Capped ==
    FixedTokens + ToolTokens + FailureTokens + GraphTokens + NeighborTokens + FileTotal
    + Tokens(4 * RagCeiling + CutMark) + EpisodeCeiling + StateCeiling + WorkingDefault
    + OutputTokens
ASSUME HeadroomAssumption == Capped <= Headroom

VARIABLES
    scenario,   \* the instance this behaviour belongs to
    config,     \* the Planner's configuration, the provider and the backend
    name,       \* assistant_settings: the assistant's name
    stale,      \* a rename has not invalidated the persona cache yet
    lastTools,  \* Planner._last_turn_tools_fired is not empty
    persona,    \* _persona_cache, by the name written into it
    files,      \* the session files
    disk,       \* the file the instructions name
    edits,      \* renames, uploads, removals and restarts so far
    phase,      \* where the turn is
    turn,       \* the turn: its plan and what it read
    found,      \* what the turn offers to the prompt
    prompt,     \* the prompt it built
    log,        \* the conversation memory entries the turn added
    answer,     \* results[0]
    early,      \* the result handed to on_answer_ready
    final       \* the ControllerResult

process  == <<scenario, config, lastTools, persona, files>>
settings == <<name, stale, edits>>
results  == <<early, final>>
vars == <<process, settings, disk, phase, turn, found, prompt, log, answer, results>>

Phases == {"idle", "planned", "accepted", "called", "gathered", "fetching", "voiced",
           "built", "blank", "logged", "saved", "ready", "hooked", "done"}

-----------------------------------------------------------------------------
(* The turn                                                                *)

NoTurn(id)  == [id |-> id, request |-> NoText, plan |-> Direct, action |-> "read",
                content |-> "", path |-> FALSE, url |-> FALSE, names |-> {},
                retried |-> FALSE, consulted |-> FALSE, voice |-> NoText]
NothingFound == [results |-> {}, told |-> FALSE, failed |-> FALSE,
                 docs |-> <<>>, bullets |-> <<>>, history |-> <<>>,
                 task |-> [chars |-> 0, project |-> 0]]
NoPrompt     == [persona |-> NoText, name |-> NoText, tokens |-> 0, uncapped |-> 0]
NoAnswer     == [status |-> "none", text |-> "", note |-> ""]

Conversational == turn.plan.agent = "conversational"

\* tool_results and tool_failures: what becomes of the results once the turn
\* has looked for failed searches.
Quoted(f) == [f EXCEPT !.results = {},
                       !.told    = \E r \in f.results : Ok(r),
                       !.failed  = \E r \in f.results : r.how = "error"]

-----------------------------------------------------------------------------
(* Routing                                                                 *)

\* What the execution reads of a plan; the rest is for the metadata of its
\* result, and so is what a yes/no question to the model adds to it.
Executed(plan) == [Direct EXCEPT !.agent = plan.agent, !.rag = plan.rag, !.tools = plan.tools,
                     !.write = plan.write, !.graph = plan.graph, !.deferred = plan.deferred]

\* main.py: route_task.
Submit ==
    /\ phase = "idle" /\ turn.id < MaxTurns[scenario]
    /\ \E q \in Requests[scenario], path \in BOOLEAN :
          LET r    == [q EXCEPT !.pins = Pins(files)]
              plan == Route(r, config, lastTools)
          IN  /\ Says(r, {"destination"}) => path
              /\ path => ForFileOrUrl(r) \/ Holds(plan.tools, "file_op")
              /\ turn' = [NoTurn(turn.id + 1) EXCEPT
                            !.request = r, !.plan = plan, !.action = FileAction(r),
                            !.content = IF Says(r, {"content"}) THEN "asked" ELSE "",
                            !.path = path, !.url = Says(r, {"url"}), !.names = {name}]
              /\ lastTools' = (plan.tools # <<>>)
    /\ phase' = "planned"
    /\ UNCHANGED <<scenario, config, persona, files, settings, disk, found, prompt, log, answer, results>>

\* handle_task_with_plan logs the instruction.
Accept ==
    /\ phase = "planned" /\ phase' = "accepted"
    /\ log' = <<[role |-> "user", text |-> "asked"]>>
    /\ turn' = [turn EXCEPT !.request = NoText, !.plan = Executed(@)]
    /\ UNCHANGED <<process, settings, disk, found, prompt, answer, results>>

-----------------------------------------------------------------------------
(* Tools                                                                   *)

\* One dispatch of a list of tools: what it does to the file and returns.
FileResults(w, tools) ==
    IF Holds(tools, "file_op")
    THEN FileOp(w, disk, turn.action, turn.content, turn.id, turn.path)
    ELSE {[disk |-> disk, how |-> "ok"]}

Dispatch(tools, again) ==
    \E up \in BOOLEAN :
        LET w == [up |-> up, ollama |-> config.ollama]
        IN  \E f \in FileResults(w, tools) :
                /\ disk' = f.disk
                /\ \E rs \in Outcomes(tools, w, turn.url, f.how) :
                        LET new == [found EXCEPT !.results = rs]
                        IN  found' = IF again THEN Quoted(new) ELSE new

\* A dispatch that raises leaves the turn without results.
CallTools ==
    /\ phase = "accepted" /\ phase' = "called"
    /\ \/ turn.plan.tools # <<>> /\ Dispatch(turn.plan.tools, FALSE)
       \/ UNCHANGED <<disk, found>>
    /\ UNCHANGED <<process, settings, turn, prompt, log, answer, results>>

-----------------------------------------------------------------------------
(* Grounding and memory                                                    *)

WebNames  == {"web_search", "web_search:ollama_primary", "web_search:ollama_fallback"}
NewsNames == {"news_search", "news_search:brave_fallback"}

\* _web_search_failed
SearchFailed(rs) ==
    \/ \E r \in rs : r.tool \in WebNames \cup NewsNames /\ ~Ok(r)
    \/ \E r \in rs : r.tool = "research"

\* Steps 3b and 4; a query that raises leaves the turn without.
Consulted == config.memory /\ (SearchFailed(found.results) \/ turn.plan.rag)
Sources   == {<<>>} \cup (IF Consulted THEN Corpora ELSE {})

\* Step 5: every turn recalls, but for a structural question.
Bullets == {<<>>} \cup (IF config.memory /\ Conversational /\ turn.plan.graph = "none"
                        THEN Recalls ELSE {})

\* The lengths of the task's own texts, which nothing read before.
Gather ==
    /\ phase = "called" /\ phase' = "gathered"
    /\ \E docs \in Sources, bullets \in Bullets, history \in Histories, task \in Tasks :
          found' = [Quoted(found) EXCEPT !.docs = docs, !.bullets = bullets,
                                         !.history = history, !.task = task]
    /\ turn' = [turn EXCEPT !.consulted = Consulted]
    /\ UNCHANGED <<process, settings, disk, prompt, log, answer, results>>

-----------------------------------------------------------------------------
(* _load_persona                                                           *)

\* Mutant: the cache is trusted whatever name is in it.
PersonaCached == persona # NoText

PersonaFresh == persona # NoText /\ persona = name

\* The name is read, and a cache that holds another one is dropped.
ReadPersona ==
    /\ phase = "gathered"
    /\ IF PersonaFresh \/ ~config.memory
       THEN /\ phase' = "voiced" /\ UNCHANGED persona
            /\ turn' = [turn EXCEPT !.voice = persona]
       ELSE /\ phase' = "fetching" /\ persona' = NoText
            /\ turn' = [turn EXCEPT !.voice = name]
    /\ UNCHANGED <<scenario, config, lastTools, files, settings, disk, found, prompt, log, answer, results>>

\* The corpus query for persona.md, which may miss.
FetchPersona ==
    /\ phase = "fetching" /\ phase' = "voiced"
    /\ \E hit \in BOOLEAN :
          LET text == IF hit THEN turn.voice ELSE persona
          IN  persona' = text /\ turn' = [turn EXCEPT !.voice = text]
    /\ UNCHANGED <<scenario, config, lastTools, files, settings, disk, found, prompt, log, answer, results>>

-----------------------------------------------------------------------------
(* The prompt                                                              *)

\* The ceiling of slot 6: the retry leaves the default.
WorkingCeiling == IF turn.retried THEN WorkingDefault
                  ELSE WorkingTokens(config.local, Window, Headroom, CloudTokens)

\* Slots with a ceiling of their own, left out when there is nothing to show;
\* a structural question is shown even without an answer.
ToolSlot     == IF found.told THEN ToolTokens ELSE 0
FailureSlot  == IF found.failed THEN FailureTokens ELSE 0
GraphSlot    == IF turn.plan.graph # "none" THEN GraphTokens ELSE 0
NeighborSlot == IF turn.plan.rag /\ found.docs # <<>> THEN NeighborTokens ELSE 0

StateSlot    == IF turn.plan.graph = "none" THEN StateTokens(found.task.project, Len(found.docs))
                ELSE 0

\* What no ceiling counts: the instruction, and the line breaks between the
\* turns and around the files; and the project's line, which one does not stop.
Instruction == Tokens(found.task.chars)
Breaks      == Tokens(Len(found.history) + 2 * Len(files))
Uncapped    == Instruction + Breaks + Tokens(found.task.project)

SlotTokens ==
    FixedTokens + ToolSlot + FailureSlot + GraphSlot + NeighborSlot + StateSlot
    + FilesTokens(files) + SourcesTokens(found.docs) + EpisodesTokens(found.bullets)
    + TurnsTokens(found.history, WorkingCeiling) + Instruction + Breaks

Build ==
    /\ phase = "voiced" /\ phase' = "built"
    /\ prompt' = [persona |-> turn.voice, name |-> name, tokens |-> SlotTokens,
                uncapped |-> Uncapped]
    /\ UNCHANGED <<process, settings, disk, turn, found, log, answer, results>>

-----------------------------------------------------------------------------
(* The agent                                                               *)

\* What the model writes: "cited" names a tool as its source, "bare" does
\* nothing else.
Written == {"real", "cited", "bare", "blank", "fabricated"}

\* ConversationalAgent.run replaces a fabricated tool call.
Replied(text) == IF text = "fabricated" THEN "unavailable" ELSE text

\* _EMPTY_RESPONSE_FALLBACK
Apology == [NoAnswer EXCEPT !.status = "complete", !.text = "apology"]

\* add_agent_result; the prompt is not read again.
Settle(a) ==
    /\ phase' = "logged" /\ answer' = a
    /\ log' = Append(log, [role |-> "agent", text |-> a.text])
    /\ found' = NothingFound /\ prompt' = NoPrompt

Failed == [NoAnswer EXCEPT !.status = "failed"]

\* Mutant: the retry's answer is taken as it is.
AcceptedAnyway(a) == a

\* The answer of a retry counts only when it has a text.
Retried(a) == IF a.status = "complete" /\ a.text # "blank" THEN a ELSE Apology

Reply ==
    /\ phase = "built" /\ Conversational
    /\ \E a \in {Failed} \cup
               {[NoAnswer EXCEPT !.status = "complete", !.text = Replied(t)] : t \in Written} :
          IF turn.retried THEN Settle(Retried(a))
          ELSE IF a.text = "blank"
          THEN phase' = "blank" /\ UNCHANGED <<log, answer, found, prompt>>
          ELSE Settle(a)
    /\ UNCHANGED <<process, settings, disk, turn, results>>

\* The wiki agent answers with diffs, never with an "answer".
Propose ==
    /\ phase = "built" /\ ~Conversational
    /\ \E status \in {"complete", "failed"} : Settle([NoAnswer EXCEPT !.status = status])
    /\ UNCHANGED <<process, settings, disk, turn, results>>

\* The tools of the plan again, with a web search.
Forced == IF Holds(turn.plan.tools, "web_search") \/ Holds(turn.plan.tools, "research")
          THEN turn.plan.tools ELSE Append(turn.plan.tools, "web_search")

\* Mutant: a blank answer of the retry is retried.
RetryAgain ==
    /\ phase = "blank" /\ phase' = "gathered"
    /\ Dispatch(Forced, TRUE)
    /\ UNCHANGED <<process, settings, turn, prompt, log, answer, results>>

\* Mutant: the blank answer is remembered before it is retried.
RetryLogged ==
    /\ phase = "blank" /\ phase' = "gathered"
    /\ Dispatch(Forced, TRUE)
    /\ turn' = [turn EXCEPT !.retried = TRUE]
    /\ log' = Append(log, [role |-> "agent", text |-> "blank"])
    /\ UNCHANGED <<process, settings, prompt, answer, results>>

Retry ==
    /\ phase = "blank" /\ phase' = "gathered"
    /\ Dispatch(Forced, TRUE)
    /\ turn' = [turn EXCEPT !.retried = TRUE]
    /\ UNCHANGED <<process, settings, prompt, log, answer, results>>

\* The persona or the prompt raises, or the retry's dispatch: a first attempt
\* fails the turn, a retry falls back to the apology.
Raise ==
    /\ phase \in {"gathered", "voiced", "blank"}
    /\ IF turn.retried \/ phase = "blank" THEN Settle(Apology) /\ UNCHANGED final
       ELSE /\ phase' = "done" /\ final' = Failed /\ found' = NothingFound
            /\ UNCHANGED <<log, answer, prompt>>
    /\ UNCHANGED <<process, settings, disk, turn, early>>

-----------------------------------------------------------------------------
(* After the answer                                                        *)

\* Step 7b.
Save ==
    /\ phase = "logged" /\ phase' = "saved"
    /\ IF turn.plan.deferred = "none" \/ answer.status # "complete"
       THEN UNCHANGED <<disk, answer>>
       ELSE \E up \in BOOLEAN :
            \E f \in FileOp([up |-> up], disk, turn.plan.deferred, answer.text,
                            turn.id, turn.path) :
               /\ disk' = f.disk
               /\ answer' = [answer EXCEPT !.note = IF f.how = "ok" THEN "saved"
                                                                  ELSE "not saved"]
    /\ UNCHANGED <<process, settings, turn, found, prompt, log, results>>

\* _strip_false_tool_attribution
Stripped(a) ==
    CASE a.text = "cited" -> [a EXCEPT !.text = "real"]
      [] a.text = "bare"  -> [a EXCEPT !.text = IF a.note = "" THEN "caveat" ELSE ""]
      [] OTHER -> a

\* _build_conversational_result
Result == IF ~Conversational \/ answer.status # "complete" THEN NoAnswer
          ELSE IF turn.plan.tools = <<>> THEN Stripped(answer) ELSE answer

\* on_answer_ready
Ready ==
    /\ phase = "saved" /\ phase' = "ready"
    /\ early' = Result
    /\ UNCHANGED <<process, settings, disk, turn, found, prompt, log, answer, final>>

\* The hooks of a completed answer; the working state's loads the persona.
Hook ==
    /\ phase = "ready" /\ phase' = "hooked"
    /\ IF /\ config.memory /\ ~turn.plan.write /\ answer.status = "complete"
          /\ answer.text # "" /\ ~PersonaFresh
       THEN persona' \in {name, NoText} ELSE UNCHANGED persona
    /\ UNCHANGED <<scenario, config, lastTools, files, settings, disk, turn, found, prompt, log,
                   answer, results>>

\* What the wiki agent's job comes to: its diffs, or what the synthesizer
\* makes of it, which may raise.
WikiResults ==
    IF answer.status = "failed" THEN {Failed}
    ELSE {Failed} \cup {[answer EXCEPT !.text = t, !.note = ""] : t \in {"diffs", "real", "blank"}}

Finals == CASE Result # NoAnswer -> {Result}
            [] Result = NoAnswer /\ Conversational -> {Failed}
            [] OTHER -> WikiResults

Finish ==
    /\ phase = "hooked" /\ phase' = "done"
    /\ final' \in Finals
    /\ UNCHANGED <<process, settings, disk, turn, found, prompt, log, answer, early>>

EndTurn ==
    /\ phase = "done" /\ phase' = "idle"
    /\ turn' = NoTurn(turn.id) /\ found' = NothingFound /\ prompt' = NoPrompt
    /\ log' = <<>> /\ answer' = NoAnswer /\ early' = NoAnswer /\ final' = NoAnswer
    /\ UNCHANGED <<process, settings, disk>>

-----------------------------------------------------------------------------
(* What changes around a turn                                              *)

Edit == edits < MaxEdits[scenario] /\ edits' = edits + 1

\* PUT /settings/assistant-name: the name is stored, then the cache dropped.
Rename ==
    /\ Edit /\ ~stale
    /\ name' \in Names \ {name} /\ stale' = TRUE
    /\ turn' = [turn EXCEPT !.names = IF phase = "idle" THEN {} ELSE @ \cup {name'}]
    /\ UNCHANGED <<process, disk, phase, found, prompt, log, answer, results>>

Invalidate ==
    /\ stale /\ stale' = FALSE /\ persona' = NoText
    /\ UNCHANGED <<scenario, config, lastTools, files, name, edits, disk, phase, turn, found,
                   prompt, log, answer, results>>

\* POST, PATCH and DELETE of session files.
Upload ==
    /\ Edit
    /\ \E f \in Uploads : Accepted(files, f) /\ files' = AddFile(files, f)
    /\ UNCHANGED <<scenario, config, lastTools, persona, name, stale, disk, phase, turn, found,
                   prompt, log, answer, results>>

Detach ==
    /\ Edit
    /\ \E k \in DOMAIN files : files' = RemoveFile(files, files[k].name)
    /\ UNCHANGED <<scenario, config, lastTools, persona, name, stale, disk, phase, turn, found,
                   prompt, log, answer, results>>

\* A new process: the turn is gone, and whatever was kept in memory.
Restart ==
    /\ Edit
    /\ config' \in Configs[scenario] /\ lastTools' = FALSE /\ persona' = NoText /\ files' = <<>>
    /\ stale' = FALSE /\ phase' = "idle" /\ turn' = NoTurn(turn.id)
    /\ found' = NothingFound /\ prompt' = NoPrompt /\ log' = <<>>
    /\ answer' = NoAnswer /\ early' = NoAnswer /\ final' = NoAnswer
    /\ UNCHANGED <<scenario, name, disk>>

-----------------------------------------------------------------------------
Init ==
    /\ scenario \in Scenarios /\ config \in Configs[scenario]
    /\ name = DefaultName /\ stale = FALSE
    /\ lastTools = FALSE /\ persona = NoText /\ files = <<>> /\ disk = NoFile /\ edits = 0
    /\ phase = "idle" /\ turn = NoTurn(0) /\ found = NothingFound /\ prompt = NoPrompt
    /\ log = <<>> /\ answer = NoAnswer /\ early = NoAnswer /\ final = NoAnswer

\* The steps of the turn in progress.
Work == Accept \/ CallTools \/ Gather \/ ReadPersona \/ FetchPersona \/ Build
        \/ Reply \/ Propose \/ Retry \/ Raise \/ Save \/ Ready \/ Hook \/ Finish \/ EndTurn

Around == Rename \/ Invalidate \/ Upload \/ Detach \/ Restart

Next == Submit \/ Work \/ Around

\* A turn runs in a thread that is never cancelled, and every call it makes
\* to a service has a timeout.
Spec == Init /\ [][Next]_vars /\ WF_vars(Work)

-----------------------------------------------------------------------------
(* Properties                                                              *)

TypeOK ==
    /\ config \in Configs[scenario] /\ name \in Names /\ stale \in BOOLEAN /\ lastTools \in BOOLEAN
    /\ persona \in Names \cup {NoText} /\ edits \in 0 .. MaxEdits[scenario]
    /\ \A k \in DOMAIN files : files[k] \in Uploads
    /\ \A j, k \in DOMAIN files : files[j].name = files[k].name => j = k
    /\ Len(disk.versions) <= MaxVersions
    /\ phase \in Phases /\ turn.id \in 0 .. MaxTurns[scenario] /\ turn.names \subseteq Names
    /\ {answer.status, early.status, final.status} \subseteq {"none", "complete", "failed"}

\* An instruction that names a file or a URL gets the tool for it, or a
\* deferred save, whatever feed its words also name: only a command, a write
\* to storage or an edit of a page is heard before it (_route_impl, and the
\* guard each of the gates before _priority3_tool repeats).
FilesAndUrlsHonoured ==
    (/\ phase = "planned" /\ ForFileOrUrl(turn.request)
     /\ ~Says(turn.request, StorageWords \cup SlashWords \cup {"raw_path"}))
    => \/ turn.plan.deferred # "none"
       \/ Holds(turn.plan.tools, "file_op") \/ Holds(turn.plan.tools, "url_fetch")

\* When a plan asked for a search and its tools brought nothing, but for the
\* plan's other tools, the vault was asked before the first prompt, whichever
\* provider, fallback or loop the search went through and whatever names they
\* gave to their results (step 3b reads these names).  A dispatch that raised
\* has no results; the search a retry forces is not grounded (Retry).
Searches == {"web_search", "news_search", "research"}
Fruitless(tools, rs) ==
    /\ ToSet(tools) \cap Searches # {} /\ rs # {}
    /\ \A r \in rs : Ok(r) => r.tool \in ToSet(tools) \ Searches
FailedSearchGrounded ==
    [][(/\ phase = "called" /\ phase' = "gathered" /\ config.memory
        /\ Fruitless(turn.plan.tools, found.results))
       => turn'.consulted]_vars

\* The persona in a prompt carries a name the assistant had during that turn,
\* although the rename and the invalidation of the cache are two steps and a
\* turn may fill the cache between them (_load_persona).
PersonaNamed == prompt.persona \in turn.names \cup {NoText}

\* A prompt and its answer fit the window of a local model that is larger
\* than the reserved headroom, however much history, files, sources and tool
\* results there are, as long as what no ceiling counts (the instruction above
\* all) is within what the headroom leaves over the ceilings
\* (context_profile.py against prompt_builder.py).
PromptFits ==
    (config.local /\ Window >= Headroom /\ prompt.uncapped <= Headroom - Capped)
    => prompt.tokens + OutputTokens <= Window

\* A turn appends to a file at most once, although a blank answer makes it
\* call its tools again, a reply of the server may be lost and the sidecar
\* drops the oldest turn ids (append_file); unless the sidecar could not be
\* written after its append, or not be read since.
AppendedOnce ==
    \A j, k \in DOMAIN disk.appended :
        disk.appended[j] = disk.appended[k] /\ disk.appended[j] \notin disk.unseen => j = k

\* A completed turn of the conversational agent never shows an empty answer,
\* neither early nor at the end, whatever the model wrote twice and whatever
\* the attribution filter removed.
Shown(a)   == a.text \notin {"", "blank"} \/ a.note # ""
NeverEmpty == Conversational => \A a \in {early, final} : a.status = "complete" => Shown(a)

\* The memory gains one entry for the instruction and one for the answer the
\* turn went on with, however many attempts it took.
LoggedOnce ==
    phase \in {"logged", "saved", "ready", "hooked"}
    => log = <<[role |-> "user", text |-> "asked"], [role |-> "agent", text |-> answer.text]>>

\* A turn ends.
TurnEnds == phase # "idle" ~> phase = "idle"

\* What a deferred write saves is an answer the model generated
\* (controller_agent.py:2126, "the agent had to generate it first").
SavedIsAnswer ==
    \A k \in DOMAIN disk.versions : disk.versions[k] \notin {"apology", "unavailable"}
=============================================================================
