------------------------------ MODULE TaskStream ------------------------------
(***************************************************************************)
(* A chat task from the page that submits it to the pipeline that answers  *)
(* it and back: post_task_stream and _stream_task (main.py), the worker    *)
(* thread of ControllerAgent.handle_task_with_plan with its post-answer    *)
(* hooks, the SSE connection, and the stores that read it (tasks.ts, and   *)
(* ingestFile of files.ts, which reads a stream of its own).               *)
(*                                                                         *)
(* The generator's code between two awaits is one step.  A yield waits     *)
(* while the connection's buffer is full and can be cancelled only then,   *)
(* so what follows it up to the next await belongs to its step.            *)
(***************************************************************************)
EXTENDS Naturals, Sequences

CONSTANTS
    Tasks,        \* tasks a user may submit, each once
    Ways(_),      \* and how: by chat, with an attached file, from the Files panel
    MaxTokens,    \* bound: answer chunks of a task
    MaxInFlight,  \* bound: events written and not yet read
    MaxFaults     \* bound: page reloads and broken connections

ASSUME BoundsAssumption ==
    MaxTokens \in Nat /\ MaxInFlight \in Nat \ {0} /\ MaxFaults \in Nat

VARIABLES
    via,        \* how t was submitted: by chat, with an attached file, from Files
    server,     \* the generator: where it is, and answer_ready_emitted
    producer,   \* the worker thread's progress
    queue,      \* event_queue
    conn,       \* the connection
    chan,       \* events written to it and not read yet
    persisted,  \* roles of t handed to _persist_chat_turn, in order
    working,    \* working_state: the turns its one row takes into account
    page,       \* tasksStore.finalizing (its display state is left out), isIngesting
    task,       \* tasksStore.tasks, and whether submitTask's promise is resolved
    detached,   \* tasks whose attached upload was removed
    here,       \* tasks submitted since the page was loaded
    faults,     \* reloads and broken connections so far
    broken,     \* history: tasks whose connection broke under the page
    reopened    \* history: tasks an earlier task's last events reopened the input under

vars == <<via, server, producer, queue, conn, chan, persisted, working, page, task, detached,
          here, faults, broken, reopened>>
db      == <<persisted, working>>
browser == <<page, task, detached, here, faults, broken, reopened>>

At(t, pc)       == server[t].pc = pc
Stage(t, stage) == producer[t].stage = stage
Goto(t, pc)     == server' = [server EXCEPT ![t].pc = pc]
Chat(t)         == t \in here /\ via[t] \in {"chat", "attach"}

Finished(t) == producer[t].stage \in {"complete", "failed", "raised"}
Busy(t)     == producer[t].stage \in {"routing", "run", "hooks", "infer"}

-----------------------------------------------------------------------------
(* The worker threads                                                      *)

NewRun == [stage |-> "none", tokens |-> 0, ready |-> FALSE, base |-> {}]
Become(t, stage) == producer' = [producer EXCEPT ![t].stage = stage]
\* What a finished run knew is not used again.
End(t, stage)    == producer' = [producer EXCEPT ![t] = [NewRun EXCEPT !.stage = stage]]
\* Nobody reads the queue of a cancelled generator.
Put(t, item)     == queue' = IF At(t, "gone") THEN queue
                             ELSE [queue EXCEPT ![t] = Append(@, item)]

\* The conversational agent streams; an ingest goes to the wiki agent.
Token(t) ==
    /\ Stage(t, "run") /\ via[t] = "chat" /\ producer[t].tokens < MaxTokens
    /\ producer' = [producer EXCEPT ![t].tokens = @ + 1]
    /\ Put(t, "token")
    /\ UNCHANGED <<via, server, conn, chan, db, browser>>

\* on_answer_ready: the conversational agent's answer, before the hooks.
AnswerReady(t) ==
    /\ Stage(t, "run") /\ via[t] = "chat"
    /\ producer' = [producer EXCEPT ![t] = [NewRun EXCEPT !.stage = "hooks", !.ready = TRUE]]
    /\ Put(t, "answer_ready")
    /\ UNCHANGED <<via, server, conn, chan, db, browser>>

\* The wiki agent's result.
WikiAnswer(t) ==
    /\ Stage(t, "run") /\ producer[t].tokens = 0
    /\ Become(t, "hooks")
    /\ UNCHANGED <<via, server, queue, conn, chan, db, browser>>

\* The agent failed (a failed result), or the task could not be logged.
RunFails(t) ==
    /\ Stage(t, "run")
    /\ \/ End(t, "failed")
       \/ producer[t].tokens = 0 /\ End(t, "raised")
    /\ UNCHANGED <<via, server, queue, conn, chan, db, browser>>

\* Only an answer that is not ready yet can still fail, in the synthesizer.
Ends(t) == IF producer[t].ready THEN {"complete"} ELSE {"complete", "failed"}

\* A turn that wrote an episode itself has no hooks.
NoHooks(t) ==
    /\ Stage(t, "hooks")
    /\ \E stage \in Ends(t) : End(t, stage)
    /\ UNCHANGED <<via, server, queue, conn, chan, db, browser>>

\* process_working_state_update reads the row, asks the model ...
ReadState(t) ==
    /\ Stage(t, "hooks")
    /\ Put(t, "status")
    /\ producer' = [producer EXCEPT ![t].stage = "infer", ![t].base = working]
    /\ UNCHANGED <<via, server, conn, chan, db, browser>>

\* extract_working_state_update: the state it was shown, brought up to date
\* with the turn, ...
Extracted(base, t) == base \cup {t}

\* ... and WorkingStateStore.upsert, which replaces the row.
Upsert(state) == working' = state

\* ... and replaces it, unless the model failed or left a line out.
WriteState(t) ==
    /\ Stage(t, "infer")
    /\ UNCHANGED working \/ Upsert(Extracted(producer[t].base, t))
    /\ \E stage \in Ends(t) : End(t, stage)
    /\ UNCHANGED <<via, server, queue, conn, chan, persisted, browser>>

Produce(t) ==
    \/ Token(t) \/ AnswerReady(t) \/ WikiAnswer(t) \/ RunFails(t)
    \/ NoHooks(t) \/ ReadState(t) \/ WriteState(t)

-----------------------------------------------------------------------------
(* _stream_task                                                            *)

\* Mutant: the generator does not wait for the connection.
UnthrottledYield(t, event) ==
    chan' = IF conn[t] = "open" THEN [chan EXCEPT ![t] = Append(@, event)] ELSE chan

\* An event is written; nobody sees it once the connection is gone.
Yield(t, event) ==
    /\ conn[t] = "open" => Len(chan[t]) < MaxInFlight
    /\ chan' = IF conn[t] = "open" THEN [chan EXCEPT ![t] = Append(@, event)] ELSE chan

\* _persist_chat_turn, which swallows a failed write.
Persist(t, role) == persisted' = [persisted EXCEPT ![t] = Append(@, role)]

\* post_task_stream accepts the task: "Planning task...", the user's turn, and
\* the routing thread.
Start(t) ==
    /\ conn[t] = "connecting"
    /\ conn' = [conn EXCEPT ![t] = "open"]
    /\ chan' = [chan EXCEPT ![t] = <<"status">>]
    /\ Persist(t, "user")
    /\ Goto(t, "route") /\ Become(t, "routing")
    /\ UNCHANGED <<via, queue, working, browser>>

\* while not producer_task.done(), and what its exception leads to
Again(t) ==
    CASE ~Finished(t)                                -> "get"
      [] Stage(t, "raised") /\ server[t].emitted     -> "complete"
      [] Stage(t, "raised") /\ ~server[t].emitted    -> "fail"
      [] producer[t].stage \in {"complete", "failed"} -> "drain"

\* route_task returns a plan, ...
Routed(t) ==
    /\ At(t, "route")
    /\ Yield(t, "status")
    /\ Goto(t, "get") /\ Become(t, "run")
    /\ UNCHANGED <<via, queue, conn, db, browser>>

\* ... or raises.
Unroutable(t) ==
    /\ At(t, "route")
    /\ Yield(t, "error")
    /\ Goto(t, "sentinel") /\ Become(t, "none")
    /\ UNCHANGED <<via, queue, conn, db, browser>>

\* A timeout matters only once the producer is done.
Timeout(t) ==
    /\ At(t, "get") /\ queue[t] = <<>> /\ Finished(t)
    /\ Goto(t, Again(t))
    /\ UNCHANGED <<via, producer, queue, conn, chan, db, browser>>

Item(t)     == Head(queue[t])
NextItem(t) == queue' = [queue EXCEPT ![t] = Tail(@)]

\* Mutant: status events of the hooks are relayed too.
AlwaysRelayed(t) == Item(t) # "answer_ready"

\* Only what comes before the answer is relayed.
Relayed(t) == Item(t) # "answer_ready" /\ ~server[t].emitted

Relay(t) ==
    /\ At(t, "get") /\ queue[t] # <<>> /\ Relayed(t)
    /\ Yield(t, Item(t))
    /\ NextItem(t)
    /\ Goto(t, Again(t))
    /\ UNCHANGED <<via, producer, conn, db, browser>>

Drop(t) ==
    /\ At(t, "get") /\ queue[t] # <<>> /\ ~Relayed(t) /\ Item(t) # "answer_ready"
    /\ NextItem(t)
    /\ Goto(t, Again(t))
    /\ UNCHANGED <<via, producer, conn, chan, db, browser>>

EarlySources(t) ==
    /\ At(t, "get") /\ queue[t] # <<>> /\ Item(t) = "answer_ready"
    /\ Yield(t, "sources")
    /\ NextItem(t)
    /\ server' = [server EXCEPT ![t] = [pc |-> "early", emitted |-> TRUE]]
    /\ UNCHANGED <<via, producer, conn, db, browser>>

\* Mutant: the turn is left to be handed over at the end.
EarlyDoneOnly(t) ==
    /\ At(t, "early")
    /\ Yield(t, "done")
    /\ Goto(t, Again(t))
    /\ UNCHANGED <<via, producer, queue, conn, db, browser>>

EarlyDone(t) ==
    /\ At(t, "early")
    /\ Yield(t, "done")
    /\ Persist(t, "assistant")
    /\ Goto(t, Again(t))
    /\ UNCHANGED <<via, producer, queue, conn, working, browser>>

\* The producer is done.  The rest of the queue is relayed in order, without
\* an answer_ready the loop has not seen; ...
Drains(t) == {n \in 1 .. Len(queue[t]) : ~server[t].emitted /\ queue[t][n] # "answer_ready"}

DrainItem(t) ==
    /\ At(t, "drain")
    /\ \E n \in Drains(t) :
          /\ \A m \in Drains(t) : n <= m
          /\ Yield(t, queue[t][n])
          /\ queue' = [queue EXCEPT ![t] = SubSeq(@, n + 1, Len(@))]
    /\ UNCHANGED <<via, server, producer, conn, db, browser>>

\* ... then the result is reported: answered already, failed, ...
Answered(t) ==
    /\ At(t, "drain") /\ Drains(t) = {}
    /\ server[t].emitted \/ Stage(t, "failed")
    /\ Goto(t, IF server[t].emitted THEN "complete" ELSE "fail")
    /\ UNCHANGED <<via, producer, queue, conn, chan, db, browser>>

\* ... or answered now.
LateAnswer(t) ==
    /\ At(t, "drain") /\ Drains(t) = {}
    /\ ~server[t].emitted /\ Stage(t, "complete")
    /\ Persist(t, "assistant")
    /\ Goto(t, "sources")
    /\ UNCHANGED <<via, producer, queue, conn, chan, working, browser>>

\* The last events, each followed by the next.
Ending == [sources |-> "done", done |-> "complete", fail |-> "complete",
           complete |-> "sentinel", sentinel |-> "closed"]
Written == [sources |-> "sources", done |-> "done", fail |-> "error",
            complete |-> "task_complete", sentinel |-> "[DONE]"]

Say(t) ==
    /\ server[t].pc \in DOMAIN Ending
    /\ Yield(t, Written[server[t].pc])
    /\ Goto(t, Ending[server[t].pc])
    /\ queue' = [queue EXCEPT ![t] = <<>>]    \* not read any more
    /\ UNCHANGED <<via, producer, conn, db, browser>>

\* The client is gone: the generator is cancelled, the worker thread is not
\* (a routing thread has no effect any more).
Cancel(t) ==
    /\ conn[t] = "cut" /\ server[t].pc \notin {"idle", "closed", "gone"}
    /\ Goto(t, "gone")
    /\ queue' = [queue EXCEPT ![t] = <<>>]
    /\ UNCHANGED <<via, producer, conn, chan, db, browser>>

Serve(t) ==
    \/ Routed(t) \/ Unroutable(t) \/ Timeout(t) \/ Relay(t) \/ Drop(t)
    \/ EarlySources(t) \/ EarlyDone(t) \/ DrainItem(t) \/ Answered(t) \/ LateAnswer(t)
    \/ Say(t)

-----------------------------------------------------------------------------
(* The page                                                                *)

NewTask == [status |-> "none", shown |-> "nothing", resolved |-> FALSE]
NewPage == [finalizing |-> FALSE, ingesting |-> FALSE]
OpenGate(p) == [p EXCEPT !.finalizing = FALSE]

\* submitTask, from a component that finds the input enabled.
Submit(t, kind) ==
    /\ via[t] = "none" /\ kind \in Ways(t) \ {"files"}
    /\ ~page.finalizing
    /\ via'  = [via EXCEPT ![t] = kind]
    /\ here' = here \cup {t}
    /\ page' = [page EXCEPT !.finalizing = TRUE]
    /\ task' = [task EXCEPT ![t].status = "planning"]
    /\ conn' = [conn EXCEPT ![t] = "connecting"]
    /\ UNCHANGED <<server, producer, queue, chan, db, detached, faults, broken, reopened>>

\* ingestFile of the Files panel asks isIngesting, not tasksStore.
SubmitFile(t) ==
    /\ via[t] = "none" /\ "files" \in Ways(t) /\ ~page.ingesting
    /\ via'  = [via EXCEPT ![t] = "files"]
    /\ here' = here \cup {t}
    /\ page' = [page EXCEPT !.ingesting = TRUE]
    /\ conn' = [conn EXCEPT ![t] = "connecting"]
    /\ UNCHANGED <<server, producer, queue, chan, db, task, detached, faults, broken,
                   reopened>>

\* Chat tasks under way whose input the end of t has just reopened.
Reopened(t) ==
    IF ~page.finalizing \/ page'.finalizing THEN {}
    ELSE {u \in here \ {t} : via[u] # "files" /\ conn[u] \in {"connecting", "open"}}

\* The catch block of submitTask.
Failed(t) ==
    /\ task' = [task EXCEPT ![t].status = "failed", ![t].resolved = TRUE]
    /\ page' = OpenGate(page)
    /\ reopened' = reopened \cup Reopened(t)

\* No response, or an HTTP error.
Refuse(t) ==
    /\ conn[t] = "connecting"
    /\ conn' = [conn EXCEPT ![t] = "closed"]
    /\ IF Chat(t) THEN Failed(t)
       ELSE page' = [page EXCEPT !.ingesting = FALSE] /\ UNCHANGED <<task, reopened>>
    /\ UNCHANGED <<via, server, producer, queue, chan, db, detached, here, faults, broken>>

\* Mutant: 'done' reopens the input.
GateAfterDone(p, event) ==
    IF event \in {"done", "task_complete", "error", "[DONE]"} THEN OpenGate(p) ELSE p

\* Mutant: the last event of a stream is left to do it.
GateKeptOnError(p, event) == IF event = "task_complete" THEN OpenGate(p) ELSE p

\* handleSSEEvent, and [DONE], on the flag that gates the input ...
GateAfter(p, event) == IF event \in {"task_complete", "error", "[DONE]"} THEN OpenGate(p) ELSE p

Closing(r) == IF r.status = "failed" THEN "failed" ELSE "complete"

\* ... and on the task.
TaskAfter(r, event) ==
    CASE event = "status" -> [r EXCEPT !.status = "planning"]
      [] event = "token"  -> [r EXCEPT !.status = "streaming", !.shown = "tokens"]
      [] event = "done"   -> [r EXCEPT !.status = "complete", !.shown = "answer",
                                       !.resolved = TRUE]
      [] event = "error"  -> [r EXCEPT !.status = "failed"]
      [] event = "[DONE]" -> [r EXCEPT !.status = Closing(r), !.resolved = TRUE]
      [] OTHER            -> r

Reads(t) == t \in here /\ conn[t] = "open" /\ chan[t] # <<>>
Event(t) == Head(chan[t])
Consume(t) == chan' = [chan EXCEPT ![t] = Tail(@)]

ReadChat(t) ==
    /\ Reads(t) /\ Chat(t)
    /\ Consume(t)
    /\ page' = GateAfter(page, Event(t))
    /\ task' = [task EXCEPT ![t] = TaskAfter(@, Event(t))]
    /\ reopened' = reopened \cup Reopened(t)
    /\ conn' = IF Event(t) = "[DONE]" THEN [conn EXCEPT ![t] = "closed"] ELSE conn
    /\ UNCHANGED <<via, server, producer, queue, db, detached, here, faults, broken>>

\* ingestFile: 'done' and 'error' leave the stream; injectCompletedTask shows
\* the streamed chunks.
ReadFile(t) ==
    /\ Reads(t) /\ via[t] = "files"
    /\ Consume(t)
    /\ CASE Event(t) = "status" ->
              page' = [page EXCEPT !.ingesting = TRUE] /\ UNCHANGED <<task, conn>>
         [] Event(t) = "done" ->
              /\ page' = [page EXCEPT !.ingesting = FALSE]
              /\ task' = [task EXCEPT ![t] = [status |-> "complete", shown |-> "tokens",
                                              resolved |-> TRUE]]
              /\ conn' = [conn EXCEPT ![t] = "closed"]
         [] Event(t) = "error" ->
              /\ page' = [page EXCEPT !.ingesting = FALSE]
              /\ conn' = [conn EXCEPT ![t] = "closed"]
              /\ UNCHANGED task
         [] OTHER -> UNCHANGED <<page, task, conn>>
    /\ UNCHANGED <<via, server, producer, queue, db, detached, here, faults, broken, reopened>>

Cut(t) ==
    /\ conn' = [conn EXCEPT ![t] = "cut"]
    /\ chan' = [chan EXCEPT ![t] = <<>>]
    /\ faults < MaxFaults /\ faults' = faults + 1
    /\ broken' = broken \cup {t}
    /\ UNCHANGED <<via, server, producer, queue, db, detached, here>>

\* The connection breaks and read() rejects, which ingestFile does not catch, ...
Break(t) ==
    /\ t \in here /\ conn[t] = "open"
    /\ Cut(t)
    /\ IF Chat(t) THEN Failed(t) ELSE UNCHANGED <<page, task, reopened>>

\* ... or ends as if the stream were complete.
BreakCleanly(t) ==
    /\ t \in here /\ conn[t] = "open"
    /\ Cut(t)
    /\ IF Chat(t)
       THEN /\ page' = OpenGate(page)
            /\ task' = [task EXCEPT ![t].resolved = TRUE]
            /\ reopened' = reopened \cup Reopened(t)
       ELSE page' = [page EXCEPT !.ingesting = FALSE] /\ UNCHANGED <<task, reopened>>

\* ingestAttachedFile goes on when the promise resolves: the upload is removed.
Detach(t) ==
    /\ t \in here \ detached /\ via[t] = "attach" /\ task[t].resolved
    /\ detached' = detached \cup {t}
    /\ UNCHANGED <<via, server, producer, queue, conn, chan, db, page, task, here, faults,
                   broken, reopened>>

\* The page is loaded anew.
Reload ==
    /\ faults < MaxFaults /\ faults' = faults + 1
    /\ page' = NewPage
    /\ task' = [t \in Tasks |-> NewTask]
    /\ here' = {}
    /\ conn' = [t \in Tasks |-> IF t \in here /\ conn[t] \in {"connecting", "open"} THEN "cut"
                                ELSE conn[t]]
    /\ chan' = [t \in Tasks |-> IF t \in here THEN <<>> ELSE chan[t]]
    /\ UNCHANGED <<via, server, producer, queue, db, detached, broken, reopened>>

Init ==
    /\ via = [t \in Tasks |-> "none"] /\ conn = [t \in Tasks |-> "none"]
    /\ server = [t \in Tasks |-> [pc |-> "idle", emitted |-> FALSE]]
    /\ producer = [t \in Tasks |-> NewRun]
    /\ queue = [t \in Tasks |-> <<>>] /\ chan = [t \in Tasks |-> <<>>]
    /\ persisted = [t \in Tasks |-> <<>>] /\ working = {}
    /\ page = NewPage /\ task = [t \in Tasks |-> NewTask]
    /\ detached = {} /\ here = {} /\ faults = 0 /\ broken = {} /\ reopened = {}

Connect(t) == Start(t) \/ Refuse(t)
Read(t)    == ReadChat(t) \/ ReadFile(t)

Next ==
    \/ \E t \in Tasks :
          \/ \E kind \in {"chat", "attach"} : Submit(t, kind)
          \/ SubmitFile(t) \/ Connect(t) \/ Produce(t) \/ Serve(t) \/ Cancel(t)
          \/ Read(t) \/ Break(t) \/ BreakCleanly(t) \/ Detach(t)
    \/ Reload

Spec == Init /\ [][Next]_vars

\* Every model and tool call of a pipeline has a timeout, the event loop and
\* the page's reader run whenever they can.  A task takes finitely many steps,
\* so it is enough that some step is taken while there is one.
Work == \E t \in Tasks : Connect(t) \/ Produce(t) \/ Serve(t) \/ Read(t)
FairSpec == Spec /\ WF_vars(Work)

-----------------------------------------------------------------------------
(* Properties                                                              *)

Items  == {"token", "status", "answer_ready"}
Events == {"status", "token", "sources", "done", "error", "task_complete", "[DONE]"}

\* Every variable has its type.
TypeOK ==
    /\ via \in [Tasks -> {"none", "chat", "attach", "files"}]
    /\ conn \in [Tasks -> {"none", "connecting", "open", "closed", "cut"}]
    /\ \A t \in Tasks :
          /\ server[t].pc \in {"idle", "route", "get", "early", "drain",
                               "closed", "gone"} \cup DOMAIN Ending
          /\ server[t].emitted \in BOOLEAN
          /\ producer[t].tokens \in 0 .. MaxTokens /\ producer[t].base \subseteq Tasks
          /\ queue[t] \in Seq(Items)
          /\ chan[t] \in Seq(Events) /\ Len(chan[t]) <= MaxInFlight
          /\ persisted[t] \in Seq({"user", "assistant"})
          /\ task[t].status \in {"none", "planning", "streaming", "complete", "failed"}
    /\ working \subseteq Tasks /\ detached \subseteq Tasks
    /\ here \subseteq Tasks /\ broken \subseteq Tasks /\ reopened \subseteq Tasks
    /\ page \in [finalizing : BOOLEAN, ingesting : BOOLEAN]
    /\ faults \in 0 .. MaxFaults

\* While the pipeline of a task runs, hooks included, the input stays disabled,
\* unless the task's connection broke or an earlier task's last events arrived
\* after it was submitted, and an attached upload stays in place for the agent
\* that reads it ("Detach only after the task completes").
GateHeld ==
    /\ \A t \in here \ (broken \cup reopened) : (Chat(t) /\ Busy(t)) => page.finalizing
    /\ \A t \in detached \ broken : ~Busy(t)

\* A chat task shown as complete shows its final answer, whether that went
\* out early or late, and an answer shown was handed to _persist_chat_turn,
\* once and after its instruction: no disconnect comes between.  That write
\* is best-effort: a database error in it is logged and the turn not kept.
AnswerKept ==
    \A t \in here :
        /\ (Chat(t) /\ task[t].status = "complete") => task[t].shown = "answer"
        /\ task[t].shown = "answer" => persisted[t] = <<"user", "assistant">>

\* What the tasks promise together, with the display state of the page
\* reduced to how a task ended.
Ended(t) == IF task[t].status \in {"complete", "failed"} THEN task[t].status ELSE "open"
Promise == INSTANCE ChatTasks WITH asked   <- {t \in Tasks : via[t] # "none"},
                                   history <- persisted,
                                   outcome <- [t \in Tasks |-> Ended(t)],
                                   lost    <- broken

\* The stream implements ChatTasks: the turns of a task are handed over for the
\* history once and in order, its outcome is decided once whatever events
\* follow, complete exactly when the answer was handed over, unless its
\* connection breaks.
PromiseKept == Promise!Spec

\* A working state is built on the state it replaces, so no turn's part is
\* lost, unless one of the two turns escaped the input's gate.
Escaped(t) == t \notin here \/ via[t] = "files" \/ t \in broken \cup reopened
WorkingStateKept ==
    [][\A t \in working \ working' : Escaped(t) \/ \E u \in working' : Escaped(u)]_vars

\* The input is enabled again, and a task that was submitted in chat ends,
\* unless its connection breaks.
Waiting(t) == Chat(t) /\ task[t].status \in {"planning", "streaming"} /\ t \notin broken
InputReturns == []<>(~page.finalizing /\ \A t \in Tasks : ~Waiting(t))
===============================================================================
