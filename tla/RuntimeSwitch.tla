---------------------------- MODULE RuntimeSwitch ----------------------------
(***************************************************************************)
(* The backend, chat-model and embedding-model switches of main.py: the    *)
(* Settings object and the .env file behind it, the runtime client, the    *)
(* controller built around it and MemoryManager's embedding source, and    *)
(* the requests and health polls that replace them under                   *)
(* _runtime_switch_lock.                                                   *)
(*                                                                         *)
(* Handlers run on one event loop and give it up only while they await the *)
(* lock or a worker thread; a recovery runs wholly in a worker thread.     *)
(***************************************************************************)
EXTENDS Naturals, Sequences

CONSTANTS
    Backends,      \* available_backends()
    ChatModels,    \* models _pick_default_chat_model accepts
    EmbModels,     \* embedding models
    NoModel,       \* an unset model: None or ""
    Default,       \* Default[b]: runtime_factory's chat model for b
    Listings,      \* Listings[b]: the model sets b may list when it is up
    Configs,       \* contents of .env the program is first started with
    Threads,       \* concurrent requests
    MaxRequests    \* bound: requests begun

ASSUME ModelsAssumption == NoModel \notin ChatModels \cup EmbModels
ASSUME ThreadsAssumption == NoModel \notin Threads
ASSUME BoundAssumption == MaxRequests \in Nat

Models == ChatModels \cup EmbModels
Config == [backend : Backends, override : ChatModels \cup {NoModel},
           pin : [Backends -> ChatModels \cup {NoModel}],
           emb : [Backends -> EmbModels \cup {NoModel}],
           legacy : EmbModels \cup {NoModel}]

ASSUME ConfigsAssumption == Configs \subseteq Config

VARIABLES
    settings,    \* _state.settings
    env,         \* the .env file
    runtime,     \* _state.runtime: its backend, chat and embedding model
    controller,  \* _state.controller: the client and embedding source it captured
    memory,      \* MemoryManager's embed_fn (backend and model of its client) and name
    active,      \* _state.active_embedding_model_name and _backend
    calibrated,  \* calibration rows: the model, and the model it was measured with
    lock,        \* _runtime_switch_lock: its holder and its waiters, in order
    job,         \* job[t]: the request of thread t
    begun,       \* requests begun
    serial,      \* the behaviour's requests: TRUE if the user's never overlap
    chosen,      \* history: the user's last choice of a chat model per backend
    crossed,     \* history: backends whose last choice met a recovery under way
    unsaved      \* history: a write of .env failed since the last start

vars == <<settings, env, runtime, controller, memory, active, calibrated, lock, job, begun,
          serial, chosen, crossed, unsaved>>
history == <<serial, chosen, crossed>>

NoFn   == [backend |-> NoModel, model |-> NoModel]
NoPlan == [do |-> "nothing", model |-> NoModel]

-----------------------------------------------------------------------------
(* Resolution                                                              *)

\* _resolve_chat_model: the global override beats the backend's pin.
Resolve(s, b) == IF s.override # NoModel THEN s.override ELSE s.pin[b]

\* _resolve_embedding_model: the pin beats the legacy global.
ResolveEmb(s, b) == IF s.emb[b] # NoModel THEN s.emb[b] ELSE s.legacy

\* create_runtime with the resolved models
Client(s, b, emb) ==
    [backend |-> b, emb |-> emb,
     chat |-> IF Resolve(s, b) # NoModel THEN Resolve(s, b) ELSE Default[b]]

\* What a health check may report.
Down       == [up |-> FALSE, models |-> {}]
Healths(b) == {Down} \cup {[up |-> TRUE, models |-> ms] : ms \in Listings[b]}

\* _plan_chat_model_recovery; _pick_default_chat_model takes one listed chat
\* model, whichever comes first.
Plans(s, b, models) ==
    IF s.override # NoModel
    THEN {[do |-> "demote", model |-> m] : m \in {s.pin[b]} \cap models}
    ELSE IF s.pin[b] # NoModel THEN {}
    ELSE {[do |-> "autopick", model |-> m] : m \in models \cap ChatModels}

Recoverable(s, b, c, h) == h.up /\ c.chat \notin h.models /\ Plans(s, b, h.models) # {}

\* Mutant: the override is copied onto every pin.
DemotedAll(s) == [s EXCEPT !.override = NoModel, !.pin = [b \in Backends |-> s.override]]

\* _demote_global_chat_model_override
Demoted(s) ==
    [s EXCEPT !.override = NoModel,
              !.pin = [b \in Backends |-> IF @[b] = NoModel THEN s.override ELSE @[b]]]

Applied(s, b, plan) ==
    IF plan.do = "demote" THEN Demoted(s) ELSE [s EXCEPT !.pin[b] = plan.model]

\* _migrate_legacy_embedding_model
Migrates(s, h) ==
    LET b == s.backend
    IN  h.up /\ s.emb[b] = NoModel /\ s.legacy # NoModel /\ s.legacy \in h.models
Migrated(s, b) == [s EXCEPT !.emb[b] = s.legacy, !.legacy = NoModel]

-----------------------------------------------------------------------------
(* Requests                                                                *)

IdleJob == [kind |-> "none", step |-> "idle", backend |-> NoModel, model |-> NoModel,
            cand |-> [backend |-> NoModel, emb |-> NoModel, chat |-> NoModel],
            health |-> Down, plan |-> NoPlan, snap |-> NoModel, moved |-> FALSE]
GoneJob == [IdleJob EXCEPT !.step = "gone"]   \* the process is not running
At(t, step) == job[t].step = step
Go(t, r)    == job' = [job EXCEPT ![t] = r]
Goto(t, step) == Go(t, [job[t] EXCEPT !.step = step])

\* The event loop is in a synchronous .env write.
LoopFree  == \A t \in Threads : ~At(t, "put")
User      == {t \in Threads : job[t].kind \in {"switch", "chat", "emb", "reembed"}}
Recovery  == {"apply", "replace"}
Recovering == \E t \in Threads : job[t].step \in Recovery

\* Threads are interchangeable: a request is served by some idle one.
Idle == {t \in Threads : At(t, "idle")}
Begin(t) ==
    /\ begun < MaxRequests /\ begun' = begun + 1
    /\ t \in Idle /\ LoopFree
    /\ t = CHOOSE u \in Idle : TRUE
BeginUser(t) == Begin(t) /\ (serial => User = {})

Wait(t) == lock' = [lock EXCEPT !.waiters = Append(@, t)]

\* POST /settings/runtime-backend without a chat model
BeginSwitch(t, b) ==
    /\ BeginUser(t)
    /\ Go(t, [IdleJob EXCEPT !.kind = "switch", !.step = "wait", !.backend = b])
    /\ Wait(t)
    /\ UNCHANGED <<settings, env, runtime, controller, memory, active, calibrated, history,
                   unsaved>>

\* The pin of a switch or of POST .../chat-model: the field first, then .env,
\* read and replaced without leaving the event loop.
BeginPin(t, kind, b, m) ==
    /\ BeginUser(t)
    /\ settings' = [settings EXCEPT !.pin[b] = m]
    /\ chosen' = [chosen EXCEPT ![b] = m]
    /\ crossed' = IF Recovering THEN crossed \cup {b} ELSE crossed \ {b}
    /\ Go(t, [IdleJob EXCEPT !.kind = kind, !.step = "put", !.backend = b, !.model = m,
                             !.snap = env])
    /\ UNCHANGED <<env, runtime, controller, memory, active, calibrated, lock, serial,
                   unsaved>>

\* Only a pin for the active backend goes on to a live rebuild.
PinSaved(t) ==
    /\ At(t, "put")
    /\ env' = [job[t].snap EXCEPT !.pin[job[t].backend] = job[t].model]
    /\ IF job[t].kind = "chat" /\ job[t].backend # settings.backend
       THEN Go(t, IdleJob) /\ UNCHANGED lock
       ELSE Go(t, [job[t] EXCEPT !.step = "wait", !.snap = NoModel]) /\ Wait(t)
    /\ UNCHANGED <<settings, runtime, controller, memory, active, calibrated, begun, history,
                   unsaved>>

\* OSError: the request ends with the field set.
PinFailed(t) ==
    /\ At(t, "put")
    /\ unsaved' = TRUE
    /\ Go(t, IdleJob)
    /\ UNCHANGED <<settings, env, runtime, controller, memory, active, calibrated, lock,
                   begun, history>>

\* POST /settings/embedding-model: the backend is the one active now.
BeginEmb(t, m) ==
    /\ BeginUser(t)
    /\ Go(t, [IdleJob EXCEPT !.kind = "emb", !.step = "wait", !.backend = settings.backend,
                             !.model = m])
    /\ Wait(t)
    /\ UNCHANGED <<settings, env, runtime, controller, memory, active, calibrated, history,
                   unsaved>>

\* POST /memory/reembed, with an embedder; the stores it fills are EmbeddingStore.
BeginReembed(t) ==
    /\ BeginUser(t) /\ memory.fn # NoFn
    /\ Go(t, [IdleJob EXCEPT !.kind = "reembed", !.step = "stores"])
    /\ UNCHANGED <<settings, env, runtime, controller, memory, active, calibrated, lock,
                   history, unsaved>>

\* The model to calibrate is the one active before the lock is awaited.
Reembedded(t) ==
    /\ At(t, "stores") /\ LoopFree
    /\ IF active.name = NoModel
       THEN Go(t, IdleJob) /\ UNCHANGED lock
       ELSE Go(t, [job[t] EXCEPT !.step = "wait", !.model = active.name]) /\ Wait(t)
    /\ UNCHANGED <<settings, env, runtime, controller, memory, active, calibrated, begun,
                   history, unsaved>>

\* GET /health: the check of the runtime it found, ...
BeginPoll(t, h) ==
    /\ Begin(t) /\ h \in Healths(runtime.backend)
    /\ Go(t, [IdleJob EXCEPT !.kind = "poll", !.step = "polled", !.cand = runtime,
                             !.health = h])
    /\ UNCHANGED <<settings, env, runtime, controller, memory, active, calibrated, lock,
                   history, unsaved>>

\* ... and the lock only if a recovery is planned.
Polled(t) ==
    LET found == job[t].cand.chat \in job[t].health.models
        plans == Plans(settings, settings.backend, job[t].health.models)
    IN  /\ At(t, "polled") /\ LoopFree
        /\ IF ~job[t].health.up \/ found \/ plans = {}
           THEN Go(t, IdleJob) /\ UNCHANGED lock
           ELSE Goto(t, "wait") /\ Wait(t)
        /\ UNCHANGED <<settings, env, runtime, controller, memory, active, calibrated, begun,
                       history, unsaved>>

-----------------------------------------------------------------------------
(* Under the lock                                                          *)

\* Mutant: an early return that keeps the lock.
KeepLock == lock

Unlocked == [holder |-> NoModel, waiters |-> <<>>]
Freed == [lock EXCEPT !.holder = NoModel]

\* The request ends and leaves the lock.
Leave(t) ==
    /\ lock' = Freed
    /\ Go(t, IdleJob)
    /\ UNCHANGED <<settings, env, runtime, controller, memory, active, calibrated, begun,
                   history, unsaved>>

FirstStep(t) == CASE job[t].kind = "poll"    -> "recover"
                  [] job[t].kind = "reembed" -> "measure"
                  [] OTHER                   -> "check"

\* async with _runtime_switch_lock, first come first served
Acquire(t) ==
    /\ At(t, "wait") /\ LoopFree
    /\ lock.holder = NoModel /\ Head(lock.waiters) = t
    /\ lock' = [holder |-> t, waiters |-> Tail(lock.waiters)]
    /\ Go(t, [job[t] EXCEPT !.step = FirstStep(t),
                            !.backend = IF @ = NoModel THEN settings.backend ELSE @])
    /\ UNCHANGED <<settings, env, runtime, controller, memory, active, calibrated, begun,
                   history, unsaved>>

\* Mutant: the poll goes on although the runtime was replaced.
NeverMoved(t) == FALSE

\* _recover_chat_model_on_poll: `_state.runtime is not runtime`
Moved(t) == job[t].kind = "poll" /\ job[t].moved
PollGone(t) == At(t, "recover") /\ LoopFree /\ Moved(t) /\ Leave(t)

CheckedEmb(t) ==
    IF job[t].kind = "emb" THEN job[t].model ELSE ResolveEmb(settings, job[t].backend)

\* _create_and_check_backend, _create_and_check_embedding_candidate
Check(t, h) ==
    /\ At(t, "check")
    /\ Go(t, [job[t] EXCEPT !.step = "checked", !.health = h,
                            !.cand = Client(settings, job[t].backend, CheckedEmb(t))])
    /\ UNCHANGED <<settings, env, runtime, controller, memory, active, calibrated, lock,
                   begun, history, unsaved>>

\* 502, or 422 for an embedding model that is not listed.
Refused(t) ==
    /\ At(t, "checked") /\ LoopFree
    /\ \/ ~job[t].health.up
       \/ job[t].kind = "emb" /\ job[t].model \notin job[t].health.models \cup {NoModel}
    /\ Leave(t)

Accepted(t) ==
    /\ At(t, "checked") /\ LoopFree /\ job[t].health.up
    /\ job[t].kind \in {"switch", "chat"}
    /\ Goto(t, IF job[t].kind = "switch" THEN "recover" ELSE "commit")
    /\ UNCHANGED <<settings, env, runtime, controller, memory, active, calibrated, lock,
                   begun, history, unsaved>>

\* _recover_missing_chat_model: nothing to recover, ...
NoRecovery(t) ==
    /\ At(t, "recover") /\ ~Moved(t)
    /\ ~Recoverable(settings, job[t].backend, job[t].cand, job[t].health)
    /\ IF job[t].kind = "poll" THEN Leave(t)
       ELSE /\ Goto(t, "plan")
            /\ UNCHANGED <<settings, env, runtime, controller, memory, active, calibrated,
                           lock, begun, history, unsaved>>

\* ... or the plan, ...
PlanRecovery(t, plan) ==
    /\ At(t, "recover") /\ ~Moved(t)
    /\ Recoverable(settings, job[t].backend, job[t].cand, job[t].health)
    /\ crossed' = crossed \cup {job[u].backend : u \in {v \in Threads : At(v, "put")}}
    /\ Go(t, [job[t] EXCEPT !.step = "apply", !.plan = plan])
    /\ UNCHANGED <<settings, env, runtime, controller, memory, active, calibrated, lock,
                   begun, serial, chosen, unsaved>>

\* ... its change of the settings, ...
Apply(t) ==
    /\ At(t, "apply")
    /\ settings' = Applied(settings, job[t].backend, job[t].plan)
    /\ Go(t, IF job[t].plan.do = "demote" THEN [job[t] EXCEPT !.step = "recheck"]
             ELSE [job[t] EXCEPT !.step = "replace", !.snap = env])
    /\ UNCHANGED <<env, runtime, controller, memory, active, calibrated, lock, begun,
                   history, unsaved>>

\* ... an auto-pick's .env line (a failure is logged), ...
Replace(t) ==
    /\ At(t, "replace")
    /\ \/ /\ env' = [job[t].snap EXCEPT !.pin[job[t].backend] = job[t].plan.model]
          /\ UNCHANGED unsaved
       \/ unsaved' = TRUE /\ UNCHANGED env
    /\ Go(t, [job[t] EXCEPT !.step = "recheck", !.snap = NoModel])
    /\ UNCHANGED <<settings, runtime, controller, memory, active, calibrated, lock, begun,
                   history>>

\* ... and the rebuilt client with a health check of its own.
Recheck(t, h) ==
    /\ At(t, "recheck")
    /\ Go(t, [job[t] EXCEPT !.step = IF job[t].kind = "poll" THEN "commit" ELSE "plan",
                            !.plan = NoPlan, !.health = h,
                            !.cand = Client(settings, job[t].backend,
                                            ResolveEmb(settings, job[t].backend))])
    /\ UNCHANGED <<settings, env, runtime, controller, memory, active, calibrated, lock,
                   begun, history, unsaved>>

\* _plan_embedding_for_switch: follow the target's embedding model if it is
\* listed, else keep the current embedder.
Follows(b, h) == ResolveEmb(settings, b) # NoModel /\ ResolveEmb(settings, b) \in h.models

PlanSwitch(t) ==
    /\ At(t, "plan") /\ LoopFree
    /\ Goto(t, IF Follows(job[t].backend, job[t].health) THEN "source" ELSE "commit")
    /\ UNCHANGED <<settings, env, runtime, controller, memory, active, calibrated, lock,
                   begun, history, unsaved>>

\* An explicit embedding model sets the pin and retires the legacy global.
SetEmbPin(t) ==
    /\ At(t, "checked") /\ LoopFree
    /\ job[t].kind = "emb" /\ job[t].health.up
    /\ job[t].model \in job[t].health.models \cup {NoModel}
    /\ settings' = [settings EXCEPT !.emb[job[t].backend] = job[t].model,
                                    !.legacy = NoModel]
    /\ Go(t, [job[t] EXCEPT !.step = "source", !.snap = settings.legacy])
    /\ UNCHANGED <<env, runtime, controller, memory, active, calibrated, lock, begun,
                   history, unsaved>>

NewFn(t) ==
    IF job[t].cand.emb = NoModel THEN NoFn
    ELSE [backend |-> job[t].cand.backend, model |-> job[t].cand.emb]

\* Mutant: a switch resolves the name for the backend it leaves.
NameOfOld(t) ==
    IF NewFn(t) = NoFn THEN NoModel ELSE ResolveEmb(settings, settings.backend)

\* _derive_active_embedding_model_name resolves the backend active now.
NewName(t) ==
    IF NewFn(t) = NoFn THEN NoModel
    ELSE IF job[t].kind = "emb" THEN ResolveEmb(settings, settings.backend)
    ELSE ResolveEmb(settings, job[t].backend)

\* _apply_embedding_source: MemoryManager first, ...
SetSource(t) ==
    /\ At(t, "source")
    /\ memory' = [fn |-> NewFn(t), name |-> NewName(t)]
    /\ Goto(t, "name")
    /\ UNCHANGED <<settings, env, runtime, controller, active, calibrated, lock, begun,
                   history, unsaved>>

\* _calibrate_and_persist replaces the model's row by what the embedder it was
\* given yields, an empty one when every embed call fails: calibrate_thresholds
\* never raises.
Measured(name, by) ==
    calibrated' = {r \in calibrated : r.name # name} \cup {[name |-> name, by |-> by]}

\* _needs_calibration: a model that has no row yet, even an empty one.
Calibrate(name, fn) ==
    IF name = NoModel \/ \E r \in calibrated : r.name = name
    THEN UNCHANGED calibrated
    ELSE Measured(name, fn.model)

\* ... then the state's name and backend, then calibration.
SetName(t) ==
    /\ At(t, "name") /\ LoopFree
    /\ active' = [name |-> memory.name, backend |-> memory.fn.backend]
    /\ Calibrate(memory.name, memory.fn)
    /\ Goto(t, "commit")
    /\ UNCHANGED <<settings, env, runtime, controller, memory, lock, begun, history,
                   unsaved>>

\* Mutant: the controller is built before the new source is applied.
BuiltBefore(c) == [client |-> c, fn |-> controller.fn, name |-> controller.name]

\* _build_controller
Built(c) == [client |-> c, fn |-> memory.fn, name |-> active.name]

\* The last .env writes of a request, or their failure, which is reported.
Saved(e) == (env' = e /\ UNCHANGED unsaved) \/ (unsaved' = TRUE /\ UNCHANGED env)

\* Mutant: the legacy global stays in .env.
LegacyLeft(t) == [env EXCEPT !.emb[job[t].backend] = job[t].model]

SavedEmb(t) ==
    [env EXCEPT !.emb[job[t].backend] = job[t].model,
                !.legacy = IF job[t].snap # NoModel THEN NoModel ELSE @]

\* The swap, in one step of the event loop after the controller was built.
Swap(t) ==
    /\ At(t, "commit") /\ LoopFree
    /\ runtime' = job[t].cand
    /\ controller' = Built(job[t].cand)
    /\ job' = [u \in Threads |-> IF u = t THEN IdleJob
                                ELSE [job[u] EXCEPT !.moved = job[u].kind = "poll"]]
    /\ lock' = Freed
    /\ UNCHANGED <<memory, active, calibrated, begun, history>>

CommitSwitch(t) ==
    /\ job[t].kind = "switch"
    /\ settings' = [settings EXCEPT !.backend = job[t].backend]
    /\ Saved([env EXCEPT !.backend = job[t].backend])
    /\ Swap(t)

\* Two .env lines, the second only if there was a legacy model to retire.
CommitEmb(t) ==
    /\ job[t].kind = "emb"
    /\ \/ Saved(SavedEmb(t))
       \/ job[t].snap # NoModel /\ unsaved' = TRUE
          /\ env' = [env EXCEPT !.emb[job[t].backend] = job[t].model]
    /\ Swap(t) /\ UNCHANGED settings

CommitPin(t)  == job[t].kind = "chat" /\ Swap(t) /\ UNCHANGED <<settings, env, unsaved>>
CommitPoll(t) == job[t].kind = "poll" /\ Swap(t) /\ UNCHANGED <<settings, env, unsaved>>

\* The re-embed request calibrates with the embedder there is now ...
Remeasure(t) ==
    /\ At(t, "measure")
    /\ Measured(job[t].model, memory.fn.model)
    /\ Goto(t, "rebuild")
    /\ UNCHANGED <<settings, env, runtime, controller, memory, active, lock, begun, history,
                   unsaved>>

\* ... and rebuilds the controller for the model it was sent for.
Rebuild(t) ==
    /\ At(t, "rebuild") /\ LoopFree
    /\ controller' = [client |-> runtime, fn |-> memory.fn, name |-> job[t].model]
    /\ lock' = Freed
    /\ Go(t, IdleJob)
    /\ UNCHANGED <<settings, env, runtime, memory, active, calibrated, begun, history,
                   unsaved>>

-----------------------------------------------------------------------------
(* Start                                                                   *)

StartClient == Client(env, env.backend, ResolveEmb(env, env.backend))
Stopped     == \A t \in Threads : At(t, "gone")
Heals(h)    == Recoverable(env, env.backend, StartClient, h)

\* lifespan: one start from .env with a health check h, perhaps a recovery and
\* a second check h1, the migration of the legacy embedding model, and the
\* first controller.  `keep` says whether .env could be written.
Start(h, plan, h1, keep) ==
    LET b     == env.backend
        s1    == IF Heals(h) THEN Applied(env, b, plan) ELSE env
        picks == plan.do = "autopick"
        moves == Migrates(s1, h1)
        s2    == IF ~moves THEN s1 ELSE IF keep THEN Migrated(s1, b)
                 ELSE [s1 EXCEPT !.emb[b] = s1.legacy]
        fn    == IF h1.up /\ ResolveEmb(s2, b) \in h1.models \ {NoModel}
                 THEN [backend |-> b, model |-> ResolveEmb(s2, b)] ELSE NoFn
        c     == Client(s1, b, ResolveEmb(s1, b))
    IN  /\ Stopped
        /\ picks \/ moves \/ keep
        /\ settings' = s2
        /\ env' = [env EXCEPT !.pin = IF picks /\ keep THEN s2.pin ELSE @,
                              !.emb = IF keep THEN s2.emb ELSE @,
                              !.legacy = IF keep THEN s2.legacy ELSE @]
        /\ unsaved' = ~keep
        /\ runtime' = c
        /\ memory' = [fn |-> fn, name |-> fn.model]
        /\ active' = [name |-> fn.model, backend |-> fn.backend]
        /\ controller' = [client |-> c, fn |-> fn, name |-> fn.model]
        /\ Calibrate(fn.model, fn)
        /\ job' = [t \in Threads |-> IdleJob]
        /\ lock' = Unlocked
        /\ chosen' = env.pin /\ crossed' = {}
        /\ UNCHANGED <<begun, serial>>

\* What there is of the process while it is not running.
NoSource  == [fn |-> NoFn, name |-> NoModel]
NoBackend == [name |-> NoModel, backend |-> NoModel]
NotBuilt  == [client |-> StartClient, fn |-> NoFn, name |-> NoModel]
AllGone   == [t \in Threads |-> GoneJob]

\* The process stops anywhere: .env and the calibration rows are left.
Stop ==
    /\ ~Stopped
    /\ settings' = env /\ runtime' = StartClient /\ memory' = NoSource
    /\ active' = NoBackend /\ controller' = NotBuilt
    /\ lock' = Unlocked /\ job' = AllGone
    /\ chosen' = env.pin /\ crossed' = {} /\ unsaved' = FALSE
    /\ UNCHANGED <<env, calibrated, begun, serial>>

Restart ==
    \E h \in Healths(env.backend), keep \in BOOLEAN :
        IF Heals(h)
        THEN \E plan \in Plans(env, env.backend, h.models), h1 \in Healths(env.backend) :
                 Start(h, plan, h1, keep)
        ELSE Start(h, NoPlan, h, keep)

\* Before the first start, with a file none of the models of which were
\* calibrated.
Init ==
    /\ env \in Configs /\ calibrated = {}
    /\ begun = 0 /\ serial \in BOOLEAN
    /\ settings = env /\ runtime = StartClient /\ memory = NoSource
    /\ active = NoBackend /\ controller = NotBuilt
    /\ lock = Unlocked /\ job = AllGone
    /\ chosen = env.pin /\ crossed = {} /\ unsaved = FALSE

PlansOf(t) == IF At(t, "recover") THEN Plans(settings, job[t].backend, job[t].health.models)
              ELSE {}
Checks(t) == IF job[t].backend = NoModel THEN {} ELSE Healths(job[t].backend)

\* What thread t does by itself once its request has begun.
Step(t) ==
    \/ PinSaved(t) \/ PinFailed(t) \/ Polled(t) \/ Acquire(t) \/ PollGone(t)
    \/ \E h \in Checks(t) : Check(t, h) \/ Recheck(t, h)
    \/ Refused(t) \/ Accepted(t) \/ NoRecovery(t)
    \/ \E plan \in PlansOf(t) : PlanRecovery(t, plan)
    \/ Apply(t) \/ Replace(t) \/ PlanSwitch(t) \/ SetEmbPin(t) \/ SetSource(t) \/ SetName(t)
    \/ CommitSwitch(t) \/ CommitEmb(t) \/ CommitPin(t) \/ CommitPoll(t)
    \/ Reembedded(t) \/ Remeasure(t) \/ Rebuild(t)

\* The UI offers what a backend has listed.
Offered(b) == UNION Listings[b]

Request(t) ==
    \/ \E b \in Backends : BeginSwitch(t, b)
    \/ \E b \in Backends, kind \in {"switch", "chat"} :
          \E m \in ChatModels \cap Offered(b) : BeginPin(t, kind, b, m)
    \/ \E m \in (EmbModels \cap Offered(settings.backend)) \cup {NoModel} : BeginEmb(t, m)
    \/ \E h \in Healths(runtime.backend) : BeginPoll(t, h)
    \/ BeginReembed(t)

Next == Stop \/ Restart \/ \E t \in Threads : Step(t) \/ Request(t)

Spec     == Init /\ [][Next]_vars
FairSpec == Spec /\ \A t \in Threads : WF_vars(Step(t))

-----------------------------------------------------------------------------
(* Properties                                                              *)

Kinds == {"none", "switch", "chat", "emb", "reembed", "poll"}
Steps == {"gone", "idle", "put", "polled", "wait", "check", "checked", "recover", "apply", "replace",
          "recheck", "plan", "source", "name", "commit", "stores", "measure", "rebuild"}

\* Types, and the lock: whoever is past Acquire holds it, whoever waits is
\* queued once.
TypeOK ==
    /\ settings \in Config /\ env \in Config
    /\ calibrated \subseteq [name : EmbModels, by : EmbModels \cup {NoModel}]
    /\ begun \in 0 .. MaxRequests
    /\ \A t \in Threads : job[t].kind \in Kinds /\ job[t].step \in Steps
    /\ \A t \in Threads :
          /\ lock.holder = t <=> job[t].step \notin {"gone", "idle", "put", "polled", "stores", "wait"}
          /\ (\E n \in 1 .. Len(lock.waiters) : lock.waiters[n] = t) <=> At(t, "wait")

AtRest == lock.holder = NoModel

\* Nothing is left half moved when the lock is free: the controller uses the
\* runtime client of the state and MemoryManager's embedder, and the reported
\* source is that embedder, however requests, polls and failures interleave.
Together ==
    AtRest =>
        /\ controller.client = runtime
        /\ controller.fn = memory.fn
        /\ active.name = memory.name
        /\ active.backend = memory.fn.backend

\* The name vectors are filed under is the embedder's model: "Name the embedding
\* model actually backing `embed_fn`" (_derive_active_embedding_model_name).
NameOfFn == memory.name = memory.fn.model

\* If the user's requests do not overlap, this holds, the runtime client is one
\* of the active backend, the controller looks its thresholds up by the name in
\* use, and the thresholds stored for a model were measured with it.
ActiveBackend   == AtRest => runtime.backend = settings.backend
ControllerNamed == AtRest => controller.name = memory.name
ThresholdsOwn   == \A r \in calibrated : r.by \in {r.name, NoModel}
Consistent == serial => NameOfFn /\ ActiveBackend /\ ControllerNamed /\ ThresholdsOwn

\* Every embedder in use was listed by its backend, and so is every model an
\* auto-pick makes a backend's pin: a poll never picks from another backend's
\* list, even one that waited for the lock while the runtime was replaced.
Lists(b, m) == \E ms \in Listings[b] : m \in ms
Served ==
    /\ memory.fn # NoFn => Lists(memory.fn.backend, memory.fn.model)
    /\ serial => \A t \in Threads :
          job[t].plan.do = "autopick" => Lists(job[t].backend, job[t].plan.model)

\* The user's last choice of a chat model stays the backend's pin, here and
\* in .env: no auto-pick, demotion, switch or start replaces it, unless while
\* the choice was made a recovery in a worker thread was between its plan and
\* its .env line.
ChoiceKept ==
    (serial /\ LoopFree) =>
        \A b \in Backends \ crossed :
            chosen[b] # NoModel =>
                settings.pin[b] = chosen[b] /\ (env.pin[b] = chosen[b] \/ unsaved)

\* A start would find what the last requests set: backend and embedding
\* models in .env are those in use, unless a write failed, which is reported.
EnvMirrors ==
    (serial /\ AtRest /\ ~unsaved) =>
        env.backend = settings.backend /\ env.emb = settings.emb
        /\ env.legacy = settings.legacy

\* Every request and poll is answered, whatever the backends do, or the process
\* stops.
Busy(t) == job[t].step \notin {"gone", "idle"}
Answered == \A t \in Threads : Busy(t) ~> ~Busy(t)
=============================================================================
