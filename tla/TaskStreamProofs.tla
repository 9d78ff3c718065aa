--------------------------- MODULE TaskStreamProofs ---------------------------
(***************************************************************************)
(* Proofs about TaskStream, for any tasks, ways to submit them and bounds. *)
(***************************************************************************)
EXTENDS TaskStream, Integers, TLAPS

-----------------------------------------------------------------------------
(* Types                                                                   *)

Vias   == {"none", "chat", "attach", "files"}
Conns  == {"none", "connecting", "open", "closed", "cut"}
Stages == {"none", "routing", "run", "hooks", "infer", "complete", "failed", "raised"}
Pcs    == {"idle", "route", "get", "early", "drain", "sources", "done", "fail", "complete",
           "sentinel", "closed", "gone"}

Server   == [pc : Pcs, emitted : BOOLEAN]
Producer == [stage : Stages, tokens : 0 .. MaxTokens, ready : BOOLEAN, base : SUBSET Tasks]
Task     == [status : {"none", "planning", "streaming", "complete", "failed"},
             shown : {"nothing", "tokens", "answer"}, resolved : BOOLEAN]
Page     == [finalizing : BOOLEAN, ingesting : BOOLEAN]
Roles    == {"user", "assistant"}

\* The answer is among the turns handed over for the history.
Told(s) == \E n \in 1 .. Len(s) : s[n] = "assistant"

Typed ==
    /\ via \in [Tasks -> Vias] /\ conn \in [Tasks -> Conns]
    /\ server \in [Tasks -> Server] /\ producer \in [Tasks -> Producer]
    /\ queue \in [Tasks -> Seq(Items)] /\ chan \in [Tasks -> Seq(Events)]
    /\ \A t \in Tasks : Len(chan[t]) <= MaxInFlight
    /\ persisted \in [Tasks -> Seq(Roles)] /\ working \in SUBSET Tasks
    /\ page \in Page /\ task \in [Tasks -> Task]
    /\ detached \in SUBSET Tasks /\ here \in SUBSET Tasks /\ faults \in 0 .. MaxFaults
    /\ broken \in SUBSET Tasks /\ reopened \in SUBSET Tasks

-----------------------------------------------------------------------------
(* One task                                                                *)

\* The generator, its worker and its connection are in step.
Life(t) ==
    /\ via[t] = "none" <=> conn[t] = "none"
    /\ conn[t] \in {"connecting", "open"} => t \in here
    /\ conn[t] \in {"none", "connecting"} => At(t, "idle")
    /\ t \in here => via[t] # "none"
    /\ t \in here /\ conn[t] = "cut" => t \in broken
    /\ At(t, "idle") => Stage(t, "none") /\ ~server[t].emitted /\ conn[t] # "open"
    /\ At(t, "gone") => conn[t] = "cut"
    /\ At(t, "route") => Stage(t, "routing")
    /\ server[t].pc \in {"get", "early"} => ~(producer[t].stage \in {"none", "routing"})
    /\ At(t, "drain") => producer[t].stage \in {"complete", "failed"}
    /\ Busy(t) => server[t].pc \in {"route", "get", "early", "gone"}
    /\ Chat(t) /\ conn[t] = "closed" => server[t].pc \in {"idle", "closed"}
    /\ producer[t].base # {} => Stage(t, "infer")

\* answer_ready is queued once, after the run of a chat task, and early once.
Heard(t) == {n \in 1 .. Len(queue[t]) : queue[t][n] = "answer_ready"}
Early(t) ==
    /\ \A m, n \in Heard(t) : m = n
    /\ Heard(t) # {} => ~server[t].emitted
    /\ Heard(t) # {} \/ server[t].emitted =>
          via[t] = "chat" /\ ~(producer[t].stage \in {"none", "routing", "run"})
    /\ At(t, "early") => server[t].emitted
    /\ server[t].pc \in {"route", "sources", "done", "fail"} => ~server[t].emitted
    /\ server[t].pc \in {"idle", "route"} => queue[t] = <<>>

\* What may follow an event of a stream.
Closings == {"task_complete", "[DONE]"}
After(e) == CASE e \in {"status", "token"} -> Events
              [] e = "sources"            -> {"done"} \cup Closings
              [] e \in {"done", "error"}  -> Closings
              [] e = "task_complete"      -> {"[DONE]"}
              [] OTHER                    -> {}

Before  == {"status", "token"}
Outcome == {"done", "error"}

\* What the generator may have written.
May(t) ==
    CASE server[t].pc \in {"route", "sources", "fail"} -> Before
      [] server[t].pc \in {"get", "drain"} ->
            IF server[t].emitted THEN Before \cup {"sources", "done"} ELSE Before
      [] server[t].pc \in {"early", "done"} -> Before \cup {"sources"}
      [] server[t].pc = "complete" -> Before \cup {"sources"} \cup Outcome
      [] server[t].pc = "sentinel" -> Before \cup {"sources"} \cup Outcome \cup {"task_complete"}
      [] server[t].pc = "closed"   -> Events
      [] OTHER -> {}

\* The generator has written how the task ended ...
Past(t) == \/ server[t].pc \in {"complete", "sentinel", "closed"}
           \/ server[t].pc \in {"get", "drain"} /\ server[t].emitted
\* ... and the page has read it.
Known(t) == task[t].status \in {"complete", "failed"}

\* The events in flight of a chat task: in order, and the end of the task among
\* them or read, exactly if it was written.
Flow(t) ==
    conn[t] = "open" /\ via[t] # "files" =>
        /\ \A n \in 1 .. Len(chan[t]) : chan[t][n] \in May(t)
        /\ \A m, n \in 1 .. Len(chan[t]) : m < n => chan[t][n] \in After(chan[t][m])
        /\ Past(t) <=> Known(t) \/ \E n \in 1 .. Len(chan[t]) : chan[t][n] \in Outcome
        /\ Known(t) => \A n \in 1 .. Len(chan[t]) : chan[t][n] \in Closings
        /\ (\E n \in 1 .. Len(chan[t]) : chan[t][n] = "done") \/ server[t].pc \in {"sources", "done"} =>
              Told(persisted[t])

\* What the page shows.
Display(t) ==
    /\ conn[t] = "none" => task[t] = NewTask
    /\ conn[t] \in {"none", "connecting"} => ~Known(t) /\ ~task[t].resolved
    /\ via[t] = "files" => task[t].status \in {"none", "complete"} /\ task[t].shown # "answer"
    /\ via[t] # "files" /\ task[t].status = "complete" => task[t].shown = "answer"
    /\ task[t].shown = "answer" => Told(persisted[t])

Each(t) == Life(t) /\ Early(t) /\ Flow(t) /\ Display(t)

-----------------------------------------------------------------------------
(* The input's gate, and what is behind it                                 *)

\* A chat task whose pipeline may still run and that closed the gate.
Ahead(t) ==
    /\ t \in here \ (broken \cup reopened) /\ via[t] # "files"
    /\ server[t].pc \in {"idle", "route", "get", "early"} /\ conn[t] \in {"connecting", "open"}

\* Its pipeline has ended, if it ever began.
Over(t) ==
    /\ conn[t] \notin {"none", "connecting"}
    /\ server[t].pc \in {"idle", "complete", "sentinel", "closed", "gone"} /\ ~Busy(t)

Gated ==
    /\ \A t \in Tasks : Ahead(t) => page.finalizing
    /\ \A t, u \in Tasks : Ahead(t) /\ Ahead(u) => t = u
    /\ \A t \in here \ broken : via[t] = "attach" /\ task[t].resolved => Over(t)
    /\ \A t \in detached \ broken : Over(t)

-----------------------------------------------------------------------------
(* The working state                                                       *)

\* A state takes x into account, or a task that escaped the gate.
Holds(S, x) == x \in S \/ \E e \in S : Escaped(e)

\* Some working state, current or read, takes x into account.
Counted(x) == x \in working \/ \E u \in Tasks : x \in producer[u].base

\* What was counted once is counted by the current state, and by every one that
\* a task behind the gate has read.
Counts ==
    /\ \A x \in Tasks : Counted(x) => via[x] # "none"
    /\ \A x \in Tasks : Counted(x) /\ ~Escaped(x) =>
          /\ Holds(working, x)
          /\ \A u \in Tasks : Stage(u, "infer") /\ ~Escaped(u) => Holds(producer[u].base, x)

Inv == Typed /\ (\A t \in Tasks : Each(t)) /\ Gated /\ Counts

-----------------------------------------------------------------------------
(* Steps of one task                                                       *)

\* The tasks other than t are as they were.
Aside(t) ==
    /\ \A u \in Tasks \ {t} :
          /\ via'[u] = via[u] /\ conn'[u] = conn[u] /\ server'[u] = server[u]
          /\ producer'[u] = producer[u] /\ queue'[u] = queue[u] /\ chan'[u] = chan[u]
          /\ persisted'[u] = persisted[u] /\ task'[u] = task[u]
    /\ \A u \in Tasks \ {t} : (u \in here' <=> u \in here) /\ (u \in broken' <=> u \in broken)

LEMMA AsideEach ==
  ASSUME NEW t \in Tasks, Aside(t), \A u \in Tasks : Each(u)
  PROVE  \A u \in Tasks \ {t} : Each(u)'
  <1> SUFFICES ASSUME NEW u \in Tasks \ {t} PROVE Each(u)'
    OBVIOUS
  <1>1. /\ via'[u] = via[u] /\ conn'[u] = conn[u] /\ server'[u] = server[u]
        /\ producer'[u] = producer[u] /\ queue'[u] = queue[u] /\ chan'[u] = chan[u]
        /\ persisted'[u] = persisted[u] /\ task'[u] = task[u]
        /\ (u \in here' <=> u \in here) /\ (u \in broken' <=> u \in broken)
        /\ Each(u)
    BY DEF Aside
  <1>2. Life(u)'
    BY <1>1 DEF Each, Life, At, Stage, Busy, Chat
  <1>3. Early(u)'
    BY <1>1 DEF Each, Early, Heard, At
  <1>4. Flow(u)'
    <2>1. /\ May(u)' = May(u) /\ (Past(u)' <=> Past(u)) /\ (Known(u)' <=> Known(u))
      BY <1>1 DEF May, Past, Known
    <2> QED BY <1>1, <2>1 DEF Each, Flow
  <1>5. Display(u)'
    BY <1>1 DEF Each, Display, Known
  <1> QED BY <1>2, <1>3, <1>4, <1>5 DEF Each

\* A step behind the page: the gate, and what is behind it, stay.
LEMMA GatedBehind ==
  ASSUME Typed, Gated, NEW t \in Tasks, Aside(t),
         UNCHANGED <<page, here, broken, reopened, detached, task, via>>,
         Ahead(t)' => Ahead(t), Over(t) => Over(t)'
  PROVE  Gated'
  <1>1. \A u \in Tasks : Ahead(u)' => Ahead(u)
    BY DEF Aside, Ahead
  <1>2. \A u \in Tasks : Over(u) => Over(u)'
    BY DEF Aside, Over, Busy
  <1>3. here \subseteq Tasks /\ detached \subseteq Tasks
    BY DEF Typed
  <1> QED BY <1>1, <1>2, <1>3 DEF Gated

\* A step that neither reads nor writes the working state.
LEMMA CountsKept ==
  ASSUME Counts, UNCHANGED working,
         \A u \in Tasks : /\ producer'[u].base \subseteq producer[u].base
                          /\ Stage(u, "infer")' => Stage(u, "infer") /\ producer'[u].base = producer[u].base,
         \A x \in Tasks : via[x] # "none" => via'[x] # "none" /\ (Escaped(x) => Escaped(x)'),
         Typed, \A u \in Tasks : Each(u)
  PROVE  Counts'
  <1> SUFFICES ASSUME NEW x \in Tasks, Counted(x)'
               PROVE  /\ via'[x] # "none"
                      /\ ~Escaped(x)' =>
                           /\ Holds(working, x)'
                           /\ \A u \in Tasks : Stage(u, "infer")' /\ ~Escaped(u)' =>
                                 Holds(producer[u].base, x)'
    BY DEF Counts
  <1>1. Counted(x)
    BY DEF Counted
  <1>2. via[x] # "none" /\ via'[x] # "none"
    BY <1>1 DEF Counts
  <1>3. \A e \in Tasks : Counted(e) => via[e] # "none" /\ (Escaped(e) => Escaped(e)')
    BY DEF Counts
  <1>4. ASSUME ~Escaped(x)'
        PROVE  /\ Holds(working, x)'
               /\ \A u \in Tasks : Stage(u, "infer")' /\ ~Escaped(u)' => Holds(producer[u].base, x)'
    <2>1. ~Escaped(x) /\ Holds(working, x)
      BY <1>1, <1>2, <1>4 DEF Counts
    <2>2. Holds(working, x)'
      <3>1. \A e \in working : e \in Tasks /\ Counted(e)
        BY DEF Typed, Counted
      <3> QED BY <1>3, <2>1, <3>1 DEF Holds
    <2>3. ASSUME NEW u \in Tasks, Stage(u, "infer")', ~Escaped(u)'
          PROVE  Holds(producer[u].base, x)'
      <3>1. Stage(u, "infer") /\ producer'[u].base = producer[u].base
        BY <2>3
      <3>2. \A e \in producer[u].base : e \in Tasks /\ Counted(e)
        BY DEF Typed, Producer, Counted
      <3>3. CASE via[u] # "none"
        <4>1. Holds(producer[u].base, x)
          BY <1>1, <2>1, <2>3, <3>1, <3>3 DEF Counts
        <4> QED BY <1>3, <3>1, <3>2, <4>1 DEF Holds
      <3>4. CASE via[u] = "none"
        <4>1. Stage(u, "none")
          BY <3>4 DEF Each, Life
        <4> QED BY <3>1, <4>1 DEF Stage
      <3> QED BY <3>3, <3>4
    <2> QED BY <2>2, <2>3
  <1> QED BY <1>2, <1>4

-----------------------------------------------------------------------------
(* The worker threads                                                      *)

LEMMA ProduceInv ==
  ASSUME Inv, NEW t \in Tasks, NEW r \in Producer,
         producer[t].stage \in {"run", "hooks", "infer"},
         UNCHANGED <<via, server, conn, chan, persisted, browser>>,
         producer' = [producer EXCEPT ![t] = r],
         r.stage \in {"run", "hooks", "infer", "complete", "failed", "raised"},
         r.stage = "run" => producer[t].stage = "run",
         r.base # {} => r.stage = "infer",
         \/ UNCHANGED queue
         \/ \E item \in Items :
               /\ Put(t, item)
               /\ item = "answer_ready" =>
                     producer[t].stage = "run" /\ r.stage = "hooks" /\ via[t] = "chat",
         working' \in SUBSET Tasks
  PROVE  Typed' /\ (\A u \in Tasks : Each(u)') /\ Gated'
  <1>1. /\ Typed /\ Gated /\ (\A u \in Tasks : Each(u))
        /\ UNCHANGED <<via, server, conn, chan, persisted, page, task, detached, here, faults, broken,
                       reopened>>
    BY DEF Inv, browser
  <1>2. /\ producer' \in [Tasks -> Producer] /\ producer'[t] = r
        /\ \A u \in Tasks \ {t} : producer'[u] = producer[u]
    BY <1>1 DEF Typed
  <1>3. queue[t] \in Seq(Items) /\ queue \in [Tasks -> Seq(Items)]
    BY <1>1 DEF Typed
  <1>4. /\ queue' \in [Tasks -> Seq(Items)] /\ \A u \in Tasks \ {t} : queue'[u] = queue[u]
        /\ \/ queue'[t] = queue[t]
           \/ \E item \in Items :
                 /\ queue'[t] = Append(queue[t], item)
                 /\ item = "answer_ready" =>
                       producer[t].stage = "run" /\ r.stage = "hooks" /\ via[t] = "chat"
    <2>1. CASE UNCHANGED queue
      BY <1>3, <2>1
    <2>2. ASSUME NEW item \in Items, Put(t, item),
                 item = "answer_ready" =>
                    producer[t].stage = "run" /\ r.stage = "hooks" /\ via[t] = "chat"
          PROVE  /\ queue' \in [Tasks -> Seq(Items)] /\ \A u \in Tasks \ {t} : queue'[u] = queue[u]
                 /\ queue'[t] = queue[t] \/ queue'[t] = Append(queue[t], item)
      <3>1. queue' = queue \/ queue' = [queue EXCEPT ![t] = Append(queue[t], item)]
        BY <2>2 DEF Put
      <3>2. Append(queue[t], item) \in Seq(Items)
        BY <1>3
      <3> QED BY <1>3, <3>1, <3>2
    <2> QED BY <2>1, <2>2
  <1>5. Typed'
    BY <1>1, <1>2, <1>4 DEF Typed
  <1>6. Aside(t)
    BY <1>1, <1>2, <1>4 DEF Aside
  <1>7. Each(t) /\ server[t].pc \in {"get", "early", "gone"}
    <2>1. Each(t) /\ server[t] \in Server
      BY <1>1 DEF Typed
    <2> QED BY <2>1 DEF Each, Life, Busy, At, Stage
  <1>8. Life(t)'
    BY <1>1, <1>2, <1>7 DEF Each, Life, At, Stage, Busy, Chat
  <1>9. Early(t)'
    <2>1. Heard(t)' = Heard(t)
          \/ /\ Heard(t)' = Heard(t) \cup {Len(queue[t]) + 1}
             /\ producer[t].stage = "run" /\ r.stage = "hooks" /\ via[t] = "chat"
      <3>1. ASSUME NEW item \in Items, queue'[t] = Append(queue[t], item)
            PROVE  Heard(t)' = IF item = "answer_ready" THEN Heard(t) \cup {Len(queue[t]) + 1}
                               ELSE Heard(t)
        <4>1. /\ Len(queue'[t]) = Len(queue[t]) + 1 /\ Len(queue[t]) \in Nat
              /\ \A n \in 1 .. Len(queue[t]) : queue'[t][n] = queue[t][n]
              /\ queue'[t][Len(queue[t]) + 1] = item
          BY <1>3, <3>1
        <4>2. 1 .. Len(queue'[t]) = 1 .. Len(queue[t]) \cup {Len(queue[t]) + 1}
          BY <4>1
        <4> QED BY <4>1, <4>2 DEF Heard
      <3> QED BY <1>4, <3>1 DEF Heard
    <2>2. producer[t].stage = "run" => Heard(t) = {} /\ ~server[t].emitted
      BY <1>7 DEF Each, Early
    <2>3. /\ \A m, n \in Heard(t)' : m = n
          /\ Heard(t)' # {} => ~server[t].emitted
          /\ Heard(t)' # {} \/ server[t].emitted => via[t] = "chat" /\ r.stage \notin {"none", "routing", "run"}
      BY <1>7, <2>1, <2>2 DEF Each, Early
    <2> QED BY <1>1, <1>2, <1>7, <2>3 DEF Each, Early, At
  <1>10. Flow(t)' /\ Display(t)'
    <2>1. May(t)' = May(t) /\ (Past(t)' <=> Past(t)) /\ (Known(t)' <=> Known(t))
      BY <1>1 DEF May, Past, Known
    <2> QED BY <1>1, <1>7, <2>1 DEF Each, Flow, Display
  <1>11. \A u \in Tasks : Each(u)'
    BY <1>1, <1>6, <1>8, <1>9, <1>10, AsideEach DEF Each
  <1>12. (Ahead(t)' => Ahead(t)) /\ (Over(t) => Over(t)')
    BY <1>1, <1>7 DEF Ahead, Over, Busy
  <1> QED BY <1>1, <1>5, <1>6, <1>11, <1>12, GatedBehind

\* Reading the state apart, and writing it.
LEMMA ProduceCounts ==
  ASSUME Inv, NEW t \in Tasks, NEW r \in Producer, producer' = [producer EXCEPT ![t] = r],
         r.base = {}, r.stage # "infer",
         UNCHANGED <<via, browser, working>>
  PROVE  Counts'
  <1>1. /\ Typed /\ Counts /\ (\A u \in Tasks : Each(u)) /\ UNCHANGED <<here, broken, reopened>>
    BY DEF Inv, browser
  <1>2. producer'[t] = r /\ \A u \in Tasks \ {t} : producer'[u] = producer[u]
    BY <1>1 DEF Typed
  <1>3. \A u \in Tasks : /\ producer'[u].base \subseteq producer[u].base
                         /\ Stage(u, "infer")' => Stage(u, "infer") /\ producer'[u].base = producer[u].base
    BY <1>2 DEF Stage
  <1>4. \A x \in Tasks : via'[x] = via[x] /\ (Escaped(x) => Escaped(x)')
    BY <1>1 DEF Escaped
  <1> QED BY <1>1, <1>3, <1>4, CountsKept

\* A pipeline that runs behind the gate: its task holds the gate closed.
LEMMA BusyAhead ==
  ASSUME Inv, NEW t \in Tasks, Busy(t), ~Escaped(t)
  PROVE  Ahead(t)
  <1>1. /\ Life(t) /\ server[t] \in Server /\ producer[t] \in Producer /\ conn[t] \in Conns
        /\ via[t] \in Vias
    BY DEF Inv, Typed, Each
  <1>2. t \in here /\ via[t] # "files" /\ t \notin broken \cup reopened /\ via[t] # "none"
    BY <1>1 DEF Escaped, Life
  <1>3. Chat(t)
    BY <1>1, <1>2 DEF Chat, Vias
  <1>4. server[t].pc \in {"route", "get", "early", "gone"}
    BY <1>1 DEF Life
  <1>5. conn[t] # "cut"
    BY <1>1, <1>2 DEF Life
  <1>6. conn[t] = "open"
    BY <1>1, <1>3, <1>4, <1>5 DEF Life, At, Conns
  <1> QED BY <1>1, <1>2, <1>4, <1>5, <1>6 DEF Ahead, Life, At

LEMMA Lone ==
  ASSUME Inv, NEW t \in Tasks, NEW u \in Tasks, Busy(t), Busy(u), ~Escaped(t), ~Escaped(u)
  PROVE  t = u
  BY BusyAhead DEF Inv, Gated

\* A record of a run.
LEMMA RunTypes ==
  /\ NewRun \in Producer /\ NewRun.base = {} /\ NewRun.stage = "none"
  /\ \A stage \in Stages : /\ [NewRun EXCEPT !.stage = stage] \in Producer
                           /\ [NewRun EXCEPT !.stage = stage].base = {}
                           /\ [NewRun EXCEPT !.stage = stage].stage = stage
  /\ /\ [NewRun EXCEPT !.stage = "hooks", !.ready = TRUE] \in Producer
     /\ [NewRun EXCEPT !.stage = "hooks", !.ready = TRUE].base = {}
     /\ [NewRun EXCEPT !.stage = "hooks", !.ready = TRUE].stage = "hooks"
  <1>1. NewRun \in Producer /\ NewRun.base = {} /\ NewRun.stage = "none"
    BY BoundsAssumption DEF NewRun, Producer, Stages
  <1>2. \A stage \in Stages : /\ [NewRun EXCEPT !.stage = stage] \in Producer
                              /\ [NewRun EXCEPT !.stage = stage].base = {}
                              /\ [NewRun EXCEPT !.stage = stage].stage = stage
    BY <1>1 DEF Producer
  <1>3. /\ [NewRun EXCEPT !.stage = "hooks", !.ready = TRUE] \in Producer
        /\ [NewRun EXCEPT !.stage = "hooks", !.ready = TRUE].base = {}
        /\ [NewRun EXCEPT !.stage = "hooks", !.ready = TRUE].stage = "hooks"
    BY <1>1 DEF Producer, Stages
  <1> QED BY <1>1, <1>2, <1>3

LEMMA TokenInv ==
  ASSUME Inv, NEW t \in Tasks, Token(t)
  PROVE  Inv'
  <1> DEFINE r == [producer[t] EXCEPT !.tokens = @ + 1]
  <1>1. /\ producer[t].stage = "run" /\ producer[t].tokens < MaxTokens /\ Put(t, "token")
        /\ UNCHANGED <<via, server, conn, chan, persisted, working, browser>>
        /\ producer' = [producer EXCEPT ![t] = r]
    BY DEF Token, Stage, db
  <1>2. producer[t] \in Producer /\ Life(t) /\ working \in SUBSET Tasks
    BY DEF Inv, Typed, Each
  <1>3. r \in Producer /\ r.stage = "run" /\ r.base = {}
    BY <1>1, <1>2, BoundsAssumption DEF Producer, Life, Stage
  <1> HIDE DEF r
  <1>4. "token" \in Items /\ UNCHANGED working /\ UNCHANGED via
    BY <1>1 DEF Items
  <1> QED BY <1>1, <1>2, <1>3, <1>4, ProduceInv, ProduceCounts DEF Inv

LEMMA AnswerReadyInv ==
  ASSUME Inv, NEW t \in Tasks, AnswerReady(t)
  PROVE  Inv'
  <1> DEFINE r == [NewRun EXCEPT !.stage = "hooks", !.ready = TRUE]
  <1>1. /\ producer[t].stage = "run" /\ via[t] = "chat" /\ Put(t, "answer_ready")
        /\ UNCHANGED <<via, server, conn, chan, persisted, working, browser>>
        /\ producer' = [producer EXCEPT ![t] = r]
    BY DEF AnswerReady, Stage, db
  <1>2. working \in SUBSET Tasks /\ r \in Producer /\ r.stage = "hooks" /\ r.base = {}
    BY RunTypes DEF Inv, Typed
  <1> HIDE DEF r
  <1>3. "answer_ready" \in Items
    BY DEF Items
  <1> QED BY <1>1, <1>2, <1>3, ProduceInv, ProduceCounts DEF Inv

LEMMA WikiAnswerInv ==
  ASSUME Inv, NEW t \in Tasks, WikiAnswer(t)
  PROVE  Inv'
  <1> DEFINE r == [producer[t] EXCEPT !.stage = "hooks"]
  <1>1. /\ producer[t].stage = "run"
        /\ UNCHANGED <<via, server, queue, conn, chan, persisted, working, browser>>
        /\ producer' = [producer EXCEPT ![t] = r]
    BY DEF WikiAnswer, Become, Stage, db
  <1>2. producer[t] \in Producer /\ Life(t) /\ working \in SUBSET Tasks
    BY DEF Inv, Typed, Each
  <1>3. r \in Producer /\ r.stage = "hooks" /\ r.base = {}
    BY <1>1, <1>2 DEF Producer, Life, Stage, Stages
  <1> HIDE DEF r
  <1> QED BY <1>1, <1>2, <1>3, ProduceInv, ProduceCounts DEF Inv

\* The run ends without a word to the queue.
LEMMA EndInv ==
  ASSUME Inv, NEW t \in Tasks, NEW stage \in {"complete", "failed", "raised"}, End(t, stage),
         producer[t].stage \in {"run", "hooks", "infer"},
         UNCHANGED <<via, server, queue, conn, chan, persisted, browser>>,
         working' \in SUBSET Tasks
  PROVE  /\ Typed' /\ (\A u \in Tasks : Each(u)') /\ Gated'
         /\ UNCHANGED working => Inv'
  <1> DEFINE r == [NewRun EXCEPT !.stage = stage]
  <1>1. r \in Producer /\ r.stage = stage /\ r.base = {}
    BY RunTypes DEF Stages
  <1>2. producer' = [producer EXCEPT ![t] = r]
    BY DEF End
  <1> HIDE DEF r
  <1>3. Typed' /\ (\A u \in Tasks : Each(u)') /\ Gated'
    BY <1>1, <1>2, ProduceInv
  <1> QED BY <1>1, <1>2, <1>3, ProduceCounts DEF Inv

LEMMA EndsInv ==
  ASSUME Inv, NEW t \in Tasks, RunFails(t) \/ NoHooks(t)
  PROVE  Inv'
  <1>1. /\ UNCHANGED <<via, server, queue, conn, chan, persisted, working, browser>>
        /\ producer[t].stage \in {"run", "hooks"}
    BY DEF RunFails, NoHooks, Stage, db
  <1>2. \E stage \in {"complete", "failed", "raised"} : End(t, stage)
    BY DEF RunFails, NoHooks, Ends
  <1>3. working' \in SUBSET Tasks
    BY <1>1 DEF Inv, Typed
  <1> QED BY <1>1, <1>2, <1>3, EndInv

LEMMA ReadStateInv ==
  ASSUME Inv, NEW t \in Tasks, ReadState(t)
  PROVE  Inv'
  <1> DEFINE r == [producer[t] EXCEPT !.stage = "infer", !.base = working]
  <1>1. /\ producer[t].stage = "hooks" /\ Put(t, "status")
        /\ UNCHANGED <<via, server, conn, chan, persisted, working, browser>>
        /\ producer' = [producer EXCEPT ![t] = r]
    BY DEF ReadState, Stage, db
  <1>2. Typed /\ Counts /\ working \in SUBSET Tasks
    BY DEF Inv, Typed
  <1>3. r \in Producer /\ r.stage = "infer" /\ r.base = working
    <2>1. producer[t] \in Producer /\ working \in SUBSET Tasks
      BY <1>2 DEF Typed
    <2> QED BY <2>1 DEF Producer, Stages
  <1> HIDE DEF r
  <1>4. "status" \in Items
    BY DEF Items
  <1>5. Typed' /\ (\A u \in Tasks : Each(u)') /\ Gated'
    BY <1>1, <1>2, <1>3, <1>4, ProduceInv
  <1>6. producer'[t] = r /\ \A u \in Tasks \ {t} : producer'[u] = producer[u]
    BY <1>1, <1>2 DEF Typed
  <1>7. \A x \in Tasks : (Escaped(x)' <=> Escaped(x)) /\ (Counted(x)' => Counted(x))
    BY <1>1, <1>3, <1>6 DEF Escaped, Counted, browser
  <1>8. Counts'
    <2> SUFFICES ASSUME NEW x \in Tasks, Counted(x)'
                 PROVE  /\ via'[x] # "none"
                        /\ ~Escaped(x)' =>
                             /\ Holds(working, x)'
                             /\ \A u \in Tasks : Stage(u, "infer")' /\ ~Escaped(u)' =>
                                   Holds(producer[u].base, x)'
      BY DEF Counts
    <2>1. Counted(x) /\ via'[x] # "none"
      BY <1>1, <1>2, <1>7 DEF Counts
    <2>2. ASSUME ~Escaped(x)' PROVE Holds(working, x)'
      BY <1>1, <1>2, <1>7, <2>1, <2>2 DEF Counts, Holds
    <2>3. ASSUME ~Escaped(x)', NEW u \in Tasks, Stage(u, "infer")', ~Escaped(u)'
          PROVE  Holds(producer[u].base, x)'
      <3>1. CASE u = t
        BY <1>1, <1>3, <1>6, <2>2, <2>3, <3>1 DEF Holds
      <3>2. CASE u # t
        <4>1. producer'[u] = producer[u] /\ producer[u].base \subseteq Tasks
          BY <1>2, <1>6, <3>2 DEF Typed, Producer
        <4>2. Holds(producer[u].base, x)
          BY <1>2, <1>7, <2>1, <2>3, <4>1 DEF Counts, Stage
        <4> QED BY <1>7, <4>1, <4>2 DEF Holds
      <3> QED BY <3>1, <3>2
    <2> QED BY <2>1, <2>2, <2>3
  <1> QED BY <1>5, <1>8 DEF Inv

\* What a state loses was never behind the gate, or what replaces it was not.
LEMMA WriteKeeps ==
  ASSUME Inv, NEW t \in Tasks, Stage(t, "infer"), NEW x \in Tasks, Counted(x), ~Escaped(x)
  PROVE  Holds(producer[t].base \cup {t}, x)
  <1>1. CASE Escaped(t)
    BY <1>1 DEF Holds
  <1>2. CASE ~Escaped(t)
    BY <1>2 DEF Inv, Counts, Holds
  <1> QED BY <1>1, <1>2

LEMMA WriteStateInv ==
  ASSUME Inv, NEW t \in Tasks, WriteState(t)
  PROVE  Inv'
  <1>1. /\ producer[t].stage = "infer" /\ UNCHANGED <<via, server, queue, conn, chan, persisted, browser>>
        /\ UNCHANGED working \/ working' = producer[t].base \cup {t}
        /\ \E stage \in {"complete", "failed"} : End(t, stage)
    BY DEF WriteState, Stage, Upsert, Extracted, Ends
  <1>2. Typed /\ Counts /\ producer[t].base \subseteq Tasks
    BY DEF Inv, Typed, Producer
  <1>3. working' \in SUBSET Tasks
    BY <1>1, <1>2 DEF Typed
  <1>4. PICK stage \in {"complete", "failed"} : End(t, stage)
    BY <1>1
  <1>5. /\ Typed' /\ (\A u \in Tasks : Each(u)') /\ Gated'
        /\ UNCHANGED working => Inv'
    BY <1>1, <1>3, <1>4, EndInv
  <1>6. CASE working' = producer[t].base \cup {t}
    <2>1. producer'[t].base = {} /\ producer'[t].stage = stage
      BY <1>2, <1>4, RunTypes DEF End, Typed, Stages
    <2>2. \A u \in Tasks \ {t} : producer'[u] = producer[u]
      BY <1>2, <1>4 DEF End, Typed
    <2>3. \A x \in Tasks : Escaped(x)' <=> Escaped(x)
      BY <1>1 DEF Escaped, browser
    <2>4. \A x \in Tasks : Counted(x)' => Counted(x) \/ x = t
      BY <1>6, <2>1, <2>2 DEF Counted
    <2>5. via[t] # "none"
      BY <1>1 DEF Inv, Each, Life, At, Stage
    <2>6. Counts'
      <3> SUFFICES ASSUME NEW x \in Tasks, Counted(x)'
                   PROVE  /\ via'[x] # "none"
                          /\ ~Escaped(x)' =>
                               /\ Holds(working, x)'
                               /\ \A u \in Tasks : Stage(u, "infer")' /\ ~Escaped(u)' =>
                                     Holds(producer[u].base, x)'
        BY DEF Counts
      <3>1. via'[x] # "none"
        BY <1>1, <1>2, <2>4, <2>5 DEF Counts
      <3>2. ASSUME ~Escaped(x)' PROVE Holds(working, x)'
        <4>1. Holds(producer[t].base \cup {t}, x)
          BY <1>1, <2>3, <2>4, <3>2, WriteKeeps DEF Holds, Stage
        <4> QED BY <1>2, <1>6, <2>3, <4>1 DEF Holds
      <3>3. ASSUME ~Escaped(x)', NEW u \in Tasks, Stage(u, "infer")', ~Escaped(u)'
            PROVE  Holds(producer[u].base, x)'
        <4>1. u # t /\ producer'[u] = producer[u] /\ Stage(u, "infer") /\ producer[u].base \subseteq Tasks
          BY <1>2, <2>1, <2>2, <3>3 DEF Stage, Typed, Producer
        <4>2. Escaped(t)
          BY <1>1, <2>3, <3>3, <4>1, Lone DEF Busy, Stage
        <4>3. Counted(x)
          BY <2>3, <2>4, <3>3, <4>2
        <4>4. Holds(producer[u].base, x)
          BY <1>2, <2>3, <3>3, <4>1, <4>3 DEF Counts
        <4> QED BY <2>3, <4>1, <4>4 DEF Holds
      <3> QED BY <3>1, <3>2, <3>3
    <2> QED BY <1>5, <2>6 DEF Inv
  <1> QED BY <1>1, <1>5, <1>6

-----------------------------------------------------------------------------
(* The generator                                                           *)

LEMMA ServeInv ==
  ASSUME Inv, NEW t \in Tasks, Typed', Aside(t), UNCHANGED <<via, working, browser>>,
         Life(t)', Early(t)', Flow(t)', (Told(persisted[t]) => Told(persisted'[t])),
         producer'[t].base \subseteq producer[t].base,
         Stage(t, "infer")' => Stage(t, "infer") /\ producer'[t].base = producer[t].base,
         conn'[t] \in {"none", "connecting"} => conn'[t] = conn[t],
         Ahead(t)' => Ahead(t), Over(t) => Over(t)'
  PROVE  Inv'
  <1>1. /\ Typed /\ Gated /\ Counts /\ (\A u \in Tasks : Each(u))
        /\ UNCHANGED <<page, task, detached, here, faults, broken, reopened>>
    BY DEF Inv, browser
  <1>2. Display(t)'
    BY <1>1 DEF Each, Display, Known
  <1>3. \A u \in Tasks : Each(u)'
    BY <1>1, <1>2, AsideEach DEF Each
  <1>4. Gated'
    BY <1>1, GatedBehind
  <1>5. \A u \in Tasks : /\ producer'[u].base \subseteq producer[u].base
                         /\ Stage(u, "infer")' => Stage(u, "infer") /\ producer'[u].base = producer[u].base
    BY DEF Aside, Stage
  <1>6. \A x \in Tasks : via'[x] = via[x] /\ (Escaped(x) => Escaped(x)')
    BY <1>1 DEF Escaped
  <1>7. Counts'
    BY <1>1, <1>5, <1>6, CountsKept
  <1> QED BY <1>3, <1>4, <1>7 DEF Inv

LEMMA Yields ==
  ASSUME Typed, NEW t \in Tasks, NEW e \in Events, Yield(t, e)
  PROVE  /\ chan' \in [Tasks -> Seq(Events)] /\ \A u \in Tasks : Len(chan'[u]) <= MaxInFlight
         /\ \A u \in Tasks \ {t} : chan'[u] = chan[u]
         /\ IF conn[t] = "open"
            THEN /\ Len(chan'[t]) = Len(chan[t]) + 1 /\ Len(chan[t]) \in Nat
                 /\ \A n \in 1 .. Len(chan[t]) : chan'[t][n] = chan[t][n]
                 /\ chan'[t][Len(chan[t]) + 1] = e
            ELSE chan'[t] = chan[t]
  <1>1. chan \in [Tasks -> Seq(Events)] /\ \A u \in Tasks : Len(chan[u]) <= MaxInFlight
    BY DEF Typed
  <1>2. CASE conn[t] = "open"
    <2>1. chan' = [chan EXCEPT ![t] = Append(chan[t], e)] /\ Len(chan[t]) < MaxInFlight
      BY <1>2 DEF Yield
    <2>2. /\ Append(chan[t], e) \in Seq(Events) /\ Len(Append(chan[t], e)) = Len(chan[t]) + 1
          /\ Len(chan[t]) \in Nat /\ Append(chan[t], e)[Len(chan[t]) + 1] = e
          /\ \A n \in 1 .. Len(chan[t]) : Append(chan[t], e)[n] = chan[t][n]
      BY <1>1
    <2>3. chan'[t] = Append(chan[t], e) /\ \A u \in Tasks \ {t} : chan'[u] = chan[u]
      BY <1>1, <2>1
    <2>4. chan' \in [Tasks -> Seq(Events)]
      BY <1>1, <2>1, <2>2
    <2>5. Len(chan'[t]) <= MaxInFlight
      BY <2>1, <2>2, <2>3, BoundsAssumption
    <2> QED BY <1>1, <1>2, <2>2, <2>3, <2>4, <2>5
  <1>3. CASE conn[t] # "open"
    BY <1>1, <1>3 DEF Yield
  <1> QED BY <1>2, <1>3

\* Writing an event that may follow all that may have been written.
LEMMA YieldFlow ==
  ASSUME Typed, NEW t \in Tasks, NEW e \in Events, Yield(t, e), Flow(t),
         UNCHANGED <<via, conn, task>>, (Told(persisted[t]) => Told(persisted'[t])),
         \A x \in May(t) : e \in After(x),
         May(t) \cup {e} \subseteq May(t)',
         Past(t)' <=> Past(t) \/ e \in Outcome,
         Past(t) => e \in Closings,
         conn[t] = "open" /\ via[t] # "files" =>
            (e = "done" \/ server'[t].pc \in {"sources", "done"} => Told(persisted'[t]))
  PROVE  Flow(t)'
  <1> SUFFICES ASSUME conn[t] = "open", via[t] # "files"
               PROVE  /\ \A n \in 1 .. Len(chan'[t]) : chan'[t][n] \in May(t)'
                      /\ \A m, n \in 1 .. Len(chan'[t]) : m < n => chan'[t][n] \in After(chan'[t][m])
                      /\ Past(t)' <=> Known(t)' \/ \E n \in 1 .. Len(chan'[t]) : chan'[t][n] \in Outcome
                      /\ Known(t)' => \A n \in 1 .. Len(chan'[t]) : chan'[t][n] \in Closings
                      /\ (\E n \in 1 .. Len(chan'[t]) : chan'[t][n] = "done")
                            \/ server'[t].pc \in {"sources", "done"} => Told(persisted'[t])
    BY DEF Flow
  <1> DEFINE k == Len(chan[t])
  <1>1. /\ Len(chan'[t]) = k + 1 /\ k \in Nat /\ chan'[t][k + 1] = e
        /\ \A n \in 1 .. k : chan'[t][n] = chan[t][n]
    BY Yields
  <1>2. \A n \in 1 .. Len(chan'[t]) : n \in 1 .. k \/ n = k + 1
    BY <1>1
  <1>3. /\ \A n \in 1 .. k : chan[t][n] \in May(t)
        /\ \A m, n \in 1 .. k : m < n => chan[t][n] \in After(chan[t][m])
        /\ Past(t) <=> Known(t) \/ \E n \in 1 .. k : chan[t][n] \in Outcome
        /\ Known(t) => \A n \in 1 .. k : chan[t][n] \in Closings
        /\ (\E n \in 1 .. k : chan[t][n] = "done") \/ server[t].pc \in {"sources", "done"} =>
              Told(persisted[t])
    BY DEF Flow
  <1>4. Known(t)' <=> Known(t)
    BY DEF Known
  <1>5. 1 .. k \subseteq 1 .. Len(chan'[t]) /\ k + 1 \in 1 .. Len(chan'[t])
    BY <1>1
  <1>6. \A m, n \in 1 .. Len(chan'[t]) : m < n => m \in 1 .. k
    BY <1>1
  <1> HIDE DEF k
  <1>7. \A n \in 1 .. Len(chan'[t]) : chan'[t][n] \in May(t)'
    BY <1>1, <1>2, <1>3
  <1>8. ASSUME NEW m \in 1 .. Len(chan'[t]), NEW n \in 1 .. Len(chan'[t]), m < n
        PROVE  chan'[t][n] \in After(chan'[t][m])
    <2>1. m \in 1 .. k
      BY <1>6, <1>8
    <2>2. CASE n \in 1 .. k
      BY <1>1, <1>3, <1>8, <2>1, <2>2
    <2>3. CASE n = k + 1
      BY <1>1, <1>3, <2>1, <2>3
    <2> QED BY <1>2, <2>2, <2>3
  <1>9. Past(t)' <=> Known(t)' \/ \E n \in 1 .. Len(chan'[t]) : chan'[t][n] \in Outcome
    BY <1>1, <1>2, <1>3, <1>4, <1>5
  <1>10. Known(t)' => \A n \in 1 .. Len(chan'[t]) : chan'[t][n] \in Closings
    BY <1>1, <1>2, <1>3, <1>4
  <1>11. (\E n \in 1 .. Len(chan'[t]) : chan'[t][n] = "done") \/ server'[t].pc \in {"sources", "done"} =>
            Told(persisted'[t])
    BY <1>1, <1>2, <1>3
  <1> QED BY <1>7, <1>8, <1>9, <1>10, <1>11

\* Going on without an event.
LEMMA SilentFlow ==
  ASSUME NEW t \in Tasks, Flow(t), UNCHANGED <<via, conn, task, chan>>,
         (Told(persisted[t]) => Told(persisted'[t])), May(t) \subseteq May(t)', Past(t)' <=> Past(t),
         server'[t].pc \in {"sources", "done"} => Told(persisted'[t])
  PROVE  Flow(t)'
  BY DEF Flow, Known

\* Where a get leads: what may have been written stays, and so does what was.
LEMMA AgainTypes ==
  ASSUME NEW t \in Tasks, Life(t), producer[t] \in Producer, server[t].pc \in {"get", "early"}
  PROVE  \/ Again(t) = "get" /\ ~Finished(t)
         \/ Again(t) = "complete" /\ Stage(t, "raised") /\ server[t].emitted
         \/ Again(t) = "fail" /\ Stage(t, "raised") /\ ~server[t].emitted
         \/ Again(t) = "drain" /\ producer[t].stage \in {"complete", "failed"}
  BY DEF Again, Finished, Stage

LEMMA AppendedTurn ==
  ASSUME NEW s \in Seq(Roles), NEW role \in Roles
  PROVE  /\ Append(s, role) \in Seq(Roles)
         /\ Told(s) => Told(Append(s, role))
         /\ role = "assistant" => Told(Append(s, role))
  <1>1. Append(s, role) \in Seq(Roles) /\ Len(Append(s, role)) = Len(s) + 1 /\ Len(s) \in Nat
    OBVIOUS
  <1>2. \A n \in 1 .. Len(s) : n \in 1 .. (Len(s) + 1) /\ Append(s, role)[n] = s[n]
    OBVIOUS
  <1>3. Len(s) + 1 \in 1 .. (Len(s) + 1) /\ Append(s, role)[Len(s) + 1] = role
    OBVIOUS
  <1> QED BY <1>1, <1>2, <1>3 DEF Told

LEMMA PersistTypes ==
  ASSUME Typed, NEW t \in Tasks, NEW role \in Roles, UNCHANGED persisted \/ Persist(t, role)
  PROVE  /\ persisted' \in [Tasks -> Seq(Roles)]
         /\ Told(persisted[t]) => Told(persisted'[t])
         /\ Persist(t, role) /\ role = "assistant" => Told(persisted'[t])
         /\ \A u \in Tasks \ {t} : persisted'[u] = persisted[u]
  <1>1. persisted \in [Tasks -> Seq(Roles)] /\ persisted[t] \in Seq(Roles)
    BY DEF Typed
  <1>2. CASE UNCHANGED persisted
    <2>1. Persist(t, role) /\ role = "assistant" => Told(persisted'[t])
      <3> SUFFICES ASSUME Persist(t, role), role = "assistant" PROVE Told(persisted'[t])
        OBVIOUS
      <3>1. persisted'[t] = Append(persisted[t], role)
        BY <1>1 DEF Persist
      <3> QED BY <1>1, <3>1, AppendedTurn
    <2> QED BY <1>1, <1>2, <2>1
  <1>3. CASE Persist(t, role)
    <2>1. /\ persisted'[t] = Append(persisted[t], role)
          /\ \A u \in Tasks \ {t} : persisted'[u] = persisted[u]
          /\ persisted' = [persisted EXCEPT ![t] = Append(persisted[t], role)]
      BY <1>1, <1>3 DEF Persist
    <2>2. Append(persisted[t], role) \in Seq(Roles)
      BY <1>1, AppendedTurn
    <2>3. persisted' \in [Tasks -> Seq(Roles)]
      BY <1>1, <2>1, <2>2
    <2> QED BY <1>1, <2>1, <2>3, AppendedTurn
  <1> QED BY <1>2, <1>3

\* A step of the generator past the routing, its connection and worker apart.
LEMMA MoveInv ==
  ASSUME Inv, NEW t \in Tasks, NEW s \in Server, server' = [server EXCEPT ![t] = s],
         UNCHANGED <<via, producer, conn, working, browser>>,
         server[t].pc \notin {"idle", "route", "closed", "gone"},
         s.pc \notin {"idle", "route", "gone"},
         queue' \in [Tasks -> Seq(Items)], \A u \in Tasks \ {t} : queue'[u] = queue[u],
         UNCHANGED chan \/ \E e \in Events : Yield(t, e),
         UNCHANGED persisted \/ Persist(t, "assistant"),
         Early(t)', Flow(t)',
         s.pc \in {"get", "early"} => server[t].pc \in {"get", "early"},
         s.pc = "drain" => producer[t].stage \in {"complete", "failed"},
         Busy(t) => s.pc \in {"get", "early"},
         server[t].pc \in {"complete", "sentinel"} => s.pc \in {"sentinel", "closed"}
  PROVE  Inv'
  <1>1. /\ Typed /\ Life(t) /\ UNCHANGED <<page, task, detached, here, faults, broken, reopened>>
    BY DEF Inv, Each, browser
  <1>2. /\ server' \in [Tasks -> Server] /\ server'[t] = s
        /\ \A u \in Tasks \ {t} : server'[u] = server[u]
    BY <1>1 DEF Typed
  <1>3. /\ chan' \in [Tasks -> Seq(Events)] /\ \A u \in Tasks : Len(chan'[u]) <= MaxInFlight
        /\ \A u \in Tasks \ {t} : chan'[u] = chan[u]
    BY <1>1, Yields DEF Typed
  <1>4. /\ persisted' \in [Tasks -> Seq(Roles)]
        /\ (Told(persisted[t]) => Told(persisted'[t]))
        /\ \A u \in Tasks \ {t} : persisted'[u] = persisted[u]
    BY <1>1, PersistTypes DEF Roles
  <1>5. Typed' /\ Aside(t)
    BY <1>1, <1>2, <1>3, <1>4 DEF Typed, Aside
  <1>6. Life(t)'
    BY <1>1, <1>2 DEF Life, At, Stage, Busy, Chat
  <1>7. (Ahead(t)' => Ahead(t)) /\ (Over(t) => Over(t)')
    BY <1>1, <1>2 DEF Ahead, Over, Busy
  <1> QED BY <1>1, <1>4, <1>5, <1>6, <1>7, ServeInv DEF Stage

\* Early(t) with part of the queue gone and nothing heard.
LEMMA EarlyKept ==
  ASSUME NEW t \in Tasks, Early(t), NEW k \in Int, \A n \in Heard(t)' : n + k \in Heard(t),
         UNCHANGED <<via, producer>>, server'[t].emitted = server[t].emitted,
         server'[t].pc \notin {"idle", "route", "early"},
         server'[t].pc \in {"sources", "done", "fail"} => ~server[t].emitted
  PROVE  Early(t)'
  <1>1. \A n \in Heard(t)' : n \in Int
    BY DEF Heard
  <1>2. ASSUME NEW m \in Heard(t)', NEW n \in Heard(t)' PROVE m = n
    <2>1. m + k \in Heard(t) /\ n + k \in Heard(t) /\ m \in Int /\ n \in Int
      BY <1>1
    <2>2. m + k = n + k
      BY <2>1 DEF Early
    <2> QED BY <2>1, <2>2
  <1>3. Heard(t)' # {} => Heard(t) # {}
    OBVIOUS
  <1> QED BY <1>2, <1>3 DEF Early, At

LEMMA Dequeued ==
  ASSUME Typed, NEW t \in Tasks, queue[t] # <<>>, NextItem(t)
  PROVE  /\ queue' \in [Tasks -> Seq(Items)] /\ \A u \in Tasks \ {t} : queue'[u] = queue[u]
         /\ \A n \in Heard(t)' : n + 1 \in Heard(t)
         /\ Item(t) \in Items /\ (Item(t) = "answer_ready" => 1 \in Heard(t))
  <1>1. queue \in [Tasks -> Seq(Items)] /\ queue[t] \in Seq(Items)
    BY DEF Typed
  <1>2. queue' = [queue EXCEPT ![t] = Tail(queue[t])]
    BY DEF NextItem
  <1>3. /\ Tail(queue[t]) \in Seq(Items) /\ Len(queue[t]) \in Nat /\ Len(queue[t]) >= 1
        /\ Len(Tail(queue[t])) = Len(queue[t]) - 1 /\ Head(queue[t]) = queue[t][1]
        /\ \A n \in 1 .. Len(queue[t]) - 1 : Tail(queue[t])[n] = queue[t][n + 1]
        /\ Head(queue[t]) \in Items
    BY <1>1
  <1>4. queue'[t] = Tail(queue[t])
    BY <1>1, <1>2
  <1>5. ASSUME NEW n \in Heard(t)' PROVE n + 1 \in Heard(t)
    <2>1. n \in 1 .. Len(queue[t]) - 1 /\ queue[t][n + 1] = "answer_ready"
      BY <1>3, <1>4 DEF Heard
    <2> QED BY <1>3, <2>1 DEF Heard
  <1>6. Item(t) = "answer_ready" => 1 \in Heard(t)
    BY <1>3 DEF Item, Heard
  <1> QED BY <1>1, <1>2, <1>3, <1>5, <1>6 DEF Item

LEMMA GotoTypes ==
  ASSUME Typed, NEW t \in Tasks, NEW pc \in Pcs, Goto(t, pc)
  PROVE  \E s \in Server : /\ server' = [server EXCEPT ![t] = s] /\ s.pc = pc
                           /\ s.emitted = server[t].emitted /\ server'[t] = s
  <1>1. server[t] \in Server /\ server \in [Tasks -> Server]
    BY DEF Typed
  <1>2. /\ [server[t] EXCEPT !.pc = pc] \in Server /\ [server[t] EXCEPT !.pc = pc].pc = pc
        /\ [server[t] EXCEPT !.pc = pc].emitted = server[t].emitted
    BY <1>1 DEF Server
  <1>3. server' = [server EXCEPT ![t] = [server[t] EXCEPT !.pc = pc]]
    BY DEF Goto
  <1> QED BY <1>1, <1>2, <1>3

\* From a get, wherever it leads.
LEMMA AgainKeeps ==
  ASSUME NEW t \in Tasks, server[t].pc = "get", server'[t].emitted = server[t].emitted,
         \/ server'[t].pc \in {"get", "drain"}
         \/ server'[t].pc = "complete" /\ server[t].emitted
         \/ server'[t].pc = "fail" /\ ~server[t].emitted
  PROVE  /\ May(t) \subseteq May(t)' /\ (Past(t)' <=> Past(t))
         /\ ~server[t].emitted => May(t) = Before /\ ~Past(t)
  BY DEF May, Past, Outcome

LEMMA TimeoutInv ==
  ASSUME Inv, NEW t \in Tasks, Timeout(t) \/ Relay(t) \/ Drop(t)
  PROVE  Inv'
  <1>1. /\ server[t].pc = "get" /\ Goto(t, Again(t))
        /\ UNCHANGED <<via, producer, conn, persisted, working, browser, task>>
        /\ \/ queue' = queue /\ Finished(t)
           \/ queue[t] # <<>> /\ NextItem(t)
        /\ \/ UNCHANGED chan
           \/ Yield(t, Item(t)) /\ Relayed(t) /\ queue[t] # <<>> /\ NextItem(t)
    BY DEF Timeout, Relay, Drop, At, db, browser
  <1>2. Typed /\ Each(t) /\ producer[t] \in Producer /\ server[t] \in Server
    BY DEF Inv, Typed
  <1>3. \/ Again(t) = "get" /\ ~Finished(t)
        \/ Again(t) = "complete" /\ Stage(t, "raised") /\ server[t].emitted
        \/ Again(t) = "fail" /\ Stage(t, "raised") /\ ~server[t].emitted
        \/ Again(t) = "drain" /\ producer[t].stage \in {"complete", "failed"}
    BY <1>1, <1>2, AgainTypes DEF Each
  <1>4. PICK s \in Server : /\ server' = [server EXCEPT ![t] = s] /\ s.pc = Again(t)
                            /\ s.emitted = server[t].emitted /\ server'[t] = s
    BY <1>1, <1>2, <1>3, GotoTypes DEF Pcs
  <1>5. /\ queue' \in [Tasks -> Seq(Items)] /\ \A u \in Tasks \ {t} : queue'[u] = queue[u]
        /\ \E k \in Int : \A n \in Heard(t)' : n + k \in Heard(t)
    <2>1. CASE queue' = queue
      <3>1. \A n \in Heard(t)' : n + 0 \in Heard(t)
        BY <2>1 DEF Heard
      <3> QED BY <1>2, <2>1, <3>1 DEF Typed
    <2>2. CASE queue[t] # <<>> /\ NextItem(t)
      <3>1. \A n \in Heard(t)' : n + 1 \in Heard(t)
        BY <1>2, <2>2, Dequeued
      <3>2. 1 \in Int
        OBVIOUS
      <3> QED BY <1>2, <2>2, <3>1, <3>2, Dequeued
    <2> QED BY <1>1, <2>1, <2>2
  <1>6. Early(t)'
    BY <1>1, <1>2, <1>3, <1>4, <1>5, EarlyKept DEF Each
  <1>7. /\ May(t) \subseteq May(t)' /\ (Past(t)' <=> Past(t))
        /\ ~server[t].emitted => May(t) = Before /\ ~Past(t)
    BY <1>1, <1>3, <1>4, AgainKeeps
  <1>8. Flow(t)' /\ (UNCHANGED chan \/ \E e \in Events : Yield(t, e))
    <2>1. CASE UNCHANGED chan
      BY <1>1, <1>2, <1>3, <1>4, <1>7, <2>1, SilentFlow DEF Each
    <2>2. CASE Yield(t, Item(t)) /\ Relayed(t) /\ queue[t] # <<>> /\ NextItem(t)
      <3>1. Item(t) \in {"token", "status"} /\ ~server[t].emitted
        BY <1>2, <2>2, Dequeued DEF Relayed, Items
      <3>2. /\ Item(t) \in Events /\ Item(t) \notin Outcome /\ Item(t) # "done"
            /\ \A x \in Before : Item(t) \in After(x)
            /\ Item(t) \in Before
        BY <3>1 DEF Events, Outcome, Before, After
      <3>3. Flow(t)'
        BY <1>1, <1>2, <1>3, <1>4, <1>7, <2>2, <3>1, <3>2, YieldFlow DEF Each
      <3> QED BY <2>2, <3>2, <3>3
    <2> QED BY <1>1, <2>1, <2>2
  <1>9. Busy(t) => s.pc = "get"
    BY <1>3, <1>4 DEF Busy, Finished, Stage
  <1> QED BY <1>1, <1>3, <1>4, <1>5, <1>6, <1>8, <1>9, MoveInv

LEMMA EarlySourcesInv ==
  ASSUME Inv, NEW t \in Tasks, EarlySources(t)
  PROVE  Inv'
  <1> DEFINE s == [pc |-> "early", emitted |-> TRUE]
  <1>1. /\ server[t].pc = "get" /\ queue[t] # <<>> /\ NextItem(t) /\ Item(t) = "answer_ready"
        /\ Yield(t, "sources") /\ server' = [server EXCEPT ![t] = s]
        /\ UNCHANGED <<via, producer, conn, persisted, working, browser, task>>
    BY DEF EarlySources, At, db, browser
  <1>2. /\ Typed /\ Each(t) /\ server'[t] = s /\ s \in Server
        /\ s.pc = "early" /\ s.emitted = TRUE
    BY <1>1 DEF Inv, Typed, Server, Pcs
  <1> HIDE DEF s
  <1>3. /\ queue' \in [Tasks -> Seq(Items)] /\ \A u \in Tasks \ {t} : queue'[u] = queue[u]
        /\ 1 \in Heard(t) /\ \A n \in Heard(t)' : n + 1 \in Heard(t)
    BY <1>1, <1>2, Dequeued
  <1>4. Early(t)'
    <2>1. \A n \in Heard(t)' : n \in Nat /\ n >= 1
      BY DEF Heard
    <2>2. Heard(t)' = {}
      <3> SUFFICES ASSUME NEW n \in Heard(t)' PROVE FALSE
        OBVIOUS
      <3>1. n + 1 = 1
        BY <1>2, <1>3 DEF Each, Early
      <3> QED BY <2>1, <3>1
    <2>3. via[t] = "chat" /\ ~(producer[t].stage \in {"none", "routing", "run"})
      BY <1>2, <1>3 DEF Each, Early
    <2> QED BY <1>1, <1>2, <2>2, <2>3 DEF Early, At
  <1>5. Flow(t)'
    <2>1. ~server[t].emitted
      BY <1>2, <1>3 DEF Each, Early
    <2>2. /\ May(t) = Before /\ ~Past(t) /\ ~Past(t)' /\ May(t)' = Before \cup {"sources"}
          /\ "sources" \notin Outcome /\ \A x \in Before : "sources" \in After(x)
          /\ "sources" \in Events
      BY <1>1, <1>2, <2>1 DEF May, Past, Before, Outcome, After, Events
    <2> QED BY <1>1, <1>2, <2>2, YieldFlow DEF Each
  <1>6. "sources" \in Events
    BY DEF Events
  <1> QED BY <1>1, <1>2, <1>3, <1>4, <1>5, <1>6, MoveInv

LEMMA EarlyDoneInv ==
  ASSUME Inv, NEW t \in Tasks, EarlyDone(t)
  PROVE  Inv'
  <1>1. /\ server[t].pc = "early" /\ Yield(t, "done") /\ Persist(t, "assistant") /\ Goto(t, Again(t))
        /\ UNCHANGED <<via, producer, queue, conn, working, browser, task>>
    BY DEF EarlyDone, At, browser
  <1>2. Typed /\ Each(t) /\ producer[t] \in Producer /\ server[t] \in Server
    BY DEF Inv, Typed
  <1>3. server[t].emitted
    BY <1>1, <1>2 DEF Each, Early, At
  <1>4. \/ Again(t) = "get" /\ ~Finished(t)
        \/ Again(t) = "complete" /\ Stage(t, "raised")
        \/ Again(t) = "drain" /\ producer[t].stage \in {"complete", "failed"}
    BY <1>1, <1>2, <1>3, AgainTypes DEF Each
  <1>5. Again(t) \in {"get", "complete", "drain"}
    BY <1>4
  <1>6. PICK s \in Server : /\ server' = [server EXCEPT ![t] = s] /\ s.pc = Again(t)
                            /\ s.emitted = server[t].emitted /\ server'[t] = s
    BY <1>1, <1>2, <1>5, GotoTypes DEF Pcs
  <1>7. (Told(persisted[t]) => Told(persisted'[t])) /\ Told(persisted'[t])
    BY <1>1, <1>2, PersistTypes DEF Roles
  <1>8. Early(t)'
    <2>1. \A n \in Heard(t)' : n + 0 \in Heard(t)
      BY <1>1 DEF Heard
    <2> QED BY <1>1, <1>2, <1>5, <1>6, <2>1, EarlyKept DEF Each
  <1>9. Flow(t)'
    <2>1. /\ May(t) = Before \cup {"sources"} /\ ~Past(t) /\ Past(t)'
          /\ May(t) \cup {"done"} \subseteq May(t)'
          /\ "done" \in Outcome /\ \A x \in Before \cup {"sources"} : "done" \in After(x)
          /\ "done" \in Events
      BY <1>1, <1>2, <1>3, <1>5, <1>6 DEF May, Past, Before, Outcome, After, Events
    <2> QED BY <1>1, <1>2, <1>7, <2>1, YieldFlow DEF Each
  <1>10. "done" \in Events /\ (Busy(t) => s.pc = "get")
    BY <1>4, <1>6 DEF Events, Busy, Finished, Stage
  <1>11. queue' \in [Tasks -> Seq(Items)] /\ \A u \in Tasks \ {t} : queue'[u] = queue[u]
    BY <1>1, <1>2 DEF Typed
  <1> QED BY <1>1, <1>4, <1>6, <1>8, <1>9, <1>10, <1>11, MoveInv

LEMMA DrainItemInv ==
  ASSUME Inv, NEW t \in Tasks, DrainItem(t)
  PROVE  Inv'
  <1>1. /\ server[t].pc = "drain"
        /\ UNCHANGED <<via, server, producer, conn, persisted, working, browser, task>>
    BY DEF DrainItem, At, db, browser
  <1>2. PICK n \in Drains(t) : /\ Yield(t, queue[t][n])
                               /\ queue' = [queue EXCEPT ![t] = SubSeq(@, n + 1, Len(@))]
    BY DEF DrainItem
  <1>3. /\ Typed /\ Each(t) /\ server[t] \in Server /\ server' = [server EXCEPT ![t] = server[t]]
        /\ queue \in [Tasks -> Seq(Items)] /\ queue[t] \in Seq(Items) /\ Len(queue[t]) \in Nat
    BY <1>1 DEF Inv, Typed
  <1>4. /\ n \in 1 .. Len(queue[t]) /\ ~server[t].emitted /\ queue[t][n] # "answer_ready"
        /\ queue[t][n] \in Items
    BY <1>3 DEF Drains
  <1> DEFINE q == SubSeq(queue[t], n + 1, Len(queue[t]))
  <1>5. /\ q \in Seq(Items) /\ Len(q) = Len(queue[t]) - n
        /\ \A i \in 1 .. Len(queue[t]) - n : q[i] = queue[t][i + n]
    BY <1>3, <1>4
  <1>6. queue'[t] = q /\ queue' \in [Tasks -> Seq(Items)] /\ \A u \in Tasks \ {t} : queue'[u] = queue[u]
    BY <1>2, <1>3, <1>5
  <1> HIDE DEF q
  <1>7. Early(t)'
    <2>1. ASSUME NEW i \in Heard(t)' PROVE i + n \in Heard(t)
      <3>1. i \in 1 .. Len(queue[t]) - n /\ q[i] = "answer_ready"
        BY <1>5, <1>6 DEF Heard
      <3> QED BY <1>3, <1>4, <1>5, <3>1 DEF Heard
    <2>2. n \in Int
      BY <1>4
    <2> QED BY <1>1, <1>3, <1>4, <2>1, <2>2, EarlyKept DEF Each
  <1>8. queue[t][n] \in Events /\ Flow(t)'
    <2>1. queue[t][n] \in {"token", "status"}
      BY <1>4 DEF Items
    <2>2. /\ May(t) = Before /\ May(t)' = Before /\ ~Past(t) /\ ~Past(t)'
      BY <1>1, <1>4 DEF May, Past
    <2>3. /\ queue[t][n] \in Events /\ queue[t][n] \in Before /\ queue[t][n] \notin Outcome
          /\ queue[t][n] # "done" /\ \A x \in Before : queue[t][n] \in After(x)
      BY <2>1 DEF Events, Before, Outcome, After
    <2> QED BY <1>1, <1>2, <1>3, <2>2, <2>3, YieldFlow DEF Each
  <1>9. /\ producer[t].stage \in {"complete", "failed"} /\ ~Busy(t)
    BY <1>1, <1>3 DEF Each, Life, At, Busy
  <1> QED BY <1>1, <1>2, <1>3, <1>6, <1>7, <1>8, <1>9, MoveInv

LEMMA AnsweredInv ==
  ASSUME Inv, NEW t \in Tasks, Answered(t)
  PROVE  Inv'
  <1> DEFINE pc == IF server[t].emitted THEN "complete" ELSE "fail"
  <1>1. /\ server[t].pc = "drain" /\ Goto(t, pc)
        /\ UNCHANGED <<via, producer, queue, conn, chan, persisted, working, browser, task>>
    BY DEF Answered, At, db, browser
  <1>2. Typed /\ Each(t) /\ server[t] \in Server
    BY DEF Inv, Typed
  <1>3. PICK s \in Server : /\ server' = [server EXCEPT ![t] = s] /\ s.pc = pc
                            /\ s.emitted = server[t].emitted /\ server'[t] = s
    BY <1>1, <1>2, GotoTypes DEF Pcs
  <1>4. Early(t)'
    <2>1. \A n \in Heard(t)' : n + 0 \in Heard(t)
      BY <1>1 DEF Heard
    <2> QED BY <1>1, <1>2, <1>3, <2>1, EarlyKept DEF Each
  <1>5. Flow(t)'
    <2>1. May(t) \subseteq May(t)' /\ (Past(t)' <=> Past(t))
      BY <1>1, <1>3 DEF May, Past, Outcome
    <2> QED BY <1>1, <1>2, <1>3, <2>1, SilentFlow DEF Each
  <1>6. ~Busy(t)
    BY <1>1, <1>2 DEF Each, Life, At, Busy
  <1>7. queue' \in [Tasks -> Seq(Items)] /\ \A u \in Tasks \ {t} : queue'[u] = queue[u]
    BY <1>1, <1>2 DEF Typed
  <1> QED BY <1>1, <1>3, <1>4, <1>5, <1>6, <1>7, MoveInv

LEMMA LateAnswerInv ==
  ASSUME Inv, NEW t \in Tasks, LateAnswer(t)
  PROVE  Inv'
  <1>1. /\ server[t].pc = "drain" /\ ~server[t].emitted /\ Goto(t, "sources")
        /\ Persist(t, "assistant")
        /\ UNCHANGED <<via, producer, queue, conn, chan, working, browser, task>>
    BY DEF LateAnswer, At, browser
  <1>2. Typed /\ Each(t) /\ server[t] \in Server
    BY DEF Inv, Typed
  <1>3. PICK s \in Server : /\ server' = [server EXCEPT ![t] = s] /\ s.pc = "sources"
                            /\ s.emitted = server[t].emitted /\ server'[t] = s
    BY <1>1, <1>2, GotoTypes DEF Pcs
  <1>4. Early(t)'
    <2>1. \A n \in Heard(t)' : n + 0 \in Heard(t)
      BY <1>1 DEF Heard
    <2> QED BY <1>1, <1>2, <1>3, <2>1, EarlyKept DEF Each
  <1>5. Flow(t)'
    <2>1. May(t) \subseteq May(t)' /\ (Past(t)' <=> Past(t))
      BY <1>1, <1>3 DEF May, Past
    <2>2. (Told(persisted[t]) => Told(persisted'[t])) /\ Told(persisted'[t])
      BY <1>1, <1>2, PersistTypes DEF Roles
    <2> QED BY <1>1, <1>2, <1>3, <2>1, <2>2, SilentFlow DEF Each
  <1>6. ~Busy(t)
    BY <1>1, <1>2 DEF Each, Life, At, Busy
  <1>7. queue' \in [Tasks -> Seq(Items)] /\ \A u \in Tasks \ {t} : queue'[u] = queue[u]
    BY <1>1, <1>2 DEF Typed
  <1> QED BY <1>1, <1>3, <1>4, <1>5, <1>6, <1>7, MoveInv

\* The last events, in their order.
LEMMA Endings ==
  ASSUME NEW t \in Tasks, Say(t)
  PROVE  \E pc \in Pcs, e \in Events :
            /\ Yield(t, e) /\ Goto(t, pc)
            /\ <<server[t].pc, e, pc>> \in {<<"sources", "sources", "done">>,
                                            <<"done", "done", "complete">>,
                                            <<"fail", "error", "complete">>,
                                            <<"complete", "task_complete", "sentinel">>,
                                            <<"sentinel", "[DONE]", "closed">>}
  <1>1. /\ server[t].pc \in {"sources", "done", "fail", "complete", "sentinel"}
        /\ Yield(t, Written[server[t].pc]) /\ Goto(t, Ending[server[t].pc])
    BY DEF Say, Ending
  <1>2. CASE server[t].pc = "sources"
    BY <1>1, <1>2 DEF Written, Ending, Pcs, Events
  <1>3. CASE server[t].pc = "done"
    BY <1>1, <1>3 DEF Written, Ending, Pcs, Events
  <1>4. CASE server[t].pc = "fail"
    BY <1>1, <1>4 DEF Written, Ending, Pcs, Events
  <1>5. CASE server[t].pc = "complete"
    BY <1>1, <1>5 DEF Written, Ending, Pcs, Events
  <1>6. CASE server[t].pc = "sentinel"
    BY <1>1, <1>6 DEF Written, Ending, Pcs, Events
  <1> QED BY <1>1, <1>2, <1>3, <1>4, <1>5, <1>6

LEMMA SayInv ==
  ASSUME Inv, NEW t \in Tasks, Say(t)
  PROVE  Inv'
  <1>1. /\ queue' = [queue EXCEPT ![t] = <<>>]
        /\ UNCHANGED <<via, producer, conn, persisted, working, browser, task>>
    BY DEF Say, db, browser
  <1>2. Typed /\ Each(t) /\ server[t] \in Server
    BY DEF Inv, Typed
  <1>3. PICK pc \in Pcs, e \in Events :
            /\ Yield(t, e) /\ Goto(t, pc)
            /\ <<server[t].pc, e, pc>> \in {<<"sources", "sources", "done">>,
                                            <<"done", "done", "complete">>,
                                            <<"fail", "error", "complete">>,
                                            <<"complete", "task_complete", "sentinel">>,
                                            <<"sentinel", "[DONE]", "closed">>}
    BY Endings
  <1>4. \/ server[t].pc = "sources" /\ e = "sources" /\ pc = "done"
        \/ server[t].pc = "done" /\ e = "done" /\ pc = "complete"
        \/ server[t].pc = "fail" /\ e = "error" /\ pc = "complete"
        \/ server[t].pc = "complete" /\ e = "task_complete" /\ pc = "sentinel"
        \/ server[t].pc = "sentinel" /\ e = "[DONE]" /\ pc = "closed"
    BY <1>3
  <1>5. PICK s \in Server : /\ server' = [server EXCEPT ![t] = s] /\ s.pc = pc
                            /\ s.emitted = server[t].emitted /\ server'[t] = s
    BY <1>2, <1>3, GotoTypes
  <1>6. /\ queue' \in [Tasks -> Seq(Items)] /\ \A u \in Tasks \ {t} : queue'[u] = queue[u]
        /\ queue'[t] = <<>>
    BY <1>1, <1>2 DEF Typed
  <1>7. Early(t)'
    <2>1. \A n \in Heard(t)' : n + 0 \in Heard(t)
      BY <1>6 DEF Heard
    <2>2. pc \in {"done", "complete", "sentinel", "closed"} /\ (pc = "done" => server[t].pc = "sources")
      BY <1>4
    <2>3. pc = "done" => ~server[t].emitted
      BY <1>2, <2>2 DEF Each, Early
    <2> QED BY <1>1, <1>2, <1>5, <2>1, <2>2, <2>3, EarlyKept DEF Each
  <1>8. Flow(t)'
    <2>1. /\ \A x \in May(t) : e \in After(x)
          /\ May(t) \cup {e} \subseteq May(t)'
          /\ Past(t)' <=> Past(t) \/ e \in Outcome
          /\ Past(t) => e \in Closings
      <3>1. CASE server[t].pc = "sources" /\ e = "sources" /\ pc = "done"
        BY <1>5, <3>1 DEF May, Past, Before, Outcome, Closings, After, Events
      <3>2. CASE server[t].pc = "done" /\ e = "done" /\ pc = "complete"
        BY <1>5, <3>2 DEF May, Past, Before, Outcome, Closings, After, Events
      <3>3. CASE server[t].pc = "fail" /\ e = "error" /\ pc = "complete"
        BY <1>5, <3>3 DEF May, Past, Before, Outcome, Closings, After, Events
      <3>4. CASE server[t].pc = "complete" /\ e = "task_complete" /\ pc = "sentinel"
        BY <1>5, <3>4 DEF May, Past, Before, Outcome, Closings, After, Events
      <3>5. CASE server[t].pc = "sentinel" /\ e = "[DONE]" /\ pc = "closed"
        BY <1>5, <3>5 DEF May, Past, Before, Outcome, Closings, After, Events
      <3> QED BY <1>4, <3>1, <3>2, <3>3, <3>4, <3>5
    <2>2. conn[t] = "open" /\ via[t] # "files" =>
            (e = "done" \/ server'[t].pc \in {"sources", "done"} => Told(persisted'[t]))
      <3>1. e = "done" \/ pc \in {"sources", "done"} => server[t].pc \in {"sources", "done"}
        BY <1>4
      <3> QED BY <1>1, <1>2, <1>5, <3>1 DEF Each, Flow
    <2> QED BY <1>1, <1>2, <1>3, <2>1, <2>2, YieldFlow DEF Each
  <1>9. server[t].pc \in {"sources", "done", "fail", "complete", "sentinel"}
        /\ pc \in {"done", "complete", "sentinel", "closed"}
        /\ (server[t].pc \in {"complete", "sentinel"} => pc \in {"sentinel", "closed"})
    BY <1>4
  <1>10. ~Busy(t)
    BY <1>2, <1>9 DEF Each, Life
  <1> QED BY <1>1, <1>3, <1>5, <1>6, <1>7, <1>8, <1>9, <1>10, MoveInv

\* The routing of a task, from its generator to its worker.
LEMMA RoutedInv ==
  ASSUME Inv, NEW t \in Tasks, Routed(t) \/ Unroutable(t)
  PROVE  Inv'
  <1> DEFINE ok == Routed(t)
             pc == IF ok THEN "get" ELSE "sentinel"
             st == IF ok THEN "run" ELSE "none"
             e  == IF ok THEN "status" ELSE "error"
  <1>1. /\ server[t].pc = "route" /\ Goto(t, pc) /\ Become(t, st) /\ Yield(t, e)
        /\ UNCHANGED <<via, queue, conn, persisted, working, browser, task>>
    BY DEF Routed, Unroutable, At, db, browser
  <1>2. /\ \/ pc = "get" /\ st = "run" /\ e = "status"
           \/ pc = "sentinel" /\ st = "none" /\ e = "error"
        /\ pc \in Pcs /\ st \in Stages /\ e \in Events
    BY DEF Pcs, Stages, Events
  <1> HIDE DEF ok, pc, st, e
  <1>3. Typed /\ Each(t) /\ server[t] \in Server /\ producer[t] \in Producer
    BY DEF Inv, Typed
  <1>4. PICK s \in Server : /\ server' = [server EXCEPT ![t] = s] /\ s.pc = pc
                            /\ s.emitted = server[t].emitted /\ server'[t] = s
    BY <1>1, <1>2, <1>3, GotoTypes
  <1> DEFINE r == [producer[t] EXCEPT !.stage = st]
  <1>5. /\ producer' = [producer EXCEPT ![t] = r] /\ r \in Producer /\ r.stage = st
        /\ r.base = producer[t].base /\ producer[t].base = {}
    <2>1. producer[t].base = {} /\ Stage(t, "routing")
      BY <1>1, <1>3 DEF Each, Life, At, Stage
    <2>2. producer' = [producer EXCEPT ![t] = r]
      BY <1>1 DEF Become
    <2> QED BY <1>2, <1>3, <2>1, <2>2 DEF Producer
  <1> HIDE DEF r
  <1>6. producer[t].stage = "routing" /\ ~server[t].emitted /\ queue[t] = <<>>
    BY <1>1, <1>3 DEF Each, Life, Early, At, Stage
  <1>7. /\ producer' \in [Tasks -> Producer] /\ producer'[t] = r
        /\ \A u \in Tasks \ {t} : producer'[u] = producer[u]
        /\ server' \in [Tasks -> Server] /\ \A u \in Tasks \ {t} : server'[u] = server[u]
    BY <1>3, <1>4, <1>5 DEF Typed
  <1>8. /\ chan' \in [Tasks -> Seq(Events)] /\ \A u \in Tasks : Len(chan'[u]) <= MaxInFlight
        /\ \A u \in Tasks \ {t} : chan'[u] = chan[u]
    BY <1>1, <1>2, <1>3, Yields
  <1>9. Typed' /\ Aside(t)
    BY <1>1, <1>3, <1>7, <1>8 DEF Typed, Aside, browser
  <1>10. Life(t)'
    BY <1>1, <1>2, <1>3, <1>4, <1>5, <1>7 DEF Each, Life, At, Stage, Busy, Chat, browser
  <1>11. Early(t)'
    <2>1. Heard(t)' = {}
      BY <1>1, <1>6 DEF Heard
    <2> QED BY <1>1, <1>2, <1>4, <1>6, <2>1 DEF Early, At
  <1>12. Flow(t)'
    <2>1. /\ \A x \in May(t) : e \in After(x)
          /\ May(t) \cup {e} \subseteq May(t)'
          /\ Past(t)' <=> Past(t) \/ e \in Outcome
          /\ Past(t) => e \in Closings
          /\ e # "done" /\ server'[t].pc \notin {"sources", "done"}
      BY <1>1, <1>2, <1>4, <1>6 DEF May, Past, Before, Outcome, Closings, After, Events
    <2> QED BY <1>1, <1>2, <1>3, <2>1, YieldFlow DEF Each
  <1>13. (Ahead(t)' => Ahead(t)) /\ (Over(t) => Over(t)')
    BY <1>1, <1>6 DEF Ahead, Over, Busy, browser
  <1>14. Stage(t, "infer")' => Stage(t, "infer") /\ producer'[t].base = producer[t].base
    BY <1>2, <1>5, <1>7 DEF Stage
  <1> QED BY <1>1, <1>5, <1>7, <1>9, <1>10, <1>11, <1>12, <1>13, <1>14, ServeInv

LEMMA StartInv ==
  ASSUME Inv, NEW t \in Tasks, Start(t)
  PROVE  Inv'
  <1>1. /\ conn[t] = "connecting" /\ conn' = [conn EXCEPT ![t] = "open"]
        /\ chan' = [chan EXCEPT ![t] = <<"status">>] /\ Persist(t, "user")
        /\ Goto(t, "route") /\ Become(t, "routing")
        /\ UNCHANGED <<via, queue, working, browser, task>>
    BY DEF Start, browser
  <1>2. Typed /\ Each(t) /\ server[t] \in Server /\ producer[t] \in Producer
    BY DEF Inv, Typed
  <1>3. PICK s \in Server : /\ server' = [server EXCEPT ![t] = s] /\ s.pc = "route"
                            /\ s.emitted = server[t].emitted /\ server'[t] = s
    BY <1>1, <1>2, GotoTypes DEF Pcs
  <1> DEFINE r == [producer[t] EXCEPT !.stage = "routing"]
  <1>4. /\ producer' = [producer EXCEPT ![t] = r] /\ r \in Producer /\ r.stage = "routing"
        /\ r.base = producer[t].base /\ producer[t].base = {}
    <2>1. producer[t].base = {}
      BY <1>1, <1>2 DEF Each, Life, At, Stage
    <2>2. producer' = [producer EXCEPT ![t] = r]
      BY <1>1 DEF Become
    <2> QED BY <1>2, <2>1, <2>2 DEF Producer, Stages
  <1> HIDE DEF r
  <1>5. server[t].pc = "idle" /\ ~server[t].emitted /\ queue[t] = <<>> /\ t \in here /\ via[t] # "none"
        /\ ~Known(t)
    BY <1>1, <1>2 DEF Each, Life, Early, Display, At
  <1>6. /\ producer' \in [Tasks -> Producer] /\ producer'[t] = r
        /\ \A u \in Tasks \ {t} : producer'[u] = producer[u]
        /\ server' \in [Tasks -> Server] /\ \A u \in Tasks \ {t} : server'[u] = server[u]
    BY <1>2, <1>3, <1>4 DEF Typed
  <1>7. /\ chan' \in [Tasks -> Seq(Events)] /\ \A u \in Tasks : Len(chan'[u]) <= MaxInFlight
        /\ \A u \in Tasks \ {t} : chan'[u] = chan[u]
        /\ Len(chan'[t]) = 1 /\ chan'[t][1] = "status"
    <2>1. /\ <<"status">> \in Seq(Events) /\ Len(<<"status">>) = 1 /\ <<"status">>[1] = "status"
      BY DEF Events
    <2>2. chan'[t] = <<"status">> /\ \A u \in Tasks \ {t} : chan'[u] = chan[u]
      BY <1>1, <1>2 DEF Typed
    <2>3. chan' \in [Tasks -> Seq(Events)]
      BY <1>1, <1>2, <2>1 DEF Typed
    <2>4. Len(chan'[t]) <= MaxInFlight /\ \A u \in Tasks \ {t} : Len(chan'[u]) <= MaxInFlight
      <3>1. 1 <= MaxInFlight /\ Len(chan'[t]) = 1
        BY <2>1, <2>2, BoundsAssumption
      <3>2. \A u \in Tasks : Len(chan[u]) <= MaxInFlight
        BY <1>2 DEF Typed
      <3> QED BY <2>2, <3>1, <3>2
    <2> QED BY <2>1, <2>2, <2>3, <2>4
  <1>8. /\ conn' \in [Tasks -> Conns] /\ conn'[t] = "open"
        /\ \A u \in Tasks \ {t} : conn'[u] = conn[u]
    BY <1>1, <1>2 DEF Typed, Conns
  <1>9. /\ persisted' \in [Tasks -> Seq(Roles)]
        /\ (Told(persisted[t]) => Told(persisted'[t]))
        /\ \A u \in Tasks \ {t} : persisted'[u] = persisted[u]
    BY <1>1, <1>2, PersistTypes DEF Roles
  <1>10. Typed' /\ Aside(t)
    BY <1>1, <1>2, <1>6, <1>7, <1>8, <1>9 DEF Typed, Aside, browser
  <1>11. Life(t)'
    BY <1>1, <1>2, <1>3, <1>4, <1>5, <1>6, <1>8 DEF Each, Life, At, Stage, Busy, Chat, browser
  <1>12. Early(t)'
    <2>1. Heard(t)' = {}
      BY <1>1, <1>5 DEF Heard
    <2> QED BY <1>1, <1>3, <1>5, <2>1 DEF Early, At
  <1>13. Flow(t)'
    <2>1. /\ May(t)' = Before /\ "status" \in Before /\ "status" \notin Outcome /\ ~Past(t)'
          /\ server'[t].pc \notin {"sources", "done"} /\ ~Known(t)'
      BY <1>1, <1>3, <1>5 DEF May, Past, Known, Before, Outcome, browser
    <2>2. \A n \in 1 .. Len(chan'[t]) : n = 1 /\ chan'[t][n] = "status"
      BY <1>7
    <2> QED BY <2>1, <2>2 DEF Flow
  <1>14. (Ahead(t)' => Ahead(t)) /\ ~Over(t)
    BY <1>1, <1>5 DEF Ahead, Over, browser
  <1>15. ~Stage(t, "infer")'
    BY <1>4, <1>6 DEF Stage
  <1> QED BY <1>1, <1>4, <1>6, <1>8, <1>9, <1>10, <1>11, <1>12, <1>13, <1>14, <1>15, ServeInv

\* The generator of a lost connection ends where it is.
LEMMA CancelInv ==
  ASSUME Inv, NEW t \in Tasks, Cancel(t)
  PROVE  Inv'
  <1>1. /\ conn[t] = "cut" /\ server[t].pc \notin {"idle", "closed", "gone"} /\ Goto(t, "gone")
        /\ queue' = [queue EXCEPT ![t] = <<>>]
        /\ UNCHANGED <<via, producer, conn, chan, persisted, working, browser, task>>
    BY DEF Cancel, db, browser
  <1>2. Typed /\ Each(t) /\ server[t] \in Server
    BY DEF Inv, Typed
  <1>3. PICK s \in Server : /\ server' = [server EXCEPT ![t] = s] /\ s.pc = "gone"
                            /\ s.emitted = server[t].emitted /\ server'[t] = s
    BY <1>1, <1>2, GotoTypes DEF Pcs
  <1>4. /\ queue' \in [Tasks -> Seq(Items)] /\ \A u \in Tasks \ {t} : queue'[u] = queue[u]
        /\ queue'[t] = <<>>
        /\ server' \in [Tasks -> Server] /\ \A u \in Tasks \ {t} : server'[u] = server[u]
    BY <1>1, <1>2, <1>3 DEF Typed
  <1>5. Typed' /\ Aside(t)
    BY <1>1, <1>2, <1>4 DEF Typed, Aside, browser
  <1>6. Life(t)'
    BY <1>1, <1>2, <1>3 DEF Each, Life, At, Stage, Busy, Chat, browser
  <1>7. Early(t)'
    <2>1. \A n \in Heard(t)' : n + 0 \in Heard(t)
      BY <1>4 DEF Heard
    <2>2. Early(t) /\ UNCHANGED <<via, producer>> /\ 0 \in Int
      BY <1>1, <1>2 DEF Each
    <2>3. server'[t].emitted = server[t].emitted /\ server'[t].pc = "gone"
      BY <1>3
    <2> QED BY <2>1, <2>2, <2>3, EarlyKept
  <1>8. Flow(t)'
    BY <1>1 DEF Flow
  <1>9. (Ahead(t)' => Ahead(t)) /\ (Over(t) => Over(t)')
    BY <1>1, <1>3 DEF Ahead, Over, Busy, browser
  <1> QED BY <1>1, <1>5, <1>6, <1>7, <1>8, <1>9, ServeInv DEF Stage

-----------------------------------------------------------------------------
(* The page                                                                *)

LEMMA EarlyAside ==
  ASSUME NEW t \in Tasks, Early(t), UNCHANGED <<server, producer, queue>>,
         via[t] # "none" => via'[t] = via[t]
  PROVE  Early(t)'
  BY DEF Early, Heard, At

\* The input may be enabled again; what is under way has then escaped its gate.
LEMMA PageInv ==
  ASSUME Inv, NEW t \in Tasks, Typed', Aside(t),
         UNCHANGED <<via, server, producer, queue, working, here, detached>>,
         broken \subseteq broken', reopened' = reopened \cup Reopened(t),
         page'.finalizing => page.finalizing,
         Ahead(t)' => Ahead(t) /\ (page.finalizing => page'.finalizing),
         Over(t) => Over(t)',
         t \in here \ broken' /\ via[t] = "attach" /\ task'[t].resolved => Over(t)',
         Life(t)', Flow(t)', Display(t)'
  PROVE  Inv'
  <1>1. /\ Typed /\ Gated /\ Counts /\ (\A u \in Tasks : Each(u))
    BY DEF Inv
  <1>2. \A u \in Tasks : Each(u)'
    BY <1>1, AsideEach, EarlyAside DEF Each
  <1>3. Counts'
    <2>1. \A x \in Tasks : Escaped(x) => Escaped(x)'
      BY DEF Escaped
    <2>2. \A u \in Tasks : /\ producer'[u].base \subseteq producer[u].base
                           /\ Stage(u, "infer")' => Stage(u, "infer") /\ producer'[u].base = producer[u].base
      BY DEF Stage
    <2>3. UNCHANGED working /\ \A x \in Tasks : via'[x] = via[x]
      OBVIOUS
    <2> QED BY <1>1, <2>1, <2>2, <2>3, CountsKept
  <1>4. \A u \in Tasks : Ahead(u)' => Ahead(u)
    BY DEF Aside, Ahead
  <1>5. \A u \in Tasks : Ahead(u)' => page'.finalizing
    <2> SUFFICES ASSUME NEW u \in Tasks, Ahead(u)', ~page'.finalizing PROVE FALSE
      OBVIOUS
    <2>1. Ahead(u) /\ page.finalizing
      BY <1>1, <1>4 DEF Gated
    <2>2. u # t
      BY <2>1
    <2>3. u \in Reopened(t)
      BY <2>1, <2>2 DEF Reopened, Ahead
    <2> QED BY <2>3 DEF Ahead
  <1>6. \A u \in Tasks : Over(u) => Over(u)'
    BY DEF Aside, Over, Busy
  <1>7. \A u \in here \ broken' : via[u] = "attach" /\ task'[u].resolved => Over(u)'
    <2> SUFFICES ASSUME NEW u \in here \ broken', via[u] = "attach", task'[u].resolved, u # t
                 PROVE  Over(u)'
      OBVIOUS
    <2>1. u \in Tasks \ {t} /\ u \notin broken
      BY <1>1 DEF Typed
    <2>2. task'[u] = task[u]
      BY <2>1 DEF Aside
    <2> QED BY <1>1, <1>6, <2>1, <2>2 DEF Gated
  <1>8. \A u \in detached \ broken' : Over(u)'
    BY <1>1, <1>6 DEF Gated, Typed
  <1>9. Gated'
    BY <1>1, <1>4, <1>5, <1>7, <1>8 DEF Gated
  <1> QED BY <1>2, <1>3, <1>9 DEF Inv

LEMMA OpenTypes ==
  ASSUME Typed
  PROVE  /\ OpenGate(page) \in Page /\ ~OpenGate(page).finalizing
         /\ \A b \in BOOLEAN : /\ [page EXCEPT !.ingesting = b] \in Page
                               /\ [page EXCEPT !.ingesting = b].finalizing = page.finalizing
         /\ \A t \in Tasks : Reopened(t) \subseteq Tasks
  <1>1. page \in Page /\ here \subseteq Tasks
    BY DEF Typed
  <1>2. OpenGate(page) \in Page /\ ~OpenGate(page).finalizing
    BY <1>1 DEF OpenGate, Page
  <1>3. \A b \in BOOLEAN : /\ [page EXCEPT !.ingesting = b] \in Page
                           /\ [page EXCEPT !.ingesting = b].finalizing = page.finalizing
    BY <1>1 DEF Page
  <1>4. \A t \in Tasks : Reopened(t) \subseteq Tasks
    BY <1>1 DEF Reopened
  <1> QED BY <1>2, <1>3, <1>4

\* Reading or losing an upload's stream does not touch the input.
LEMMA UploadKeepsGate ==
  ASSUME UNCHANGED reopened, page'.finalizing = page.finalizing, NEW t \in Tasks
  PROVE  reopened' = reopened \cup Reopened(t)
  BY DEF Reopened

LEMMA FailedTypes ==
  ASSUME Typed, NEW t \in Tasks, Failed(t)
  PROVE  /\ task' \in [Tasks -> Task] /\ \A u \in Tasks \ {t} : task'[u] = task[u]
         /\ task'[t].status = "failed" /\ task'[t].shown = task[t].shown
         /\ page' \in Page /\ ~page'.finalizing
         /\ reopened' = reopened \cup Reopened(t) /\ reopened' \in SUBSET Tasks
  <1> DEFINE r == [task[t] EXCEPT !.status = "failed", !.resolved = TRUE]
  <1>1. task \in [Tasks -> Task] /\ task[t] \in Task /\ reopened \subseteq Tasks
    BY DEF Typed
  <1>2. r \in Task /\ r.status = "failed" /\ r.shown = task[t].shown
    BY <1>1 DEF Task
  <1>3. task' = [task EXCEPT ![t] = r]
    BY <1>1 DEF Failed
  <1> HIDE DEF r
  <1>4. task' \in [Tasks -> Task] /\ task'[t] = r /\ \A u \in Tasks \ {t} : task'[u] = task[u]
    BY <1>1, <1>2, <1>3
  <1>5. /\ page' \in Page /\ ~page'.finalizing
        /\ reopened' = reopened \cup Reopened(t) /\ reopened' \in SUBSET Tasks
    BY <1>1, OpenTypes DEF Failed
  <1> QED BY <1>2, <1>4, <1>5

LEMMA RefuseInv ==
  ASSUME Inv, NEW t \in Tasks, Refuse(t)
  PROVE  Inv'
  <1>1. /\ conn[t] = "connecting" /\ conn' = [conn EXCEPT ![t] = "closed"]
        /\ UNCHANGED <<via, server, producer, queue, chan, persisted, working, detached, here,
                       faults, broken>>
    BY DEF Refuse, db
  <1>2. Typed /\ Each(t) /\ via[t] \in Vias
    BY DEF Inv, Typed
  <1>3. t \in here /\ via[t] # "none" /\ server[t].pc = "idle" /\ producer[t].stage = "none"
    BY <1>1, <1>2 DEF Each, Life, At, Stage
  <1>4. \/ Chat(t) /\ via[t] # "files" /\ Failed(t)
        \/ via[t] = "files" /\ page' = [page EXCEPT !.ingesting = FALSE] /\ UNCHANGED <<task, reopened>>
    BY <1>2, <1>3 DEF Refuse, Chat, Vias
  <1>5. conn' \in [Tasks -> Conns] /\ conn'[t] = "closed" /\ \A u \in Tasks \ {t} : conn'[u] = conn[u]
    BY <1>1, <1>2 DEF Typed, Conns
  <1>6. /\ task' \in [Tasks -> Task] /\ \A u \in Tasks \ {t} : task'[u] = task[u]
        /\ page' \in Page /\ (page'.finalizing => page.finalizing)
        /\ reopened' = reopened \cup Reopened(t) /\ reopened' \in SUBSET Tasks
    <2>1. CASE Failed(t)
      BY <1>2, <2>1, FailedTypes
    <2>2. CASE page' = [page EXCEPT !.ingesting = FALSE] /\ UNCHANGED <<task, reopened>>
      <3>1. page' \in Page /\ page'.finalizing = page.finalizing
        BY <1>2, <2>2, OpenTypes
      <3> QED BY <1>2, <2>2, <3>1, UploadKeepsGate DEF Typed
    <2> QED BY <1>4, <2>1, <2>2
  <1>7. Typed' /\ Aside(t)
    BY <1>1, <1>2, <1>5, <1>6 DEF Typed, Aside
  <1>8. Life(t)'
    BY <1>1, <1>2, <1>3, <1>5 DEF Each, Life, At, Stage, Busy, Chat
  <1>9. Flow(t)' /\ ~Ahead(t)' /\ Over(t)'
    BY <1>1, <1>3, <1>5 DEF Flow, Ahead, Over, Busy
  <1>10. Display(t)'
    <2>1. CASE Failed(t) /\ via[t] # "files"
      BY <1>1, <1>2, <1>5, <2>1, FailedTypes DEF Each, Display
    <2>2. CASE UNCHANGED task
      BY <1>1, <1>2, <1>5, <2>2 DEF Each, Display
    <2> QED BY <1>4, <2>1, <2>2
  <1> QED BY <1>1, <1>6, <1>7, <1>8, <1>9, <1>10, PageInv

LEMMA BreakInv ==
  ASSUME Inv, NEW t \in Tasks, Break(t) \/ BreakCleanly(t)
  PROVE  Inv'
  <1>1. /\ t \in here /\ conn[t] = "open" /\ conn' = [conn EXCEPT ![t] = "cut"]
        /\ chan' = [chan EXCEPT ![t] = <<>>] /\ faults < MaxFaults /\ faults' = faults + 1
        /\ broken' = broken \cup {t}
        /\ UNCHANGED <<via, server, producer, queue, persisted, working, detached, here>>
    BY DEF Break, BreakCleanly, Cut, db
  <1>2. Typed /\ Each(t) /\ via[t] \in Vias /\ via[t] # "none"
    BY <1>1 DEF Inv, Typed, Each, Life
  <1> DEFINE r == [task[t] EXCEPT !.resolved = TRUE]
  <1>3. \/ via[t] # "files" /\ Failed(t)
        \/ /\ via[t] # "files" /\ page' = OpenGate(page) /\ task' = [task EXCEPT ![t] = r]
           /\ reopened' = reopened \cup Reopened(t)
        \/ /\ via[t] = "files" /\ UNCHANGED <<task, reopened>>
           /\ page' = page \/ page' = [page EXCEPT !.ingesting = FALSE]
    BY <1>1, <1>2 DEF Break, BreakCleanly, Chat, Vias
  <1>4. /\ conn' \in [Tasks -> Conns] /\ conn'[t] = "cut" /\ \A u \in Tasks \ {t} : conn'[u] = conn[u]
    BY <1>1, <1>2 DEF Typed, Conns
  <1>5. /\ chan' \in [Tasks -> Seq(Events)] /\ \A u \in Tasks \ {t} : chan'[u] = chan[u]
        /\ \A u \in Tasks : Len(chan'[u]) <= MaxInFlight
    <2>1. <<>> \in Seq(Events) /\ Len(<<>>) = 0 /\ 0 <= MaxInFlight
      BY BoundsAssumption
    <2>2. chan \in [Tasks -> Seq(Events)] /\ \A u \in Tasks : Len(chan[u]) <= MaxInFlight
      BY <1>2 DEF Typed
    <2> QED BY <1>1, <2>1, <2>2
  <1>6. r \in Task /\ r.status = task[t].status /\ r.shown = task[t].shown
    BY <1>2 DEF Typed, Task
  <1> HIDE DEF r
  <1>7. /\ task' \in [Tasks -> Task] /\ \A u \in Tasks \ {t} : task'[u] = task[u]
        /\ page' \in Page /\ (page'.finalizing => page.finalizing)
        /\ reopened' = reopened \cup Reopened(t) /\ reopened' \in SUBSET Tasks
        /\ task'[t].shown = task[t].shown
        /\ task'[t].status = task[t].status \/ (task'[t].status = "failed" /\ via[t] # "files")
    <2>1. CASE via[t] # "files" /\ Failed(t)
      BY <1>2, <2>1, FailedTypes
    <2>2. CASE /\ via[t] # "files" /\ page' = OpenGate(page) /\ task' = [task EXCEPT ![t] = r]
               /\ reopened' = reopened \cup Reopened(t)
      <3>1. page' \in Page /\ ~page'.finalizing /\ reopened' \in SUBSET Tasks
        BY <1>2, <2>2, OpenTypes DEF Typed
      <3>2. task \in [Tasks -> Task]
        BY <1>2 DEF Typed
      <3> QED BY <1>6, <2>2, <3>1, <3>2
    <2>3. CASE /\ via[t] = "files" /\ UNCHANGED <<task, reopened>>
               /\ page' = page \/ page' = [page EXCEPT !.ingesting = FALSE]
      <3>1. page' \in Page /\ page'.finalizing = page.finalizing
        BY <1>2, <2>3, OpenTypes DEF Typed
      <3>2. task' = task /\ reopened' = reopened /\ task \in [Tasks -> Task] /\ reopened \in SUBSET Tasks
        BY <1>2, <2>3 DEF Typed
      <3>3. reopened' = reopened \cup Reopened(t)
        BY <3>1, <3>2, UploadKeepsGate
      <3> QED BY <3>1, <3>2, <3>3
    <2> QED BY <1>3, <2>1, <2>2, <2>3
  <1>8. faults' \in 0 .. MaxFaults /\ broken' \in SUBSET Tasks
    BY <1>1, <1>2, BoundsAssumption DEF Typed
  <1>9. Typed' /\ Aside(t)
    BY <1>1, <1>2, <1>4, <1>5, <1>7, <1>8 DEF Typed, Aside
  <1>10. Life(t)'
    BY <1>1, <1>2, <1>4 DEF Each, Life, At, Stage, Busy, Chat
  <1>11. Flow(t)' /\ ~Ahead(t)' /\ (Over(t) => Over(t)')
    BY <1>1, <1>4 DEF Flow, Ahead, Over, Busy
  <1>12. Display(t)'
    BY <1>1, <1>2, <1>4, <1>7 DEF Each, Display
  <1> QED BY <1>1, <1>7, <1>9, <1>10, <1>11, <1>12, PageInv

LEMMA Consumed ==
  ASSUME Typed, NEW t \in Tasks, chan[t] # <<>>, Consume(t)
  PROVE  /\ chan' \in [Tasks -> Seq(Events)] /\ \A u \in Tasks \ {t} : chan'[u] = chan[u]
         /\ \A u \in Tasks : Len(chan'[u]) <= MaxInFlight
         /\ Len(chan[t]) \in Nat /\ Len(chan[t]) >= 1 /\ Len(chan'[t]) = Len(chan[t]) - 1
         /\ \A n \in 1 .. Len(chan[t]) - 1 : chan'[t][n] = chan[t][n + 1]
         /\ Event(t) = chan[t][1] /\ Event(t) \in Events
  <1>1. chan \in [Tasks -> Seq(Events)] /\ \A u \in Tasks : Len(chan[u]) <= MaxInFlight
    BY DEF Typed
  <1>2. /\ Tail(chan[t]) \in Seq(Events) /\ Len(Tail(chan[t])) = Len(chan[t]) - 1
        /\ Len(chan[t]) \in Nat /\ Len(chan[t]) >= 1
        /\ \A n \in 1 .. Len(chan[t]) - 1 : Tail(chan[t])[n] = chan[t][n + 1]
        /\ Head(chan[t]) = chan[t][1] /\ Head(chan[t]) \in Events
    BY <1>1
  <1>3. chan' = [chan EXCEPT ![t] = Tail(chan[t])]
    BY DEF Consume
  <1>4. chan'[t] = Tail(chan[t]) /\ \A u \in Tasks \ {t} : chan'[u] = chan[u]
    BY <1>1, <1>3
  <1>5. chan' \in [Tasks -> Seq(Events)]
    BY <1>1, <1>2, <1>3
  <1>6. Len(chan'[t]) <= MaxInFlight
    BY <1>1, <1>2, <1>4, BoundsAssumption
  <1> QED BY <1>1, <1>2, <1>4, <1>5, <1>6 DEF Event

LEMMA ReadFileInv ==
  ASSUME Inv, NEW t \in Tasks, ReadFile(t)
  PROVE  Inv'
  <1>1. /\ t \in here /\ conn[t] = "open" /\ chan[t] # <<>> /\ via[t] = "files"
        /\ chan' = [chan EXCEPT ![t] = Tail(@)]
        /\ UNCHANGED <<via, server, producer, queue, persisted, working, detached, here, faults,
                       broken, reopened>>
    BY DEF ReadFile, Reads, Consume, db
  <1> DEFINE r == [status |-> "complete", shown |-> "tokens", resolved |-> TRUE]
  <1>2. /\ page' = page \/ \E b \in BOOLEAN : page' = [page EXCEPT !.ingesting = b]
        /\ \/ UNCHANGED <<task, conn>>
           \/ task' = [task EXCEPT ![t] = r] /\ conn' = [conn EXCEPT ![t] = "closed"]
           \/ UNCHANGED task /\ conn' = [conn EXCEPT ![t] = "closed"]
    BY DEF ReadFile
  <1>3. r \in Task /\ r.status = "complete" /\ r.shown = "tokens"
    BY DEF Task
  <1> HIDE DEF r
  <1>4. Typed /\ Each(t)
    BY DEF Inv
  <1>5. /\ conn' \in [Tasks -> Conns] /\ conn'[t] \in {"open", "closed"}
        /\ \A u \in Tasks \ {t} : conn'[u] = conn[u]
        /\ task' \in [Tasks -> Task] /\ \A u \in Tasks \ {t} : task'[u] = task[u]
        /\ task'[t] = task[t] \/ task'[t] = r
    <2>1. conn \in [Tasks -> Conns] /\ task \in [Tasks -> Task] /\ "closed" \in Conns
      BY <1>4 DEF Typed, Conns
    <2>2. conn' = conn \/ conn' = [conn EXCEPT ![t] = "closed"]
      BY <1>2
    <2>3. task' = task \/ task' = [task EXCEPT ![t] = r]
      BY <1>2
    <2>4. /\ conn' \in [Tasks -> Conns] /\ conn'[t] \in {"open", "closed"}
          /\ \A u \in Tasks \ {t} : conn'[u] = conn[u]
      BY <1>1, <2>1, <2>2
    <2>5. /\ task' \in [Tasks -> Task] /\ \A u \in Tasks \ {t} : task'[u] = task[u]
          /\ task'[t] = task[t] \/ task'[t] = r
      BY <1>3, <2>1, <2>3
    <2> QED BY <2>4, <2>5
  <1>6. /\ chan' \in [Tasks -> Seq(Events)] /\ \A u \in Tasks \ {t} : chan'[u] = chan[u]
        /\ \A u \in Tasks : Len(chan'[u]) <= MaxInFlight
    BY <1>1, <1>4, Consumed DEF Consume
  <1>7. page' \in Page /\ page'.finalizing = page.finalizing /\ reopened' = reopened \cup Reopened(t)
    <2>1. page' \in Page /\ page'.finalizing = page.finalizing
      BY <1>2, <1>4, OpenTypes DEF Typed
    <2> QED BY <1>1, <2>1, UploadKeepsGate
  <1>8. Typed' /\ Aside(t)
    BY <1>1, <1>4, <1>5, <1>6, <1>7 DEF Typed, Aside
  <1>9. Life(t)'
    BY <1>1, <1>4, <1>5 DEF Each, Life, At, Stage, Busy, Chat
  <1>10. Flow(t)' /\ ~Ahead(t)' /\ (Over(t) => Over(t)')
    BY <1>1, <1>5 DEF Flow, Ahead, Over, Busy
  <1>11. Display(t)'
    BY <1>1, <1>3, <1>4, <1>5 DEF Each, Display
  <1> QED BY <1>1, <1>7, <1>8, <1>9, <1>10, <1>11, PageInv

\* What the page makes of an event.
LEMMA Shown ==
  ASSUME NEW r \in Task, NEW e \in Events
  PROVE  /\ TaskAfter(r, e) \in Task
         /\ e = "status" => TaskAfter(r, e).status = "planning" /\ TaskAfter(r, e).shown = r.shown
         /\ e = "token" => TaskAfter(r, e).status = "streaming" /\ TaskAfter(r, e).shown = "tokens"
         /\ e = "done" => TaskAfter(r, e).status = "complete" /\ TaskAfter(r, e).shown = "answer"
         /\ e = "error" => TaskAfter(r, e).status = "failed" /\ TaskAfter(r, e).shown = r.shown
         /\ e = "[DONE]" => /\ TaskAfter(r, e).status = Closing(r) /\ TaskAfter(r, e).shown = r.shown
         /\ e \in {"sources", "task_complete"} => TaskAfter(r, e) = r
         /\ e \notin {"done", "[DONE]"} => (TaskAfter(r, e).resolved <=> r.resolved)
  <1>1. CASE e = "status"
    BY <1>1 DEF TaskAfter, Task
  <1>2. CASE e = "token"
    BY <1>2 DEF TaskAfter, Task
  <1>3. CASE e = "done"
    BY <1>3 DEF TaskAfter, Task
  <1>4. CASE e = "error"
    BY <1>4 DEF TaskAfter, Task
  <1>5. CASE e = "[DONE]"
    <2>1. TaskAfter(r, e) = [r EXCEPT !.status = Closing(r), !.resolved = TRUE]
      BY <1>5 DEF TaskAfter
    <2>2. Closing(r) \in {"complete", "failed"}
      BY DEF Closing
    <2> QED BY <1>5, <2>1, <2>2 DEF Task
  <1>6. CASE e \in {"sources", "task_complete"}
    BY <1>6 DEF TaskAfter, Task
  <1> QED BY <1>1, <1>2, <1>3, <1>4, <1>5, <1>6 DEF Events

LEMMA ReadChatInv ==
  ASSUME Inv, NEW t \in Tasks, ReadChat(t)
  PROVE  Inv'
  <1> DEFINE e == Event(t)
             r == TaskAfter(task[t], e)
             k == Len(chan[t])
  <1>1. /\ t \in here /\ conn[t] = "open" /\ chan[t] # <<>> /\ via[t] \in {"chat", "attach"}
        /\ Consume(t) /\ page' = GateAfter(page, e) /\ task' = [task EXCEPT ![t] = r]
        /\ reopened' = reopened \cup Reopened(t)
        /\ conn' = IF e = "[DONE]" THEN [conn EXCEPT ![t] = "closed"] ELSE conn
        /\ UNCHANGED <<via, server, producer, queue, persisted, working, detached, here, faults,
                       broken>>
    BY DEF ReadChat, Reads, Chat, db
  <1>2. Typed /\ Each(t) /\ task \in [Tasks -> Task] /\ task[t] \in Task /\ conn \in [Tasks -> Conns]
        /\ server[t] \in Server /\ page \in Page /\ reopened \in SUBSET Tasks
    BY DEF Inv, Typed
  <1>3. /\ chan' \in [Tasks -> Seq(Events)] /\ \A u \in Tasks \ {t} : chan'[u] = chan[u]
        /\ \A u \in Tasks : Len(chan'[u]) <= MaxInFlight
        /\ k \in Nat /\ k >= 1 /\ Len(chan'[t]) = k - 1
        /\ \A n \in 1 .. k - 1 : chan'[t][n] = chan[t][n + 1]
        /\ e = chan[t][1] /\ e \in Events
    BY <1>1, <1>2, Consumed
  <1>4. /\ r \in Task
        /\ e = "status" => r.status = "planning" /\ r.shown = task[t].shown
        /\ e = "token" => r.status = "streaming" /\ r.shown = "tokens"
        /\ e = "done" => r.status = "complete" /\ r.shown = "answer"
        /\ e = "error" => r.status = "failed" /\ r.shown = task[t].shown
        /\ e = "[DONE]" => r.status = Closing(task[t]) /\ r.shown = task[t].shown
        /\ e \in {"sources", "task_complete"} => r = task[t]
        /\ e \notin {"done", "[DONE]"} => (r.resolved <=> task[t].resolved)
    BY <1>2, <1>3, Shown
  <1>5. /\ \A n \in 1 .. k : chan[t][n] \in May(t)
        /\ \A m, n \in 1 .. k : m < n => chan[t][n] \in After(chan[t][m])
        /\ Past(t) <=> Known(t) \/ \E n \in 1 .. k : chan[t][n] \in Outcome
        /\ Known(t) => \A n \in 1 .. k : chan[t][n] \in Closings
        /\ (\E n \in 1 .. k : chan[t][n] = "done") => Told(persisted[t])
    BY <1>1, <1>2 DEF Each, Flow
  <1> HIDE DEF e, r, k
  <1>6. /\ 1 \in 1 .. k /\ \A n \in 1 .. k - 1 : n + 1 \in 1 .. k /\ 1 < n + 1
        /\ \A n \in 1 .. k : n = 1 \/ (n - 1 \in 1 .. k - 1 /\ (n - 1) + 1 = n)
    BY <1>3
  <1>7. /\ e \in May(t) /\ \A n \in 1 .. k - 1 : chan'[t][n] \in After(e)
        /\ Known(t) => e \in Closings
        /\ e = "done" => Told(persisted[t])
    BY <1>3, <1>5, <1>6
  \* Where the generator is by then.
  <1>8. /\ e \in {"task_complete", "error", "[DONE]"} => server[t].pc \in {"complete", "sentinel", "closed"}
        /\ e = "[DONE]" => server[t].pc = "closed"
        /\ e = "done" => server[t].emitted \/ server[t].pc \in {"complete", "sentinel", "closed"}
    BY <1>2, <1>7 DEF May, Before, Outcome, Server, Pcs
  <1>9. e = "[DONE]" => Known(t)
    <2>1. e = "[DONE]" => Past(t) /\ After(e) = {} /\ e \notin Outcome
      BY <1>8 DEF Past, After, Outcome
    <2>2. e = "[DONE]" => \A n \in 1 .. k : n = 1
      <3> SUFFICES ASSUME e = "[DONE]", NEW n \in 1 .. k, n # 1 PROVE FALSE
        OBVIOUS
      <3>1. n - 1 \in 1 .. k - 1 /\ chan'[t][n - 1] \in After(e)
        BY <1>6, <1>7
      <3> QED BY <2>1, <3>1
    <2> QED BY <1>3, <1>5, <2>1, <2>2
  <1>10. /\ task' \in [Tasks -> Task] /\ task'[t] = r /\ \A u \in Tasks \ {t} : task'[u] = task[u]
         /\ conn' \in [Tasks -> Conns] /\ \A u \in Tasks \ {t} : conn'[u] = conn[u]
         /\ conn'[t] = IF e = "[DONE]" THEN "closed" ELSE "open"
    BY <1>1, <1>2, <1>4 DEF Conns
  <1>11. /\ page' = IF e \in {"task_complete", "error", "[DONE]"} THEN OpenGate(page) ELSE page
         /\ page' \in Page /\ (page'.finalizing => page.finalizing)
         /\ e \notin {"task_complete", "error", "[DONE]"} => page' = page
    BY <1>1, <1>2, OpenTypes DEF GateAfter
  <1>12. reopened' \in SUBSET Tasks
    BY <1>1, <1>2, OpenTypes
  <1>13. Typed' /\ Aside(t)
    BY <1>1, <1>2, <1>3, <1>10, <1>11, <1>12 DEF Typed, Aside
  <1>14. Life(t)'
    BY <1>1, <1>2, <1>8, <1>10 DEF Each, Life, At, Stage, Busy, Chat
  <1>15. Known(t)' <=> Known(t) \/ e \in Outcome
    <2>1. e \in {"status", "token"} => ~Known(t)
      BY <1>7 DEF Closings
    <2>2. Closing(task[t]) \in {"complete", "failed"}
      BY DEF Closing
    <2> QED BY <1>3, <1>4, <1>9, <1>10, <2>1, <2>2 DEF Known, Outcome, Events
  <1>16. Flow(t)'
    <2> SUFFICES ASSUME e # "[DONE]"
                 PROVE  /\ \A n \in 1 .. k - 1 : chan'[t][n] \in May(t)'
                        /\ \A m, n \in 1 .. k - 1 : m < n => chan'[t][n] \in After(chan'[t][m])
                        /\ Past(t)' <=> Known(t)' \/ \E n \in 1 .. k - 1 : chan'[t][n] \in Outcome
                        /\ Known(t)' => \A n \in 1 .. k - 1 : chan'[t][n] \in Closings
                        /\ (\E n \in 1 .. k - 1 : chan'[t][n] = "done")
                              \/ server'[t].pc \in {"sources", "done"} => Told(persisted'[t])
      BY <1>3, <1>10 DEF Flow
    <2>1. May(t)' = May(t) /\ (Past(t)' <=> Past(t))
      BY <1>1 DEF May, Past
    <2>2. \A n \in 1 .. k - 1 : chan'[t][n] \in May(t)'
      BY <1>3, <1>5, <1>6, <2>1
    <2>3. ASSUME NEW m \in 1 .. k - 1, NEW n \in 1 .. k - 1, m < n
          PROVE  chan'[t][n] \in After(chan'[t][m])
      <3>1. m + 1 \in 1 .. k /\ n + 1 \in 1 .. k /\ m + 1 < n + 1
        BY <1>6, <2>3
      <3> QED BY <1>3, <1>5, <3>1
    <2>4. Past(t)' <=> Known(t)' \/ \E n \in 1 .. k - 1 : chan'[t][n] \in Outcome
      <3>1. (\E n \in 1 .. k : chan[t][n] \in Outcome)
               <=> (e \in Outcome \/ \E n \in 1 .. k - 1 : chan'[t][n] \in Outcome)
        BY <1>3, <1>6
      <3> QED BY <1>5, <1>15, <2>1, <3>1
    <2>5. Known(t)' => \A n \in 1 .. k - 1 : chan'[t][n] \in Closings
      <3>1. e \in Outcome => After(e) = Closings
        BY DEF Outcome, After
      <3> QED BY <1>3, <1>5, <1>6, <1>7, <1>15, <3>1
    <2>6. (\E n \in 1 .. k - 1 : chan'[t][n] = "done")
             \/ server'[t].pc \in {"sources", "done"} => Told(persisted'[t])
      <3>1. server[t].pc \in {"sources", "done"} => Told(persisted[t])
        BY <1>1, <1>2 DEF Each, Flow
      <3> QED BY <1>1, <1>3, <1>5, <1>6, <3>1
    <2> QED BY <2>2, <2>3, <2>4, <2>5, <2>6
  <1>17. Display(t)'
    <2>1. r.shown = "answer" => Told(persisted'[t])
      BY <1>1, <1>2, <1>3, <1>4, <1>7 DEF Each, Display, Events
    <2>2. r.status = "complete" => r.shown = "answer"
      BY <1>1, <1>2, <1>3, <1>4, <1>9 DEF Each, Display, Events, Known, Closing
    <2> QED BY <1>1, <1>10, <2>1, <2>2 DEF Display
  <1>18. Ahead(t)' => Ahead(t) /\ (page.finalizing => page'.finalizing)
    <2>1. Ahead(t)' => e \notin {"task_complete", "error", "[DONE]"}
      BY <1>1, <1>8 DEF Ahead
    <2> QED BY <1>1, <1>11, <2>1 DEF Ahead
  <1>19. Over(t) => Over(t)'
    BY <1>1, <1>10 DEF Over, Busy
  <1>20. t \in here \ broken' /\ via[t] = "attach" /\ task'[t].resolved => Over(t)'
    <2> SUFFICES ASSUME t \notin broken, via[t] = "attach", r.resolved PROVE Over(t)'
      BY <1>1, <1>10
    <2>1. CASE e \in {"done", "[DONE]"}
      <3>1. ~server[t].emitted
        BY <1>2 DEF Each, Early
      <3>2. server[t].pc \in {"complete", "sentinel", "closed"}
        BY <1>8, <2>1, <3>1
      <3>3. ~Busy(t)
        BY <1>2, <3>2 DEF Each, Life
      <3> QED BY <1>1, <1>10, <3>2, <3>3 DEF Over, Busy
    <2>2. CASE e \notin {"done", "[DONE]"}
      <3>1. Over(t)
        BY <1>1, <1>4, <2>2 DEF Inv, Gated
      <3> QED BY <1>19, <3>1
    <2> QED BY <2>1, <2>2
  <1> QED BY <1>1, <1>11, <1>13, <1>14, <1>16, <1>17, <1>18, <1>19, <1>20, PageInv

LEMMA DetachInv ==
  ASSUME Inv, NEW t \in Tasks, Detach(t)
  PROVE  Inv'
  <1>1. /\ t \in here \ detached /\ via[t] = "attach" /\ task[t].resolved
        /\ detached' = detached \cup {t}
        /\ UNCHANGED <<via, server, producer, queue, conn, chan, persisted, working, page, task,
                       here, faults, broken, reopened>>
    BY DEF Detach, db
  <1>2. Typed /\ Gated /\ Counts /\ \A u \in Tasks : Each(u)
    BY DEF Inv
  <1>3. Typed'
    BY <1>1, <1>2 DEF Typed
  <1>4. \A u \in Tasks : Each(u)'
    <2>1. Aside(t)
      BY <1>1 DEF Aside
    <2>2. Each(t)'
      <3>1. Life(t)' /\ Display(t)' /\ Early(t)'
        BY <1>1, <1>2 DEF Each, Life, Display, Early, Heard, At, Stage, Busy, Chat, Known
      <3>2. May(t)' = May(t) /\ (Past(t)' <=> Past(t)) /\ (Known(t)' <=> Known(t))
        BY <1>1 DEF May, Past, Known
      <3>3. Flow(t)'
        BY <1>1, <1>2, <3>2 DEF Each, Flow
      <3> QED BY <3>1, <3>3 DEF Each
    <2> QED BY <1>2, <2>1, <2>2, AsideEach
  <1>5. Gated'
    <2>1. \A u \in Tasks : (Ahead(u)' <=> Ahead(u)) /\ (Over(u)' <=> Over(u))
      BY <1>1 DEF Ahead, Over, Busy
    <2>2. t \in here \ broken => Over(t)
      BY <1>1, <1>2 DEF Gated
    <2>3. here \subseteq Tasks /\ detached \subseteq Tasks
      BY <1>2 DEF Typed
    <2> QED BY <1>1, <1>2, <2>1, <2>2, <2>3 DEF Gated
  <1>6. Counts'
    BY <1>1, <1>2 DEF Counts, Counted, Holds, Escaped, Stage
  <1> QED BY <1>3, <1>4, <1>5, <1>6 DEF Inv

\* A task that nobody submitted.
LEMMA Fresh ==
  ASSUME Inv, NEW t \in Tasks, via[t] = "none"
  PROVE  /\ conn[t] = "none" /\ t \notin here /\ server[t].pc = "idle" /\ ~server[t].emitted
         /\ producer[t].stage = "none" /\ task[t] = NewTask /\ ~Counted(t)
         /\ t \notin detached \ broken /\ Heard(t) = {} /\ queue[t] = <<>>
  <1>1. Typed /\ Life(t) /\ Early(t) /\ Display(t) /\ Gated /\ Counts
    BY DEF Inv, Each
  <1>2. conn[t] = "none" /\ t \notin here
    BY <1>1 DEF Life
  <1>3. server[t].pc = "idle" /\ ~server[t].emitted /\ producer[t].stage = "none"
    BY <1>1, <1>2 DEF Life, At, Stage
  <1>4. queue[t] = <<>> /\ Heard(t) = {}
    BY <1>1, <1>3 DEF Early, Heard
  <1>5. ~Counted(t)
    BY <1>1 DEF Counts
  <1>6. t \notin detached \ broken
    BY <1>1, <1>2 DEF Gated, Over
  <1>7. task[t] = NewTask
    BY <1>1, <1>2 DEF Display
  <1> QED BY <1>2, <1>3, <1>4, <1>5, <1>6, <1>7

LEMMA AcceptInv ==
  ASSUME Inv, NEW t \in Tasks, via[t] = "none", NEW kind \in {"chat", "attach", "files"},
         via' = [via EXCEPT ![t] = kind], conn' = [conn EXCEPT ![t] = "connecting"],
         here' = here \cup {t},
         UNCHANGED <<server, producer, queue, chan, persisted, working, detached, faults, broken,
                     reopened>>,
         page' \in Page, NEW r \in Task, task' = [task EXCEPT ![t] = r],
         r.status \in {"none", "planning"}, r.shown = "nothing", ~r.resolved,
         kind = "files" => r.status = "none" /\ page'.finalizing = page.finalizing,
         kind # "files" => ~page.finalizing /\ page'.finalizing
  PROVE  Inv'
  <1>1. Typed /\ Gated /\ Counts /\ (\A u \in Tasks : Each(u)) /\ Life(t)
    BY DEF Inv, Each
  <1>2. /\ conn[t] = "none" /\ t \notin here /\ server[t].pc = "idle" /\ ~server[t].emitted
        /\ producer[t].stage = "none" /\ ~Counted(t)
        /\ t \notin detached \ broken /\ Heard(t) = {} /\ queue[t] = <<>>
    BY Fresh
  <1>3. /\ via' \in [Tasks -> Vias] /\ via'[t] = kind /\ \A u \in Tasks \ {t} : via'[u] = via[u]
        /\ conn' \in [Tasks -> Conns] /\ conn'[t] = "connecting"
        /\ \A u \in Tasks \ {t} : conn'[u] = conn[u]
        /\ task' \in [Tasks -> Task] /\ task'[t] = r /\ \A u \in Tasks \ {t} : task'[u] = task[u]
    BY <1>1 DEF Typed, Vias, Conns
  <1>4. Typed' /\ Aside(t)
    BY <1>1, <1>3 DEF Typed, Aside
  <1>5. \A u \in Tasks : Each(u)'
    <2>1. Life(t)'
      BY <1>1, <1>2, <1>3 DEF Life, At, Stage, Busy, Chat
    <2>2. Early(t)'
      BY <1>2 DEF Early, Heard, At
    <2>3. Flow(t)' /\ Display(t)'
      BY <1>3 DEF Flow, Display, Known
    <2> QED BY <1>1, <1>4, <2>1, <2>2, <2>3, AsideEach DEF Each
  <1>6. Gated'
    <2>1. \A u \in Tasks \ {t} : (Ahead(u)' => Ahead(u)) /\ (Over(u) => Over(u)')
      BY <1>4 DEF Aside, Ahead, Over, Busy
    <2>2. Ahead(t)' => kind # "files"
      BY <1>3 DEF Ahead
    <2>3. kind # "files" => \A u \in Tasks : ~Ahead(u)
      BY <1>1 DEF Gated
    <2>4. (\A u \in Tasks : Ahead(u)' => page'.finalizing)
          /\ \A u, v \in Tasks : Ahead(u)' /\ Ahead(v)' => u = v
      BY <1>1, <2>1, <2>2, <2>3 DEF Gated
    <2>5. \A u \in here' \ broken' : via'[u] = "attach" /\ task'[u].resolved => Over(u)'
      <3> SUFFICES ASSUME NEW u \in here' \ broken', via'[u] = "attach", task'[u].resolved
                   PROVE  Over(u)'
        OBVIOUS
      <3>1. u # t
        BY <1>3
      <3>2. u \in here \ broken /\ u \in Tasks \ {t}
        BY <1>1, <3>1 DEF Typed
      <3> QED BY <1>1, <1>3, <2>1, <3>2 DEF Gated
    <2>6. \A u \in detached' \ broken' : Over(u)'
      <3> SUFFICES ASSUME NEW u \in detached \ broken PROVE Over(u)'
        OBVIOUS
      <3>1. u \in Tasks \ {t}
        BY <1>1, <1>2 DEF Typed
      <3> QED BY <1>1, <2>1, <3>1 DEF Gated
    <2> QED BY <2>4, <2>5, <2>6 DEF Gated
  <1>7. Counts'
    <2> SUFFICES ASSUME NEW x \in Tasks, Counted(x)'
                 PROVE  /\ via'[x] # "none"
                        /\ ~Escaped(x)' =>
                             /\ Holds(working, x)'
                             /\ \A u \in Tasks : Stage(u, "infer")' /\ ~Escaped(u)' =>
                                   Holds(producer[u].base, x)'
      BY DEF Counts
    <2>1. Counted(x) /\ x # t
      BY <1>2 DEF Counted
    <2>2. \A e \in Tasks \ {t} : Escaped(e)' <=> Escaped(e)
      BY <1>3 DEF Escaped
    <2>3. \A S \in SUBSET Tasks : t \notin S /\ Holds(S, x) => Holds(S, x)'
      BY <2>2 DEF Holds
    <2>4. t \notin working /\ \A u \in Tasks : t \notin producer[u].base
      BY <1>2 DEF Counted
    <2>5. via'[x] # "none"
      BY <1>1, <1>3, <2>1 DEF Counts
    <2>6. ASSUME ~Escaped(x)'
          PROVE  /\ Holds(working, x)'
                 /\ \A u \in Tasks : Stage(u, "infer")' /\ ~Escaped(u)' => Holds(producer[u].base, x)'
      <3>1. ~Escaped(x)
        BY <2>1, <2>2, <2>6
      <3>2. Holds(working, x)'
        <4>1. Holds(working, x)
          BY <1>1, <2>1, <3>1 DEF Counts
        <4> QED BY <1>1, <2>2, <2>4, <4>1 DEF Holds, Typed
      <3>3. ASSUME NEW u \in Tasks, Stage(u, "infer")', ~Escaped(u)'
            PROVE  Holds(producer[u].base, x)'
        <4>1. Stage(u, "infer") /\ u # t
          BY <1>2, <3>3 DEF Stage
        <4>2. Holds(producer[u].base, x)
          BY <1>1, <2>1, <2>2, <3>1, <3>3, <4>1 DEF Counts
        <4>3. producer[u].base \subseteq Tasks
          BY <1>1 DEF Typed, Producer
        <4> QED BY <2>2, <2>4, <4>2, <4>3 DEF Holds
      <3> QED BY <3>2, <3>3
    <2> QED BY <2>5, <2>6
  <1> QED BY <1>4, <1>5, <1>6, <1>7 DEF Inv

LEMMA SubmitInv ==
  ASSUME Inv, NEW t \in Tasks,
         SubmitFile(t) \/ \E kind \in {"chat", "attach"} : Submit(t, kind)
  PROVE  Inv'
  <1>1. task[t] = NewTask /\ via[t] = "none" /\ page \in Page /\ task \in [Tasks -> Task]
    <2>1. via[t] = "none"
      BY DEF SubmitFile, Submit
    <2> QED BY <2>1, Fresh DEF Inv, Typed
  <1>2. CASE SubmitFile(t)
    <2>1. task' = [task EXCEPT ![t] = NewTask]
      BY <1>1, <1>2 DEF SubmitFile
    <2>2. NewTask \in Task /\ NewTask.status = "none" /\ NewTask.shown = "nothing" /\ ~NewTask.resolved
      BY DEF NewTask, Task
    <2>3. page' \in Page /\ page'.finalizing = page.finalizing
      BY <1>1, <1>2 DEF SubmitFile, Page
    <2> QED BY <1>1, <1>2, <2>1, <2>2, <2>3, AcceptInv DEF SubmitFile, db
  <1>3. ASSUME NEW kind \in {"chat", "attach"}, Submit(t, kind)
        PROVE  Inv'
    <2> DEFINE r == [NewTask EXCEPT !.status = "planning"]
    <2>1. task' = [task EXCEPT ![t] = r]
      BY <1>1, <1>3 DEF Submit
    <2>2. r \in Task /\ r.status = "planning" /\ r.shown = "nothing" /\ ~r.resolved
      BY DEF NewTask, Task
    <2> HIDE DEF r
    <2>3. page' \in Page /\ page'.finalizing /\ ~page.finalizing
      BY <1>1, <1>3 DEF Submit, Page
    <2> QED BY <1>1, <1>3, <2>1, <2>2, <2>3, AcceptInv DEF Submit, db
  <1> QED BY <1>2, <1>3

LEMMA ReloadInv ==
  ASSUME Inv, Reload
  PROVE  Inv'
  <1>1. Typed /\ Gated /\ Counts /\ (\A u \in Tasks : Each(u))
    BY DEF Inv
  <1>2. /\ faults < MaxFaults /\ faults' = faults + 1 /\ page' = NewPage /\ here' = {}
        /\ task' = [t \in Tasks |-> NewTask]
        /\ UNCHANGED <<via, server, producer, queue, persisted, working, detached, broken, reopened>>
        /\ \A t \in Tasks :
              /\ conn'[t] = IF t \in here /\ conn[t] \in {"connecting", "open"} THEN "cut" ELSE conn[t]
              /\ chan'[t] = IF t \in here THEN <<>> ELSE chan[t]
        /\ conn' = [t \in Tasks |-> conn'[t]] /\ chan' = [t \in Tasks |-> chan'[t]]
    BY DEF Reload, db
  <1>3. NewTask \in Task /\ NewPage \in Page /\ ~NewPage.finalizing
    BY DEF NewTask, NewPage, Task, Page
  <1>4. conn' \in [Tasks -> Conns]
    BY <1>1, <1>2 DEF Typed, Conns
  <1>5. chan' \in [Tasks -> Seq(Events)] /\ \A t \in Tasks : Len(chan'[t]) <= MaxInFlight
    <2>1. <<>> \in Seq(Events) /\ Len(<<>>) = 0 /\ 0 <= MaxInFlight
      BY BoundsAssumption
    <2>2. chan \in [Tasks -> Seq(Events)] /\ \A t \in Tasks : Len(chan[t]) <= MaxInFlight
      BY <1>1 DEF Typed
    <2> QED BY <1>2, <2>1, <2>2
  <1>6. faults' \in 0 .. MaxFaults
    BY <1>1, <1>2, BoundsAssumption DEF Typed
  <1>7. Typed'
    BY <1>1, <1>2, <1>3, <1>4, <1>5, <1>6 DEF Typed
  <1>8. ASSUME NEW t \in Tasks PROVE Each(t)'
    <2>1. conn'[t] \notin {"connecting", "open"}
      BY <1>1, <1>2 DEF Each, Life
    <2>2. /\ Life(t) /\ (conn'[t] = "none" <=> conn[t] = "none")
          /\ conn[t] = "cut" => conn'[t] = "cut"
      BY <1>1, <1>2 DEF Each
    <2>3. Life(t)'
      BY <1>2, <2>1, <2>2 DEF Life, At, Stage, Busy, Chat
    <2>4. Early(t)'
      BY <1>1, <1>2, EarlyAside DEF Each
    <2>5. Flow(t)' /\ Display(t)'
      BY <1>2, <2>1 DEF Flow, Display, Known, NewTask
    <2> QED BY <2>3, <2>4, <2>5 DEF Each
  <1>9. Gated'
    <2>1. \A t \in Tasks : Over(t) => Over(t)'
      BY <1>2 DEF Over, Busy
    <2>2. detached \subseteq Tasks
      BY <1>1 DEF Typed
    <2> QED BY <1>1, <1>2, <2>1, <2>2 DEF Gated, Ahead
  <1>10. Counts'
    <2>1. \A x \in Tasks : Counted(x)' => Counted(x)
      BY <1>2 DEF Counted
    <2>2. \A x \in Tasks : Escaped(x)'
      BY <1>2 DEF Escaped
    <2> QED BY <1>1, <1>2, <2>1, <2>2 DEF Counts
  <1> QED BY <1>7, <1>8, <1>9, <1>10 DEF Inv

-----------------------------------------------------------------------------
(* Every step                                                              *)

LEMMA InitInv == Init => Inv
  <1> SUFFICES ASSUME Init PROVE Inv
    OBVIOUS
  <1>1. /\ NewRun \in Producer /\ NewRun.stage = "none" /\ NewRun.base = {}
        /\ NewTask \in Task /\ NewPage \in Page
    BY RunTypes DEF NewTask, Task, NewPage, Page
  <1>2. Typed
    <2>1. /\ via \in [Tasks -> Vias] /\ conn \in [Tasks -> Conns]
          /\ server \in [Tasks -> Server] /\ producer \in [Tasks -> Producer]
      BY <1>1 DEF Init, Vias, Conns, Server, Pcs
    <2>2. /\ queue \in [Tasks -> Seq(Items)] /\ chan \in [Tasks -> Seq(Events)]
          /\ \A t \in Tasks : Len(chan[t]) <= MaxInFlight
      <3>1. <<>> \in Seq(Items) /\ <<>> \in Seq(Events) /\ Len(<<>>) = 0 /\ 0 <= MaxInFlight
        BY BoundsAssumption
      <3> QED BY <3>1 DEF Init
    <2>3. /\ persisted \in [Tasks -> Seq(Roles)] /\ working \in SUBSET Tasks
          /\ page \in Page /\ task \in [Tasks -> Task]
          /\ detached \in SUBSET Tasks /\ here \in SUBSET Tasks /\ faults \in 0 .. MaxFaults
          /\ broken \in SUBSET Tasks /\ reopened \in SUBSET Tasks
      BY <1>1, BoundsAssumption DEF Init
    <2> QED BY <2>1, <2>2, <2>3 DEF Typed
  <1>3. ASSUME NEW t \in Tasks PROVE Each(t)
    <2>1. /\ via[t] = "none" /\ conn[t] = "none" /\ server[t].pc = "idle" /\ ~server[t].emitted
          /\ producer[t] = NewRun /\ queue[t] = <<>> /\ task[t] = NewTask /\ here = {}
      BY DEF Init
    <2>2. Life(t) /\ Flow(t)
      BY <1>1, <2>1 DEF Life, Flow, At, Stage, Busy, Chat
    <2>3. Heard(t) = {}
      BY <2>1 DEF Heard
    <2>4. Early(t) /\ Display(t)
      BY <2>1, <2>3 DEF Early, Display, At, Known, NewTask
    <2> QED BY <2>2, <2>4 DEF Each
  <1>4. Gated
    BY DEF Init, Gated, Ahead
  <1>5. Counts
    <2>1. working = {} /\ \A t \in Tasks : producer[t].base = {}
      BY <1>1 DEF Init
    <2> QED BY <2>1 DEF Counts, Counted
  <1> QED BY <1>2, <1>3, <1>4, <1>5 DEF Inv

LEMMA StutterInv ==
  ASSUME Inv, UNCHANGED vars
  PROVE  Inv'
  <1>1. /\ UNCHANGED <<via, server, producer, queue, conn, chan, persisted, working, page, task,
                       detached, here, faults, broken, reopened>>
        /\ Typed /\ Gated /\ Counts /\ \A u \in Tasks : Each(u)
    BY DEF Inv, vars, db, browser
  <1>2. Typed'
    BY <1>1 DEF Typed
  <1>3. ASSUME NEW t \in Tasks PROVE Each(t)'
    <2>1. Life(t)' /\ Display(t)' /\ Early(t)'
      BY <1>1 DEF Each, Life, Display, Early, Heard, At, Stage, Busy, Chat, Known
    <2>2. May(t)' = May(t) /\ (Past(t)' <=> Past(t)) /\ (Known(t)' <=> Known(t))
      BY <1>1 DEF May, Past, Known
    <2>3. Flow(t)'
      BY <1>1, <2>2 DEF Each, Flow
    <2> QED BY <2>1, <2>3 DEF Each
  <1>4. Gated'
    BY <1>1 DEF Gated, Ahead, Over, Busy
  <1>5. Counts'
    BY <1>1 DEF Counts, Counted, Holds, Escaped, Stage
  <1> QED BY <1>2, <1>3, <1>4, <1>5 DEF Inv

LEMMA NextInv == Inv /\ [Next]_vars => Inv'
  <1> SUFFICES ASSUME Inv, [Next]_vars PROVE Inv'
    OBVIOUS
  <1>1. ASSUME NEW t \in Tasks, Produce(t) PROVE Inv'
    BY <1>1, TokenInv, AnswerReadyInv, WikiAnswerInv, EndsInv, ReadStateInv, WriteStateInv DEF Produce
  <1>2. ASSUME NEW t \in Tasks, Serve(t) PROVE Inv'
    BY <1>2, RoutedInv, TimeoutInv, EarlySourcesInv, EarlyDoneInv, DrainItemInv, AnsweredInv,
       LateAnswerInv, SayInv DEF Serve
  <1>3. ASSUME NEW t \in Tasks, Connect(t) \/ Cancel(t) PROVE Inv'
    BY <1>3, StartInv, RefuseInv, CancelInv DEF Connect
  <1>4. ASSUME NEW t \in Tasks, Read(t) \/ Break(t) \/ BreakCleanly(t) \/ Detach(t) PROVE Inv'
    BY <1>4, ReadChatInv, ReadFileInv, BreakInv, DetachInv DEF Read
  <1>5. ASSUME NEW t \in Tasks, SubmitFile(t) \/ \E kind \in {"chat", "attach"} : Submit(t, kind)
        PROVE  Inv'
    BY <1>5, SubmitInv
  <1>6. CASE UNCHANGED vars
    BY <1>6, StutterInv
  <1> QED BY <1>1, <1>2, <1>3, <1>4, <1>5, <1>6, ReloadInv DEF Next

\* The generator, the worker, the connection and the page of every task stay in
\* step, and no two chat tasks run behind the gate at once.
THEOREM Invariant == Spec => []Inv
  <1>1. Init => Inv
    BY InitInv
  <1>2. Inv /\ [Next]_vars => Inv'
    BY NextInv
  <1> QED BY <1>1, <1>2, PTL DEF Spec

\* Every variable has its type; no connection holds more than MaxInFlight events.
THEOREM TypeCorrect == Spec => []TypeOK
  <1>1. Inv => TypeOK
    <2> SUFFICES ASSUME Typed PROVE TypeOK
      BY DEF Inv
    <2>1. ASSUME NEW t \in Tasks
          PROVE  /\ server[t].pc \in {"idle", "route", "get", "early", "drain", "closed", "gone"}
                                     \cup DOMAIN Ending
                 /\ server[t].emitted \in BOOLEAN
                 /\ producer[t].tokens \in 0 .. MaxTokens /\ producer[t].base \subseteq Tasks
                 /\ task[t].status \in {"none", "planning", "streaming", "complete", "failed"}
      <3>1. server[t] \in Server /\ producer[t] \in Producer /\ task[t] \in Task
        BY DEF Typed
      <3>2. DOMAIN Ending = {"sources", "done", "fail", "complete", "sentinel"}
        BY DEF Ending
      <3> QED BY <3>1, <3>2 DEF Server, Pcs, Producer, Task
    <2> QED BY <2>1 DEF Typed, TypeOK, Vias, Conns, Page, Roles
  <1> QED BY <1>1, Invariant, PTL

\* While a chat task's pipeline runs, hooks included, the input stays disabled,
\* and an attached upload stays until the pipeline that reads it has ended:
\* the page opens the gate at the last events of the task that closed it, which
\* the generator writes after the worker is done.
THEOREM InputGated == Spec => []GateHeld
  <1>1. Inv => GateHeld
    <2> SUFFICES ASSUME Inv PROVE GateHeld
      OBVIOUS
    <2>1. Typed /\ Gated
      BY DEF Inv
    <2>2. ASSUME NEW t \in here \ (broken \cup reopened), Chat(t), Busy(t) PROVE page.finalizing
      <3>1. t \in Tasks /\ ~Escaped(t)
        BY <2>1, <2>2 DEF Typed, Escaped, Chat
      <3> QED BY <2>1, <2>2, <3>1, BusyAhead DEF Gated
    <2>3. \A t \in detached \ broken : ~Busy(t)
      BY <2>1 DEF Gated, Over, Typed
    <2> QED BY <2>2, <2>3 DEF GateHeld
  <1> QED BY <1>1, Invariant, PTL

\* What the page does with an event never takes back a task's outcome.
LEMMA OutcomeStays ==
  ASSUME Inv, Next, NEW t \in here \cap here', Known(t)
  PROVE  task'[t].status = task[t].status \/ t \in broken'
  <1>1. Typed /\ Each(t) /\ t \in Tasks /\ task \in [Tasks -> Task]
    BY DEF Inv, Typed
  <1>2. ASSUME NEW u \in Tasks, Produce(u) \/ Serve(u) \/ Cancel(u) \/ Start(u) \/ Detach(u)
        PROVE  task' = task
    BY <1>2 DEF Produce, Token, AnswerReady, WikiAnswer, RunFails, NoHooks, ReadState, WriteState,
                Serve, Routed, Unroutable, Timeout, Relay, Drop, EarlySources, EarlyDone, DrainItem,
                Answered, LateAnswer, Say, Cancel, Start, Detach, browser
  <1>3. ASSUME NEW u \in Tasks, SubmitFile(u) \/ \E kind \in {"chat", "attach"} : Submit(u, kind)
        PROVE  task'[t] = task[t]
    <2>1. via[u] = "none"
      BY <1>3 DEF SubmitFile, Submit
    <2>2. u # t
      BY <2>1, Fresh
    <2> QED BY <1>1, <1>3, <2>2 DEF SubmitFile, Submit
  <1>4. ASSUME NEW u \in Tasks, Refuse(u) PROVE task'[t] = task[t]
    <2>1. conn[u] = "connecting"
      BY <1>4 DEF Refuse
    <2>2. u # t
      BY <1>1, <2>1 DEF Each, Display
    <2> QED BY <1>1, <1>4, <2>2 DEF Refuse, Failed
  <1>5. ASSUME NEW u \in Tasks, Break(u) \/ BreakCleanly(u)
        PROVE  task'[t] = task[t] \/ t \in broken'
    <2>1. u \in broken'
      BY <1>5 DEF Break, BreakCleanly, Cut
    <2>2. CASE u # t
      BY <1>1, <1>5, <2>2 DEF Break, BreakCleanly, Failed
    <2> QED BY <2>1, <2>2
  <1>6. ASSUME NEW u \in Tasks, ReadFile(u) PROVE task'[t].status = task[t].status
    <2>1. CASE u # t
      BY <1>1, <1>6, <2>1 DEF ReadFile
    <2>2. CASE u = t
      <3>1. task[t].status = "complete"
        BY <1>1, <1>6, <2>2 DEF ReadFile, Each, Display, Known
      <3> QED BY <1>1, <1>6, <2>2, <3>1 DEF ReadFile
    <2> QED BY <2>1, <2>2
  <1>7. ASSUME NEW u \in Tasks, ReadChat(u) PROVE task'[t].status = task[t].status
    <2>1. CASE u # t
      BY <1>1, <1>7, <2>1 DEF ReadChat
    <2>2. CASE u = t
      <3>1. /\ conn[t] = "open" /\ chan[t] # <<>> /\ via[t] # "files" /\ Consume(t)
            /\ task' = [task EXCEPT ![t] = TaskAfter(task[t], Event(t))]
        BY <1>7, <2>2 DEF ReadChat, Reads, Chat
      <3>2. Event(t) \in Closings
        BY <1>1, <3>1, Consumed DEF Each, Flow
      <3>3. Closing(task[t]) = task[t].status
        BY DEF Known, Closing
      <3>4. TaskAfter(task[t], Event(t)).status = task[t].status
        BY <1>1, <3>2, <3>3, Shown DEF Closings, Events
      <3> QED BY <1>1, <3>1, <3>4
    <2> QED BY <2>1, <2>2
  <1>8. ~Reload
    BY DEF Reload
  <1> QED BY <1>2, <1>3, <1>4, <1>5, <1>6, <1>7, <1>8 DEF Next, Connect, Read

\* A turn counted in the working state is dropped from it only if one of the two
\* turns escaped the input's gate: behind the gate, a pipeline reads the state
\* that its own turn's update will replace.
THEOREM WorkingStateStands == Spec => WorkingStateKept
  <1>1. Inv /\ [Next]_vars =>
          [\A t \in working \ working' : Escaped(t) \/ \E u \in working' : Escaped(u)]_vars
    <2> SUFFICES ASSUME Inv, Next, NEW t \in working \ working', ~Escaped(t)
                 PROVE  \E u \in working' : Escaped(u)
      OBVIOUS
    <2>1. PICK w \in Tasks : WriteState(w)
      BY DEF Next, Connect, Read, Produce, Token, AnswerReady, WikiAnswer, RunFails, NoHooks, ReadState,
             Serve, Routed, Unroutable, Timeout, Relay, Drop, EarlySources, EarlyDone, DrainItem,
             Answered, LateAnswer, Say, Cancel, Start, Detach, Submit, SubmitFile, Refuse, ReadChat,
             ReadFile, Break, BreakCleanly, Cut, Reload, db
    <2>2. working' = producer[w].base \cup {w} /\ Stage(w, "infer")
      BY <2>1 DEF WriteState, Upsert, Extracted
    <2>3. t \in Tasks /\ Counted(t)
      BY DEF Inv, Typed, Counted
    <2>4. Holds(working', t)
      BY <2>2, <2>3, WriteKeeps
    <2> QED BY <2>4 DEF Holds
  <1> QED BY <1>1, Invariant, PTL DEF Spec, WorkingStateKept

-----------------------------------------------------------------------------
(* The turns of a task in the history, and how the page takes it to end    *)

Both == <<"user", "assistant">>

\* Only the user's turn is stored; both are; the last events are being written
\* or the generator is at its end.
Pending(t) == \/ server[t].pc \in {"route", "early", "fail"}
              \/ server[t].pc \in {"get", "drain"} /\ ~server[t].emitted
Stored(t)  == \/ server[t].pc \in {"sources", "done"}
              \/ server[t].pc \in {"get", "drain"} /\ server[t].emitted
Sealed(t)  == server[t].pc \in {"idle", "complete", "sentinel", "closed", "gone"}

\* What is stored of a task, what the events in flight say of it and what the
\* page knows agree.
Story(t) ==
    /\ At(t, "idle") => persisted[t] = <<>>
    /\ ~At(t, "idle") => persisted[t] \in {<<"user">>, Both}
    /\ Pending(t) => persisted[t] = <<"user">>
    /\ Stored(t) => persisted[t] = Both
    /\ \A n \in 1 .. Len(chan[t]) :
          /\ chan[t][n] = "done" => persisted[t] = Both
          /\ chan[t][n] = "error" => persisted[t] # Both /\ Sealed(t)
    /\ t \notin broken =>
          /\ task[t].status = "complete" => persisted[t] = Both
          /\ task[t].status = "failed" => persisted[t] # Both /\ Sealed(t)
    /\ t \in broken => conn[t] = "cut"
    /\ t \notin here => ~Known(t)

SInv == Inv /\ \A t \in Tasks : Story(t)

LEMMA Tellings ==
  /\ \A s : s = <<>> => s # <<"user">> /\ s # Both
  /\ \A s : s = <<"user">> => s # Both
  /\ Append(<<>>, "user") = <<"user">>
  /\ \A s \in Seq(Roles) : s = <<"user">> => Append(s, "assistant") = Both
  /\ Told(Both) /\ ~Told(<<>>) /\ ~Told(<<"user">>)
  <1>1. \A s : s = <<>> => s # <<"user">> /\ s # Both
    BY DEF Both
  <1>2. \A s : s = <<"user">> => s # Both
    BY DEF Both
  <1>3. Append(<<>>, "user") = <<"user">>
    OBVIOUS
  <1>4. \A s \in Seq(Roles) : s = <<"user">> => Append(s, "assistant") = Both
    <2> SUFFICES ASSUME NEW s \in Seq(Roles), s = <<"user">> PROVE Append(s, "assistant") = Both
      OBVIOUS
    <2> DEFINE w == Append(s, "assistant")
    <2>1. Len(s) = 1 /\ s[1] = "user"
      OBVIOUS
    <2>2. w \in Seq(Roles) /\ Len(w) = 2 /\ w[1] = "user" /\ w[2] = "assistant"
      BY <2>1 DEF Roles
    <2>3. Both \in Seq(Roles) /\ Len(Both) = 2 /\ Both[1] = "user" /\ Both[2] = "assistant"
      BY DEF Both, Roles
    <2> HIDE DEF w, Both
    <2>4. w = Both
      BY <2>2, <2>3
    <2> QED BY <2>4 DEF w
  <1>5. ~Told(<<>>)
    <2>1. Len(<<>>) = 0
      OBVIOUS
    <2> QED BY <2>1 DEF Told
  <1>6. ~Told(<<"user">>)
    BY DEF Told
  <1>7. Told(Both)
    <2>1. 2 \in 1 .. Len(Both) /\ Both[2] = "assistant"
      BY DEF Both
    <2> QED BY <2>1 DEF Told
  <1> QED BY <1>1, <1>2, <1>3, <1>4, <1>5, <1>6, <1>7

\* A step that t has no part in.
LEMMA StorySame ==
  ASSUME NEW t \in Tasks, Story(t), server'[t] = server[t], persisted'[t] = persisted[t],
         chan'[t] = chan[t], conn'[t] = conn[t], task'[t] = task[t],
         t \in here' <=> t \in here, t \in broken' <=> t \in broken
  PROVE  Story(t)'
  <1>1. (Pending(t)' <=> Pending(t)) /\ (Stored(t)' <=> Stored(t)) /\ (Sealed(t)' <=> Sealed(t))
        /\ (Known(t)' <=> Known(t)) /\ (At(t, "idle")' <=> At(t, "idle"))
    BY DEF Pending, Stored, Sealed, Known, At
  <1> QED BY <1>1 DEF Story

\* A step of the generator.
LEMMA TellStory ==
  ASSUME SInv, NEW t \in Tasks, NEW s \in Server, server' = [server EXCEPT ![t] = s],
         UNCHANGED <<conn, task, here, broken>>,
         \/ UNCHANGED chan
         \/ \E e \in Events : /\ Yield(t, e)
                              /\ e = "done" => persisted'[t] = Both
                              /\ e = "error" => persisted'[t] # Both /\ Sealed(t)',
         UNCHANGED persisted \/ (\E role \in Roles : Persist(t, role)),
         server[t].pc # "idle", s.pc # "idle",
         persisted'[t] \in {<<"user">>, Both},
         Pending(t)' => persisted'[t] = <<"user">>,
         Stored(t)' => persisted'[t] = Both,
         Sealed(t) => Sealed(t)' /\ persisted'[t] = persisted[t],
         persisted[t] = Both => persisted'[t] = Both
  PROVE  \A u \in Tasks : Story(u)'
  <1>1. /\ Typed /\ (\A u \in Tasks : Story(u)) /\ server'[t] = s
        /\ \A u \in Tasks \ {t} : server'[u] = server[u]
    BY DEF SInv, Inv, Typed
  <1>2. \A u \in Tasks \ {t} : chan'[u] = chan[u] /\ persisted'[u] = persisted[u]
    BY <1>1, Yields, PersistTypes
  <1>3. \A u \in Tasks \ {t} : Story(u)'
    BY <1>1, <1>2, StorySame
  <1>4. \A n \in 1 .. Len(chan'[t]) :
            /\ chan'[t][n] = "done" => persisted'[t] = Both
            /\ chan'[t][n] = "error" => persisted'[t] # Both /\ Sealed(t)'
    <2>1. \A n \in 1 .. Len(chan[t]) :
              /\ chan[t][n] = "done" => persisted'[t] = Both
              /\ chan[t][n] = "error" => persisted'[t] # Both /\ Sealed(t)'
      BY <1>1 DEF Story
    <2>2. ASSUME NEW e \in Events, Yield(t, e),
                 e = "done" => persisted'[t] = Both,
                 e = "error" => persisted'[t] # Both /\ Sealed(t)'
          PROVE  \A n \in 1 .. Len(chan'[t]) :
                    /\ chan'[t][n] = "done" => persisted'[t] = Both
                    /\ chan'[t][n] = "error" => persisted'[t] # Both /\ Sealed(t)'
      <3>1. CASE conn[t] = "open"
        <4>1. /\ Len(chan'[t]) = Len(chan[t]) + 1 /\ Len(chan[t]) \in Nat
              /\ \A n \in 1 .. Len(chan[t]) : chan'[t][n] = chan[t][n]
              /\ chan'[t][Len(chan[t]) + 1] = e
          BY <1>1, <2>2, <3>1, Yields
        <4>2. \A n \in 1 .. Len(chan'[t]) : n \in 1 .. Len(chan[t]) \/ n = Len(chan[t]) + 1
          BY <4>1
        <4> QED BY <2>1, <2>2, <4>1, <4>2
      <3>2. CASE conn[t] # "open"
        BY <1>1, <2>1, <2>2, <3>2, Yields
      <3> QED BY <3>1, <3>2
    <2>3. CASE UNCHANGED chan
      BY <2>1, <2>3
    <2> QED BY <2>2, <2>3
  <1>5. /\ t \notin broken =>
             /\ task[t].status = "complete" => persisted'[t] = Both
             /\ task[t].status = "failed" => persisted'[t] # Both /\ Sealed(t)'
        /\ t \in broken => conn[t] = "cut"
        /\ t \notin here => ~Known(t)
    BY <1>1 DEF Story
  <1>6. Story(t)'
    BY <1>1, <1>4, <1>5 DEF Story, At, Known
  <1> QED BY <1>3, <1>6

LEMMA RouteStory ==
  ASSUME SInv, NEW t \in Tasks, Routed(t) \/ Unroutable(t)
  PROVE  \A u \in Tasks : Story(u)'
  <1>1. /\ server[t].pc = "route" /\ UNCHANGED <<conn, persisted, task, here, broken>>
        /\ \E pc \in {"get", "sentinel"}, e \in {"status", "error"} :
              Goto(t, pc) /\ Yield(t, e) /\ (e = "error" => pc = "sentinel")
    BY DEF Routed, Unroutable, At, db, browser
  <1>2. PICK pc \in {"get", "sentinel"}, e \in {"status", "error"} :
              Goto(t, pc) /\ Yield(t, e) /\ (e = "error" => pc = "sentinel")
    BY <1>1
  <1>3. Typed /\ Early(t) /\ Story(t)
    BY DEF SInv, Inv, Each
  <1>4. ~server[t].emitted /\ persisted[t] = <<"user">> /\ persisted[t] # Both
    BY <1>1, <1>3, Tellings DEF Early, Story, Pending
  <1>5. PICK s \in Server : /\ server' = [server EXCEPT ![t] = s] /\ s.pc = pc
                            /\ s.emitted = server[t].emitted /\ server'[t] = s
    BY <1>2, <1>3, GotoTypes DEF Pcs
  <1>6. /\ ~Stored(t)' /\ (pc = "sentinel" => Sealed(t)') /\ ~Sealed(t)
        /\ e \in Events /\ e # "done"
    BY <1>1, <1>4, <1>5 DEF Stored, Sealed, Events
  <1> QED BY <1>1, <1>2, <1>4, <1>5, <1>6, TellStory

\* What a get leads to is as told as the get was.
LEMMA GetStory ==
  ASSUME SInv, NEW t \in Tasks, Timeout(t) \/ Relay(t) \/ Drop(t)
  PROVE  \A u \in Tasks : Story(u)'
  <1>1. /\ server[t].pc = "get" /\ Goto(t, Again(t))
        /\ UNCHANGED <<conn, persisted, task, here, broken>>
        /\ \/ UNCHANGED chan
           \/ Yield(t, Item(t)) /\ Relayed(t) /\ queue[t] # <<>> /\ NextItem(t)
    BY DEF Timeout, Relay, Drop, At, db, browser
  <1>2. Typed /\ Each(t) /\ producer[t] \in Producer /\ Story(t)
    BY DEF SInv, Inv, Typed
  <1>3. /\ Again(t) \in {"get", "complete", "fail", "drain"}
        /\ Again(t) = "fail" => ~server[t].emitted
    BY <1>1, <1>2, AgainTypes DEF Each
  <1>4. PICK s \in Server : /\ server' = [server EXCEPT ![t] = s] /\ s.pc = Again(t)
                            /\ s.emitted = server[t].emitted /\ server'[t] = s
    BY <1>1, <1>2, <1>3, GotoTypes DEF Pcs
  <1>5. persisted[t] = IF server[t].emitted THEN Both ELSE <<"user">>
    BY <1>1, <1>2 DEF Story, Pending, Stored
  <1>6. /\ Pending(t)' => ~server[t].emitted
        /\ Stored(t)' => server[t].emitted
        /\ ~Sealed(t)
    BY <1>1, <1>3, <1>4 DEF Pending, Stored, Sealed
  <1>7. UNCHANGED chan \/ \E e \in Events : Yield(t, e) /\ e # "done" /\ e # "error"
    <2>1. Relayed(t) /\ queue[t] # <<>> /\ NextItem(t) =>
             Item(t) \in Events /\ Item(t) # "done" /\ Item(t) # "error"
      BY <1>2, Dequeued DEF Relayed, Items, Events
    <2> QED BY <1>1, <2>1
  <1>8. s.pc # "idle" /\ server[t].pc # "idle"
    BY <1>1, <1>3, <1>4
  <1> QED BY <1>1, <1>4, <1>5, <1>6, <1>7, <1>8, TellStory

LEMMA EarlySourcesStory ==
  ASSUME SInv, NEW t \in Tasks, EarlySources(t)
  PROVE  \A u \in Tasks : Story(u)'
  <1> DEFINE s == [pc |-> "early", emitted |-> TRUE]
  <1>1. /\ server[t].pc = "get" /\ queue[t] # <<>> /\ NextItem(t) /\ Item(t) = "answer_ready"
        /\ Yield(t, "sources") /\ server' = [server EXCEPT ![t] = s]
        /\ UNCHANGED <<conn, persisted, task, here, broken>>
    BY DEF EarlySources, At, db, browser
  <1>2. Typed /\ Early(t) /\ Story(t) /\ s \in Server /\ server'[t] = s /\ s.pc = "early"
    BY <1>1 DEF SInv, Inv, Each, Typed, Server, Pcs
  <1> HIDE DEF s
  <1>3. ~server[t].emitted
    BY <1>1, <1>2, Dequeued DEF Early
  <1>4. persisted[t] = <<"user">>
    BY <1>1, <1>2, <1>3 DEF Story, Pending
  <1>5. ~Stored(t)' /\ ~Sealed(t) /\ "sources" \in Events
    BY <1>1, <1>2 DEF Stored, Sealed, Events
  <1> QED BY <1>1, <1>2, <1>4, <1>5, TellStory

\* The answer is stored, after the user's turn.
LEMMA AnswerStored ==
  ASSUME SInv, NEW t \in Tasks, EarlyDone(t) \/ LateAnswer(t)
  PROVE  Persist(t, "assistant") /\ persisted[t] = <<"user">> /\ persisted'[t] = Both
  <1>1. Persist(t, "assistant")
    BY DEF EarlyDone, LateAnswer
  <1>2. persisted[t] = <<"user">> /\ persisted \in [Tasks -> Seq(Roles)]
    BY DEF EarlyDone, LateAnswer, SInv, Inv, Typed, Story, Pending, At
  <1>3. persisted'[t] = Append(persisted[t], "assistant")
    BY <1>1, <1>2 DEF Persist
  <1> QED BY <1>1, <1>2, <1>3, Tellings

LEMMA EarlyDoneStory ==
  ASSUME SInv, NEW t \in Tasks, EarlyDone(t)
  PROVE  \A u \in Tasks : Story(u)'
  <1>1. /\ server[t].pc = "early" /\ Yield(t, "done") /\ Goto(t, Again(t))
        /\ UNCHANGED <<conn, task, here, broken>>
    BY DEF EarlyDone, At, browser
  <1>2. Typed /\ Each(t) /\ producer[t] \in Producer /\ server[t].emitted
    BY <1>1 DEF SInv, Inv, Typed, Each, Early, At
  <1>3. Again(t) \in {"get", "complete", "drain"} /\ Again(t) \in Pcs
    <2>1. Again(t) \in {"get", "complete", "drain"}
      BY <1>1, <1>2, AgainTypes DEF Each
    <2> QED BY <2>1 DEF Pcs
  <1>4. PICK s \in Server : /\ server' = [server EXCEPT ![t] = s] /\ s.pc = Again(t)
                            /\ s.emitted = server[t].emitted /\ server'[t] = s
    BY <1>1, <1>2, <1>3, GotoTypes
  <1>5. Persist(t, "assistant") /\ persisted'[t] = Both /\ "assistant" \in Roles
    BY AnswerStored DEF Roles
  <1>6. ~Pending(t)' /\ ~Sealed(t) /\ "done" \in Events /\ s.pc # "idle"
    BY <1>1, <1>2, <1>3, <1>4 DEF Pending, Sealed, Events
  <1> QED BY <1>1, <1>4, <1>5, <1>6, TellStory

LEMMA DrainStory ==
  ASSUME SInv, NEW t \in Tasks, DrainItem(t)
  PROVE  \A u \in Tasks : Story(u)'
  <1>1. server[t].pc = "drain" /\ UNCHANGED <<server, conn, persisted, task, here, broken>>
    BY DEF DrainItem, At, db, browser
  <1>2. Typed /\ Story(t) /\ server[t] \in Server /\ server' = [server EXCEPT ![t] = server[t]]
        /\ queue[t] \in Seq(Items)
    BY <1>1 DEF SInv, Inv, Typed
  <1>3. PICK n \in Drains(t) : Yield(t, queue[t][n])
    BY DEF DrainItem
  <1>4. queue[t][n] \in Events \ {"done", "error"}
    <2>1. n \in 1 .. Len(queue[t]) /\ queue[t][n] # "answer_ready"
      BY DEF Drains
    <2> QED BY <1>2, <2>1 DEF Items, Events
  <1>5. /\ (Pending(t)' <=> Pending(t)) /\ (Stored(t)' <=> Stored(t)) /\ (Sealed(t)' <=> Sealed(t))
    BY <1>1 DEF Pending, Stored, Sealed
  <1> QED BY <1>1, <1>2, <1>3, <1>4, <1>5, TellStory DEF Story, At

LEMMA AnsweredStory ==
  ASSUME SInv, NEW t \in Tasks, Answered(t)
  PROVE  \A u \in Tasks : Story(u)'
  <1> DEFINE pc == IF server[t].emitted THEN "complete" ELSE "fail"
  <1>1. /\ server[t].pc = "drain" /\ Goto(t, pc)
        /\ UNCHANGED <<conn, chan, persisted, task, here, broken>>
    BY DEF Answered, At, db, browser
  <1>2. Typed /\ Story(t)
    BY DEF SInv, Inv
  <1>3. PICK s \in Server : /\ server' = [server EXCEPT ![t] = s] /\ s.pc = pc
                            /\ s.emitted = server[t].emitted /\ server'[t] = s
    BY <1>1, <1>2, GotoTypes DEF Pcs
  <1>4. /\ persisted[t] \in {<<"user">>, Both} /\ (~server[t].emitted => persisted[t] = <<"user">>)
        /\ (Pending(t)' => ~server[t].emitted) /\ ~Stored(t)' /\ ~Sealed(t)
    BY <1>1, <1>2, <1>3 DEF Story, Pending, Stored, Sealed, At
  <1> QED BY <1>1, <1>3, <1>4, TellStory

LEMMA LateAnswerStory ==
  ASSUME SInv, NEW t \in Tasks, LateAnswer(t)
  PROVE  \A u \in Tasks : Story(u)'
  <1>1. /\ server[t].pc = "drain" /\ Goto(t, "sources")
        /\ UNCHANGED <<conn, chan, task, here, broken>>
    BY DEF LateAnswer, At, browser
  <1>2. Typed
    BY DEF SInv, Inv
  <1>3. PICK s \in Server : /\ server' = [server EXCEPT ![t] = s] /\ s.pc = "sources"
                            /\ s.emitted = server[t].emitted /\ server'[t] = s
    BY <1>1, <1>2, GotoTypes DEF Pcs
  <1>4. Persist(t, "assistant") /\ persisted'[t] = Both /\ "assistant" \in Roles
    BY AnswerStored DEF Roles
  <1>5. ~Pending(t)' /\ ~Sealed(t)
    BY <1>1, <1>3 DEF Pending, Sealed
  <1> QED BY <1>1, <1>3, <1>4, <1>5, TellStory

LEMMA SayStory ==
  ASSUME SInv, NEW t \in Tasks, Say(t)
  PROVE  \A u \in Tasks : Story(u)'
  <1>1. UNCHANGED <<conn, persisted, task, here, broken>>
    BY DEF Say, db, browser
  <1>2. Typed /\ Story(t)
    BY DEF SInv, Inv
  <1>3. PICK pc \in Pcs, e \in Events :
            /\ Yield(t, e) /\ Goto(t, pc)
            /\ <<server[t].pc, e, pc>> \in {<<"sources", "sources", "done">>,
                                            <<"done", "done", "complete">>,
                                            <<"fail", "error", "complete">>,
                                            <<"complete", "task_complete", "sentinel">>,
                                            <<"sentinel", "[DONE]", "closed">>}
    BY Endings
  <1>4. \/ server[t].pc = "sources" /\ e = "sources" /\ pc = "done"
        \/ server[t].pc = "done" /\ e = "done" /\ pc = "complete"
        \/ server[t].pc = "fail" /\ e = "error" /\ pc = "complete"
        \/ server[t].pc = "complete" /\ e = "task_complete" /\ pc = "sentinel"
        \/ server[t].pc = "sentinel" /\ e = "[DONE]" /\ pc = "closed"
    BY <1>3
  <1>5. PICK s \in Server : /\ server' = [server EXCEPT ![t] = s] /\ s.pc = pc
                            /\ s.emitted = server[t].emitted /\ server'[t] = s
    BY <1>2, <1>3, GotoTypes
  <1>6. /\ persisted[t] \in {<<"user">>, Both} /\ server[t].pc # "idle" /\ s.pc # "idle"
        /\ (server[t].pc \in {"sources", "done"} => persisted[t] = Both)
        /\ (server[t].pc = "fail" => persisted[t] # Both)
    BY <1>2, <1>4, <1>5, Tellings DEF Story, Stored, Pending, At
  <1>7. /\ ~Pending(t)' /\ (Stored(t)' => server[t].pc = "sources")
        /\ (Sealed(t) => Sealed(t)') /\ (e = "error" => Sealed(t)')
    BY <1>4, <1>5 DEF Pending, Stored, Sealed
  <1>8. /\ (e = "done" => persisted'[t] = Both) /\ (e = "error" => persisted'[t] # Both /\ Sealed(t)')
    BY <1>1, <1>4, <1>6, <1>7
  <1> QED BY <1>1, <1>3, <1>5, <1>6, <1>7, <1>8, TellStory

LEMMA CancelStory ==
  ASSUME SInv, NEW t \in Tasks, Cancel(t)
  PROVE  \A u \in Tasks : Story(u)'
  <1>1. /\ server[t].pc \notin {"idle", "closed", "gone"} /\ Goto(t, "gone")
        /\ UNCHANGED <<conn, chan, persisted, task, here, broken>>
    BY DEF Cancel, db, browser
  <1>2. Typed /\ Story(t)
    BY DEF SInv, Inv
  <1>3. PICK s \in Server : /\ server' = [server EXCEPT ![t] = s] /\ s.pc = "gone"
                            /\ s.emitted = server[t].emitted /\ server'[t] = s
    BY <1>1, <1>2, GotoTypes DEF Pcs
  <1>4. /\ persisted[t] \in {<<"user">>, Both} /\ ~Pending(t)' /\ ~Stored(t)' /\ Sealed(t)'
    BY <1>1, <1>2, <1>3 DEF Story, Pending, Stored, Sealed, At
  <1> QED BY <1>1, <1>3, <1>4, TellStory

LEMMA StartStory ==
  ASSUME SInv, NEW t \in Tasks, Start(t)
  PROVE  /\ \A u \in Tasks : Story(u)'
         /\ Persist(t, "user") /\ persisted[t] = <<>> /\ persisted'[t] = <<"user">>
  <1>1. /\ conn[t] = "connecting" /\ conn' = [conn EXCEPT ![t] = "open"]
        /\ chan' = [chan EXCEPT ![t] = <<"status">>] /\ Persist(t, "user") /\ Goto(t, "route")
        /\ UNCHANGED <<task, here, broken>>
    BY DEF Start, browser
  <1>2. Typed /\ Each(t) /\ \A u \in Tasks : Story(u)
    BY DEF SInv, Inv
  <1>3. /\ server[t].pc = "idle" /\ ~server[t].emitted /\ t \in here /\ t \notin broken /\ ~Known(t)
        /\ persisted[t] = <<>>
    BY <1>1, <1>2 DEF Each, Life, Display, Story, At
  <1>4. PICK s \in Server : /\ server' = [server EXCEPT ![t] = s] /\ s.pc = "route"
                            /\ s.emitted = server[t].emitted /\ server'[t] = s
    BY <1>1, <1>2, GotoTypes DEF Pcs
  <1>5. /\ persisted' = [persisted EXCEPT ![t] = Append(@, "user")]
        /\ persisted \in [Tasks -> Seq(Roles)]
    BY <1>1, <1>2 DEF Persist, Typed
  <1>6. persisted'[t] = <<"user">>
    BY <1>3, <1>5, Tellings
  <1>7. chan'[t] = <<"status">> /\ conn'[t] = "open"
    BY <1>1, <1>2 DEF Typed
  <1>8. \A n \in 1 .. Len(chan'[t]) : chan'[t][n] = "status"
    BY <1>7
  <1>9. Story(t)'
    BY <1>1, <1>3, <1>4, <1>6, <1>8 DEF Story, Pending, Stored, Known, At
  <1>10. \A u \in Tasks \ {t} : Story(u)'
    BY <1>1, <1>2, <1>4, <1>5, StorySame DEF Typed
  <1> QED BY <1>1, <1>3, <1>6, <1>9, <1>10

\* Nothing is stored and the generator rests: only the page learns something.
LEMMA PageStory ==
  ASSUME SInv, NEW t \in Tasks, UNCHANGED <<server, persisted>>,
         \A u \in Tasks \ {t} : /\ chan'[u] = chan[u] /\ conn'[u] = conn[u] /\ task'[u] = task[u]
                                /\ (u \in here' <=> u \in here) /\ (u \in broken' <=> u \in broken),
         \A n \in 1 .. Len(chan'[t]) : \E m \in 1 .. Len(chan[t]) : chan'[t][n] = chan[t][m],
         t \in here',
         t \in broken' => conn'[t] = "cut",
         t \notin broken' =>
            \/ task'[t].status = task[t].status
            \/ task'[t].status \in {"none", "planning", "streaming"}
            \/ task'[t].status = "complete" /\ persisted[t] = Both
            \/ task'[t].status = "failed" /\ persisted[t] # Both /\ Sealed(t),
         broken \subseteq broken'
  PROVE  \A u \in Tasks : Story(u)'
  <1>1. \A u \in Tasks : Story(u)
    BY DEF SInv
  <1>2. \A u \in Tasks \ {t} : Story(u)'
    BY <1>1, StorySame
  <1>3. /\ (Pending(t)' <=> Pending(t)) /\ (Stored(t)' <=> Stored(t)) /\ (Sealed(t)' <=> Sealed(t))
        /\ (At(t, "idle")' <=> At(t, "idle"))
    BY DEF Pending, Stored, Sealed, At
  <1>4. \A n \in 1 .. Len(chan'[t]) :
            /\ chan'[t][n] = "done" => persisted[t] = Both
            /\ chan'[t][n] = "error" => persisted[t] # Both /\ Sealed(t)
    BY <1>1 DEF Story
  <1>5. t \notin broken' =>
            /\ task'[t].status = "complete" => persisted[t] = Both
            /\ task'[t].status = "failed" => persisted[t] # Both /\ Sealed(t)
    BY <1>1 DEF Story
  <1>6. Story(t)'
    BY <1>1, <1>3, <1>4, <1>5 DEF Story
  <1> QED BY <1>2, <1>6

LEMMA RefuseStory ==
  ASSUME SInv, NEW t \in Tasks, Refuse(t)
  PROVE  /\ \A u \in Tasks : Story(u)'
         /\ Chat(t) => task'[t].status = "failed"
         /\ persisted[t] # Both /\ \A u \in Tasks \ {t} : task'[u] = task[u]
  <1>1. /\ conn[t] = "connecting" /\ conn' = [conn EXCEPT ![t] = "closed"]
        /\ UNCHANGED <<server, persisted, chan, here, broken>>
        /\ \/ Chat(t) /\ Failed(t)
           \/ ~Chat(t) /\ task' = task
    BY DEF Refuse, db
  <1>2. Typed /\ Each(t) /\ Story(t)
    BY DEF SInv, Inv
  <1>3. server[t].pc = "idle" /\ t \in here /\ t \notin broken /\ persisted[t] = <<>> /\ Sealed(t)
    BY <1>1, <1>2 DEF Each, Life, Story, At, Sealed
  <1>4. persisted[t] # Both
    BY <1>3, Tellings
  <1>5. /\ \A u \in Tasks \ {t} : conn'[u] = conn[u] /\ task'[u] = task[u]
        /\ (Failed(t) => task'[t].status = "failed") /\ (task' = task => task'[t] = task[t])
    BY <1>1, <1>2, FailedTypes DEF Typed
  <1>6. \A u \in Tasks : Story(u)'
    BY <1>1, <1>3, <1>4, <1>5, PageStory
  <1> QED BY <1>1, <1>4, <1>5, <1>6

LEMMA BreakStory ==
  ASSUME SInv, NEW t \in Tasks, Break(t) \/ BreakCleanly(t)
  PROVE  /\ \A u \in Tasks : Story(u)'
         /\ t \in here \ broken /\ \A u \in Tasks \ {t} : task'[u] = task[u]
         /\ task'[t].status \in {task[t].status, "failed"}
  <1>1. /\ t \in here /\ conn[t] = "open" /\ conn' = [conn EXCEPT ![t] = "cut"]
        /\ chan' = [chan EXCEPT ![t] = <<>>] /\ broken' = broken \cup {t}
        /\ UNCHANGED <<server, persisted, here>>
        /\ \/ Failed(t)
           \/ UNCHANGED task
           \/ task' = [task EXCEPT ![t].resolved = TRUE]
    BY DEF Break, BreakCleanly, Cut, db
  <1>2. Typed /\ Story(t) /\ task \in [Tasks -> Task] /\ task[t] \in Task
    BY DEF SInv, Inv, Typed
  <1>3. /\ \A u \in Tasks \ {t} : task'[u] = task[u]
        /\ task'[t].status \in {task[t].status, "failed"}
    <2>1. CASE Failed(t)
      BY <1>2, <2>1, FailedTypes
    <2>2. CASE UNCHANGED task
      BY <2>2
    <2>3. CASE task' = [task EXCEPT ![t].resolved = TRUE]
      BY <1>2, <2>3 DEF Task
    <2> QED BY <1>1, <2>1, <2>2, <2>3
  <1>4. /\ \A u \in Tasks \ {t} : chan'[u] = chan[u] /\ conn'[u] = conn[u]
        /\ chan'[t] = <<>> /\ conn'[t] = "cut" /\ Len(chan'[t]) = 0
    BY <1>1, <1>2 DEF Typed
  <1>5. t \notin broken
    BY <1>1, <1>2 DEF Story
  <1> QED BY <1>1, <1>3, <1>4, <1>5, PageStory

LEMMA SubmitStory ==
  ASSUME SInv, NEW t \in Tasks, SubmitFile(t) \/ \E kind \in {"chat", "attach"} : Submit(t, kind)
  PROVE  /\ \A u \in Tasks : Story(u)'
         /\ via[t] = "none" /\ here' = here \cup {t}
         /\ \E kind \in Vias \ {"none"} : via' = [via EXCEPT ![t] = kind]
         /\ \A u \in Tasks : Ended(u)' = Ended(u)
  <1>1. /\ via[t] = "none" /\ here' = here \cup {t} /\ conn' = [conn EXCEPT ![t] = "connecting"]
        /\ UNCHANGED <<server, persisted, chan, broken>>
        /\ UNCHANGED task \/ task' = [task EXCEPT ![t].status = "planning"]
        /\ \E kind \in Vias \ {"none"} : via' = [via EXCEPT ![t] = kind]
    BY DEF SubmitFile, Submit, db, Vias
  <1>2. /\ Typed /\ Story(t) /\ task \in [Tasks -> Task] /\ task[t] \in Task
        /\ conn[t] = "none" /\ task[t] = NewTask
    BY <1>1, Fresh DEF SInv, Inv, Typed
  <1>3. /\ \A u \in Tasks \ {t} : task'[u] = task[u]
        /\ task'[t].status \in {"none", "planning"} /\ task[t].status = "none"
    BY <1>1, <1>2 DEF Task, NewTask
  <1>4. \A u \in Tasks \ {t} : conn'[u] = conn[u]
    BY <1>1, <1>2 DEF Typed
  <1>5. t \notin broken
    BY <1>2 DEF Story
  <1>6. \A u \in Tasks : Story(u)'
    BY <1>1, <1>3, <1>4, <1>5, PageStory
  <1>7. \A u \in Tasks : Ended(u)' = Ended(u)
    BY <1>3 DEF Ended
  <1> QED BY <1>1, <1>6, <1>7

\* The last event of a stream is read after the task's outcome.
LEMMA LastEvent ==
  ASSUME Inv, NEW t \in Tasks, conn[t] = "open", via[t] # "files", chan[t] # <<>>,
         chan[t][1] = "[DONE]"
  PROVE  Known(t)
  <1>1. Typed /\ Flow(t) /\ server[t] \in Server /\ chan[t] \in Seq(Events)
    BY DEF Inv, Each, Typed
  <1>2. Len(chan[t]) \in Nat /\ Len(chan[t]) >= 1
    BY <1>1
  <1>3. "[DONE]" \in May(t)
    BY <1>1, <1>2 DEF Flow
  <1>4. Past(t)
    BY <1>1, <1>3 DEF May, Past, Before, Outcome, Server, Pcs
  <1>5. \A n \in 1 .. Len(chan[t]) : 1 < n => chan[t][n] \in After("[DONE]")
    BY <1>1, <1>2 DEF Flow
  <1>6. After("[DONE]") = {} /\ "[DONE]" \notin Outcome
    BY DEF After, Outcome
  <1>7. \A n \in 1 .. Len(chan[t]) : chan[t][n] \notin Outcome
    <2> SUFFICES ASSUME NEW n \in 1 .. Len(chan[t]) PROVE chan[t][n] \notin Outcome
      OBVIOUS
    <2>1. CASE n = 1
      BY <1>6, <2>1
    <2>2. CASE 1 < n
      BY <1>5, <1>6, <2>2
    <2> QED BY <2>1, <2>2
  <1> QED BY <1>1, <1>4, <1>7 DEF Flow

\* What reading an event tells the page is what is stored.
LEMMA ReadStory ==
  ASSUME SInv, NEW t \in Tasks, Read(t)
  PROVE  /\ \A u \in Tasks : Story(u)'
         /\ t \in here \ broken /\ \A u \in Tasks \ {t} : task'[u] = task[u]
         /\ \/ task'[t].status = task[t].status
            \/ task'[t].status \in {"none", "planning", "streaming"}
            \/ task'[t].status = "complete" /\ persisted[t] = Both
            \/ task'[t].status = "failed" /\ persisted[t] # Both
  <1>1. /\ t \in here /\ conn[t] = "open" /\ chan[t] # <<>> /\ Consume(t)
        /\ UNCHANGED <<server, persisted, here, broken>>
        /\ conn' = conn \/ conn' = [conn EXCEPT ![t] = "closed"]
    BY DEF Read, ReadChat, ReadFile, Reads, db
  <1>2. /\ Typed /\ Story(t) /\ task \in [Tasks -> Task] /\ task[t] \in Task /\ conn \in [Tasks -> Conns]
    BY DEF SInv, Inv, Typed
  <1>3. /\ \A u \in Tasks \ {t} : chan'[u] = chan[u]
        /\ Len(chan[t]) \in Nat /\ Len(chan[t]) >= 1 /\ Len(chan'[t]) = Len(chan[t]) - 1
        /\ \A n \in 1 .. Len(chan[t]) - 1 : chan'[t][n] = chan[t][n + 1]
        /\ Event(t) = chan[t][1] /\ Event(t) \in Events
    BY <1>1, <1>2, Consumed
  <1>4. \A n \in 1 .. Len(chan'[t]) : \E m \in 1 .. Len(chan[t]) : chan'[t][n] = chan[t][m]
    <2> SUFFICES ASSUME NEW n \in 1 .. Len(chan'[t])
                 PROVE  \E m \in 1 .. Len(chan[t]) : chan'[t][n] = chan[t][m]
      OBVIOUS
    <2>1. n + 1 \in 1 .. Len(chan[t]) /\ chan'[t][n] = chan[t][n + 1]
      BY <1>3
    <2> QED BY <2>1
  <1>5. t \notin broken
    BY <1>1, <1>2 DEF Story
  <1>6. /\ Event(t) = "done" => persisted[t] = Both
        /\ Event(t) = "error" => persisted[t] # Both /\ Sealed(t)
    BY <1>2, <1>3 DEF Story
  <1>7. /\ \A u \in Tasks \ {t} : task'[u] = task[u]
        /\ \/ task'[t].status = task[t].status
           \/ task'[t].status \in {"none", "planning", "streaming"}
           \/ task'[t].status = "complete" /\ persisted[t] = Both
           \/ task'[t].status = "failed" /\ persisted[t] # Both /\ Sealed(t)
    <2>1. CASE ReadChat(t)
      <3>1. task' = [task EXCEPT ![t] = TaskAfter(task[t], Event(t))] /\ via[t] # "files"
        BY <2>1 DEF ReadChat, Chat
      <3>2. task'[t] = TaskAfter(task[t], Event(t)) /\ \A u \in Tasks \ {t} : task'[u] = task[u]
        BY <1>2, <3>1
      <3>3. CASE Event(t) = "[DONE]"
        <4>1. Known(t)
          BY <1>1, <1>3, <3>1, <3>3, LastEvent DEF SInv
        <4>2. Closing(task[t]) = task[t].status
          BY <4>1 DEF Known, Closing
        <4> QED BY <1>2, <1>3, <3>2, <3>3, <4>2, Shown
      <3>4. CASE Event(t) # "[DONE]"
        BY <1>2, <1>3, <1>6, <3>2, <3>4, Shown DEF Events
      <3> QED BY <3>3, <3>4
    <2>2. CASE ReadFile(t)
      <3>1. \/ task' = task
            \/ /\ Event(t) = "done"
               /\ task' = [task EXCEPT ![t] = [status |-> "complete", shown |-> "tokens",
                                               resolved |-> TRUE]]
        BY <2>2 DEF ReadFile
      <3>2. CASE task' = task
        BY <3>2
      <3>3. CASE /\ Event(t) = "done"
                 /\ task' = [task EXCEPT ![t] = [status |-> "complete", shown |-> "tokens",
                                                 resolved |-> TRUE]]
        BY <1>2, <1>6, <3>3
      <3> QED BY <3>1, <3>2, <3>3
    <2> QED BY <2>1, <2>2 DEF Read
  <1>8. \A u \in Tasks \ {t} : conn'[u] = conn[u]
    BY <1>1, <1>2
  <1>9. \A u \in Tasks : Story(u)'
    BY <1>1, <1>3, <1>4, <1>5, <1>7, <1>8, PageStory
  <1> QED BY <1>1, <1>5, <1>7, <1>9

LEMMA ReloadStory ==
  ASSUME SInv, Reload
  PROVE  \A u \in Tasks : Story(u)'
  <1> SUFFICES ASSUME NEW u \in Tasks PROVE Story(u)'
    OBVIOUS
  <1>1. /\ UNCHANGED <<server, persisted, broken>> /\ task'[u] = NewTask /\ u \notin here'
        /\ conn[u] = "cut" => conn'[u] = "cut"
        /\ chan'[u] = <<>> \/ chan'[u] = chan[u]
    BY DEF Reload, db
  <1>2. Story(u)
    BY DEF SInv
  <1>3. NewTask.status = "none" /\ Len(<<>>) = 0
    BY DEF NewTask
  <1>4. \A n \in 1 .. Len(chan'[u]) :
            /\ chan'[u][n] = "done" => persisted[u] = Both
            /\ chan'[u][n] = "error" => persisted[u] # Both /\ Sealed(u)
    BY <1>1, <1>2, <1>3 DEF Story
  <1>5. /\ (Pending(u)' <=> Pending(u)) /\ (Stored(u)' <=> Stored(u)) /\ (Sealed(u)' <=> Sealed(u))
        /\ (At(u, "idle")' <=> At(u, "idle"))
    BY <1>1 DEF Pending, Stored, Sealed, At
  <1> QED BY <1>1, <1>2, <1>3, <1>4, <1>5 DEF Story, Known

\* A worker writes neither to the connection nor to the history.
LEMMA ProduceStory ==
  ASSUME SInv, NEW t \in Tasks, Produce(t) \/ Detach(t)
  PROVE  /\ \A u \in Tasks : Story(u)'
         /\ UNCHANGED <<via, persisted, task, here, broken>>
  <1>1. UNCHANGED <<via, server, chan, conn, persisted, task, here, broken>>
    BY DEF Produce, Token, AnswerReady, WikiAnswer, RunFails, NoHooks, ReadState, WriteState, Detach,
           db, browser
  <1> QED BY <1>1, StorySame DEF SInv

LEMMA NextStory == SInv /\ [Next]_vars => \A u \in Tasks : Story(u)'
  <1> SUFFICES ASSUME SInv, [Next]_vars PROVE \A u \in Tasks : Story(u)'
    OBVIOUS
  <1>1. ASSUME NEW t \in Tasks, Serve(t) PROVE \A u \in Tasks : Story(u)'
    BY <1>1, RouteStory, GetStory, EarlySourcesStory, EarlyDoneStory, DrainStory, AnsweredStory,
       LateAnswerStory, SayStory DEF Serve
  <1>2. ASSUME NEW t \in Tasks, Connect(t) \/ Cancel(t) PROVE \A u \in Tasks : Story(u)'
    BY <1>2, StartStory, RefuseStory, CancelStory DEF Connect
  <1>3. ASSUME NEW t \in Tasks, Read(t) \/ Break(t) \/ BreakCleanly(t) PROVE \A u \in Tasks : Story(u)'
    BY <1>3, ReadStory, BreakStory
  <1>4. ASSUME NEW t \in Tasks, SubmitFile(t) \/ \E kind \in {"chat", "attach"} : Submit(t, kind)
        PROVE  \A u \in Tasks : Story(u)'
    BY <1>4, SubmitStory
  <1>5. CASE UNCHANGED vars
    BY <1>5, StorySame DEF SInv, vars, db, browser
  <1> QED BY <1>1, <1>2, <1>3, <1>4, <1>5, ProduceStory, ReloadStory DEF Next

\* What is stored of a task, what the events in flight say of it and what the
\* page knows agree: the user's turn is stored when the stream starts and the
\* answer before it is announced, each once, in that order.
THEOREM StoriesAgree == Spec => []SInv
  <1>1. Init => SInv
    <2> SUFFICES ASSUME Init PROVE SInv
      OBVIOUS
    <2>1. ASSUME NEW t \in Tasks PROVE Story(t)
      <3>1. /\ server[t].pc = "idle" /\ persisted[t] = <<>> /\ chan[t] = <<>> /\ Len(<<>>) = 0
            /\ task[t].status = "none" /\ broken = {}
        BY DEF Init, NewTask
      <3> QED BY <3>1 DEF Story, At, Pending, Stored, Known
    <2> QED BY <2>1, InitInv DEF SInv
  <1>2. SInv /\ [Next]_vars => SInv'
    BY NextInv, NextStory DEF SInv
  <1> QED BY <1>1, <1>2, PTL DEF Spec

\* A chat task shown as complete shows its final answer, and an answer shown was
\* handed to _persist_chat_turn, once and after its instruction: the page reads
\* 'done' only of a task whose answer was handed over before 'done' was written.
THEOREM AnswerShown == Spec => []AnswerKept
  <1>1. SInv => AnswerKept
    <2> SUFFICES ASSUME SInv, NEW t \in here
                 PROVE  /\ (Chat(t) /\ task[t].status = "complete") => task[t].shown = "answer"
                        /\ task[t].shown = "answer" => persisted[t] = <<"user", "assistant">>
      BY DEF AnswerKept
    <2>1. t \in Tasks /\ Display(t) /\ Story(t)
      BY DEF SInv, Inv, Typed, Each
    <2>2. (Chat(t) /\ task[t].status = "complete") => task[t].shown = "answer"
      BY <2>1 DEF Display, Chat
    <2>3. task[t].shown = "answer" => persisted[t] = Both
      BY <2>1, Tellings DEF Display, Story
    <2> QED BY <2>2, <2>3 DEF Both
  <1> QED BY <1>1, StoriesAgree, PTL

-----------------------------------------------------------------------------
(* The stream implements ChatTasks                                         *)

\* What ChatTasks does not see.
LEMMA Unseen ==
  ASSUME UNCHANGED <<via, persisted, task, here, broken>>
  PROVE  UNCHANGED Promise!vars
  BY DEF Promise!vars, Ended

\* A turn is stored: Store.
LEMMA StoreSeen ==
  ASSUME Typed, NEW t \in Tasks, NEW role \in Roles, Persist(t, role),
         via[t] # "none", persisted[t] # Both, role = Promise!Turns[Len(persisted[t]) + 1],
         Ended(t) = "open" \/ t \in broken, UNCHANGED <<via, task, here, broken>>
  PROVE  Promise!Next
  <1>1. persisted' = [persisted EXCEPT ![t] = Append(@, Promise!Turns[Len(@) + 1])]
    BY DEF Persist
  <1>2. Both = Promise!Turns
    BY DEF Both, Promise!Turns
  <1>3. t \in {u \in Tasks : via[u] # "none"} /\ persisted[t] # Promise!Turns
    BY <1>2
  <1>4. [u \in Tasks |-> Ended(u)][t] = Ended(t)
    OBVIOUS
  <1>5. UNCHANGED <<{u \in Tasks : via[u] # "none"}, here, [u \in Tasks |-> Ended(u)], broken>>
    BY DEF Ended
  <1>6. Promise!Store(t)
    BY <1>1, <1>3, <1>4, <1>5 DEF Promise!Store
  <1> QED BY <1>6 DEF Promise!Next

\* One task's outcome becomes known, or nothing is seen: Decide.
LEMMA DecideSeen ==
  ASSUME NEW t \in Tasks, UNCHANGED <<via, persisted, here, broken>>, t \in here,
         \A u \in Tasks \ {t} : task'[u] = task[u],
         \/ Ended(t)' = Ended(t)
         \/ /\ Ended(t) = "open"
            /\ Ended(t)' = IF persisted[t] = Both THEN "complete" ELSE "failed"
  PROVE  [Promise!Next]_(Promise!vars)
  <1> DEFINE out == [u \in Tasks |-> Ended(u)]
  <1>1. \A u \in Tasks \ {t} : Ended(u)' = Ended(u)
    BY DEF Ended
  <1>2. UNCHANGED {u \in Tasks : via[u] # "none"}
    OBVIOUS
  <1>3. CASE Ended(t)' = Ended(t)
    <2>1. out' = out
      BY <1>1, <1>3
    <2> QED BY <1>2, <2>1 DEF Promise!vars
  <1>4. CASE /\ Ended(t) = "open"
             /\ Ended(t)' = IF persisted[t] = Both THEN "complete" ELSE "failed"
    <2>1. out' = [out EXCEPT ![t] = IF persisted[t] = Promise!Turns THEN "complete" ELSE "failed"]
      BY <1>1, <1>4 DEF Both, Promise!Turns
    <2>2. out[t] = "open"
      BY <1>4
    <2>3. Promise!Decide(t)
      BY <1>2, <2>1, <2>2 DEF Promise!Decide
    <2> QED BY <2>3 DEF Promise!Next
  <1> QED BY <1>3, <1>4

LEMMA BreakSeen ==
  ASSUME SInv, NEW t \in Tasks, Break(t) \/ BreakCleanly(t)
  PROVE  Promise!Next
  <1> DEFINE out == [u \in Tasks |-> Ended(u)]
  <1>1. UNCHANGED <<via, persisted, here>> /\ broken' = broken \cup {t}
    BY DEF Break, BreakCleanly, Cut, db
  <1>2. /\ t \in here \ broken /\ \A u \in Tasks \ {t} : task'[u] = task[u]
        /\ task'[t].status \in {task[t].status, "failed"}
    BY BreakStory
  <1>3. Ended(t)' \in {Ended(t), "failed"} /\ \A u \in Tasks \ {t} : Ended(u)' = Ended(u)
    BY <1>2 DEF Ended
  <1>4. out' = [out EXCEPT ![t] = Ended(t)'] /\ out[t] = Ended(t)
    BY <1>3
  <1>5. UNCHANGED {u \in Tasks : via[u] # "none"}
    BY <1>1
  <1>6. Promise!Lose(t)
    BY <1>1, <1>2, <1>3, <1>4, <1>5 DEF Promise!Lose
  <1> QED BY <1>6 DEF Promise!Next

LEMMA SubmitSeen ==
  ASSUME SInv, NEW t \in Tasks, SubmitFile(t) \/ \E kind \in {"chat", "attach"} : Submit(t, kind)
  PROVE  Promise!Next
  <1> DEFINE asked == {u \in Tasks : via[u] # "none"}
  <1>1. UNCHANGED <<persisted, broken>>
    BY DEF SubmitFile, Submit, db
  <1>2. /\ via[t] = "none" /\ here' = here \cup {t} /\ \A u \in Tasks : Ended(u)' = Ended(u)
        /\ \E kind \in Vias \ {"none"} : via' = [via EXCEPT ![t] = kind]
    BY SubmitStory
  <1>3. via'[t] # "none" /\ \A u \in Tasks \ {t} : via'[u] = via[u]
    BY <1>2 DEF SInv, Inv, Typed
  <1>4. asked' = asked \cup {t} /\ t \notin asked
    BY <1>2, <1>3
  <1>5. UNCHANGED [u \in Tasks |-> Ended(u)]
    BY <1>2
  <1>6. Promise!Ask(t)
    BY <1>1, <1>2, <1>4, <1>5 DEF Promise!Ask
  <1> QED BY <1>6 DEF Promise!Next

\* The turns of a task are given to the history once and in order, and its outcome
\* is decided once, complete exactly when the answer was given, unless its
\* connection breaks: every step of the stream is a step of ChatTasks or unseen.
THEOREM StreamKeepsPromise == Spec => PromiseKept
  <1>1. Init => Promise!Init
    <2> SUFFICES ASSUME Init PROVE Promise!Init
      OBVIOUS
    <2>1. \A t \in Tasks : Ended(t) = "open" /\ via[t] = "none"
      BY DEF Init, Ended, NewTask
    <2>2. {t \in Tasks : via[t] # "none"} = {} /\ [t \in Tasks |-> Ended(t)] = [t \in Tasks |-> "open"]
      BY <2>1
    <2> QED BY <2>2 DEF Promise!Init, Init
  <1>2. SInv /\ [Next]_vars => [Promise!Next]_(Promise!vars)
    <2> SUFFICES ASSUME SInv, [Next]_vars PROVE [Promise!Next]_(Promise!vars)
      OBVIOUS
    <2>1. Typed
      BY DEF SInv, Inv
    <2>2. ASSUME NEW t \in Tasks, Start(t) PROVE Promise!Next
      <3>1. UNCHANGED <<via, task, here, broken>> /\ conn[t] = "connecting"
        BY <2>2 DEF Start, browser
      <3>2. Persist(t, "user") /\ persisted[t] = <<>>
        BY <2>2, StartStory
      <3>3. via[t] # "none" /\ Ended(t) = "open"
        BY <3>1 DEF SInv, Inv, Each, Life, Display, Known, Ended
      <3>4. persisted[t] # Both /\ Len(persisted[t]) = 0 /\ Promise!Turns[1] = "user"
        BY <3>2, Tellings DEF Promise!Turns
      <3> QED BY <2>1, <3>1, <3>2, <3>3, <3>4, StoreSeen DEF Roles
    <2>3. ASSUME NEW t \in Tasks, EarlyDone(t) \/ LateAnswer(t) PROVE Promise!Next
      <3>1. UNCHANGED <<via, task, here, broken>> /\ server[t].pc \in {"early", "drain"}
        BY <2>3 DEF EarlyDone, LateAnswer, At, browser
      <3>2. Persist(t, "assistant") /\ persisted[t] = <<"user">>
        BY <2>3, AnswerStored
      <3>3. persisted[t] # Both /\ Len(persisted[t]) + 1 = 2 /\ Promise!Turns[2] = "assistant"
        BY <3>2, Tellings DEF Promise!Turns
      <3>4. Ended(t) = "open" \/ t \in broken
        BY <3>1, <3>3 DEF SInv, Story, Sealed, Ended
      <3>5. via[t] # "none"
        BY <3>1 DEF SInv, Inv, Each, Life, At
      <3> QED BY <2>1, <3>1, <3>2, <3>3, <3>4, <3>5, StoreSeen DEF Roles
    <2>4. ASSUME NEW t \in Tasks, Read(t) PROVE [Promise!Next]_(Promise!vars)
      <3>1. UNCHANGED <<via, persisted, here, broken>>
        BY <2>4 DEF Read, ReadChat, ReadFile, db
      <3>2. /\ t \in here \ broken /\ \A u \in Tasks \ {t} : task'[u] = task[u]
            /\ \/ task'[t].status = task[t].status
               \/ task'[t].status \in {"none", "planning", "streaming"}
               \/ task'[t].status = "complete" /\ persisted[t] = Both
               \/ task'[t].status = "failed" /\ persisted[t] # Both
        BY <2>4, ReadStory
      <3>3. Known(t) => task'[t].status = task[t].status
        BY <2>4, <3>1, <3>2, OutcomeStays DEF SInv, Next
      <3> QED BY <3>1, <3>2, <3>3, DecideSeen DEF Known, Ended
    <2>5. ASSUME NEW t \in Tasks, Refuse(t) PROVE [Promise!Next]_(Promise!vars)
      <3>1. UNCHANGED <<via, persisted, here, broken>> /\ conn[t] = "connecting"
            /\ (Chat(t) \/ task' = task)
        BY <2>5 DEF Refuse, db
      <3>2. t \in here /\ ~Known(t)
        BY <3>1 DEF SInv, Inv, Each, Life, Display
      <3>3. /\ Chat(t) => task'[t].status = "failed"
            /\ persisted[t] # Both /\ \A u \in Tasks \ {t} : task'[u] = task[u]
        BY <2>5, RefuseStory
      <3>4. CASE Chat(t)
        BY <3>1, <3>2, <3>3, <3>4, DecideSeen DEF Known, Ended
      <3>5. CASE task' = task
        BY <3>1, <3>5, Unseen
      <3> QED BY <3>1, <3>4, <3>5
    <2>6. ASSUME Reload PROVE Promise!Next
      <3>1. UNCHANGED <<via, persisted, broken>> /\ here' = {} /\ task' = [t \in Tasks |-> NewTask]
        BY <2>6 DEF Reload, db
      <3>2. \A t \in Tasks : Ended(t)' = "open"
        BY <3>1 DEF Ended, NewTask
      <3>3. [t \in Tasks |-> Ended(t)]' = [t \in Tasks |-> "open"]
        BY <3>2
      <3>4. UNCHANGED {t \in Tasks : via[t] # "none"}
        BY <3>1
      <3>5. Promise!Forget
        BY <3>1, <3>3, <3>4 DEF Promise!Forget
      <3> QED BY <3>5 DEF Promise!Next
    <2>7. ASSUME NEW t \in Tasks, Produce(t) \/ Detach(t) PROVE UNCHANGED Promise!vars
      BY <2>7, ProduceStory, Unseen
    <2>8. ASSUME NEW t \in Tasks, \/ Routed(t) \/ Unroutable(t) \/ Timeout(t) \/ Relay(t) \/ Drop(t)
                                  \/ EarlySources(t) \/ DrainItem(t) \/ Answered(t) \/ Say(t) \/ Cancel(t)
          PROVE  UNCHANGED Promise!vars
      <3>1. UNCHANGED <<via, persisted, task, here, broken>>
        BY <2>8 DEF Routed, Unroutable, Timeout, Relay, Drop, EarlySources, DrainItem, Answered, Say,
                    Cancel, db, browser
      <3> QED BY <3>1, Unseen
    <2>9. CASE UNCHANGED vars
      BY <2>9, Unseen DEF vars, db, browser
    <2> QED BY <2>2, <2>3, <2>4, <2>5, <2>6, <2>7, <2>8, <2>9, BreakSeen, SubmitSeen
         DEF Next, Connect, Serve
  <1> QED BY <1>1, <1>2, StoriesAgree, PTL DEF Spec, PromiseKept, Promise!Spec
===============================================================================
