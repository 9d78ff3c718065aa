-------------------------- MODULE RuntimeSwitchProofs --------------------------
(***************************************************************************)
(* Proofs about RuntimeSwitch, for every value of its constants.           *)
(***************************************************************************)
EXTENDS RuntimeSwitch, TLAPS

-----------------------------------------------------------------------------
(* Types                                                                   *)

Maybe(S) == S \cup {NoModel}
Cand   == [backend : Backends, emb : Maybe(EmbModels),
           chat : Maybe(ChatModels) \cup {Default[b] : b \in Backends}]
NoCand == [backend |-> NoModel, emb |-> NoModel, chat |-> NoModel]
Fn     == [backend : Maybe(Backends), model : Maybe(EmbModels)]
Health == [up : BOOLEAN, models : {{}} \cup UNION {Listings[b] : b \in Backends}]
Plan   == [do : {"nothing", "demote", "autopick"}, model : Maybe(ChatModels)]
Job    == [kind : Kinds, step : Steps, backend : Maybe(Backends), model : Maybe(Models),
           cand : Cand \cup {NoCand}, health : Health, plan : Plan,
           snap : Config \cup Maybe(EmbModels), moved : BOOLEAN]

Typed ==
    /\ settings \in Config /\ env \in Config
    /\ runtime \in Cand /\ controller \in [client : Cand, fn : Fn, name : Maybe(EmbModels)]
    /\ memory \in [fn : Fn, name : Maybe(EmbModels)]
    /\ active \in [name : Maybe(EmbModels), backend : Maybe(Backends)]
    /\ calibrated \subseteq [name : EmbModels, by : Maybe(EmbModels)]
    /\ lock \in [holder : Maybe(Threads), waiters : Seq(Threads)]
    /\ job \in [Threads -> Job] /\ begun \in 0 .. MaxRequests
    /\ serial \in BOOLEAN /\ unsaved \in BOOLEAN /\ chosen \in [Backends -> Maybe(ChatModels)]

-----------------------------------------------------------------------------
(* The inductive invariant                                                 *)

\* Steps taken without the lock.
Outside == {"gone", "idle", "put", "polled", "stores", "wait"}

\* Who is in the lock and who is queued for it, once.
Locked ==
    /\ \A t \in Threads : lock.holder = t <=> job[t].step \notin Outside
    /\ \A t \in Threads : (\E n \in 1 .. Len(lock.waiters) : lock.waiters[n] = t) <=> At(t, "wait")
    /\ \A m, n \in 1 .. Len(lock.waiters) : lock.waiters[m] = lock.waiters[n] => m = n

\* The steps of each kind of request, and what it carries in them.
Formed(j) ==
    /\ j.kind = "none"    => j.step \in {"gone", "idle"}
    /\ j.kind = "reembed" => j.step \in {"stores", "wait", "measure", "rebuild"}
    /\ j.kind = "chat"    => j.step \in {"put", "wait", "check", "checked", "commit"}
    /\ j.kind = "emb"     => j.step \in {"wait", "check", "checked", "source", "name", "commit"}
    /\ j.kind = "poll"    => j.step \in {"polled", "wait", "recover", "apply", "replace", "recheck",
                                         "commit"}
    /\ j.kind = "switch"  => j.step \in {"put", "wait", "check", "checked", "recover", "apply",
                                         "replace", "recheck", "plan", "source", "name", "commit"}
    /\ j.kind \in {"switch", "chat", "emb"} => j.backend \in Backends
    /\ j.kind = "poll" => IF j.step \in {"polled", "wait"} THEN j.backend = NoModel
                          ELSE j.backend \in Backends
    /\ j.kind = "emb" => j.model \in Maybe(EmbModels)
    /\ j.kind = "reembed" /\ j.step # "stores" => j.model \in EmbModels
    /\ j.step = "put" => j.model \in ChatModels
    /\ j.step \in {"put", "replace"} => j.snap \in Config
    /\ j.step = "apply" => j.plan.do \in {"demote", "autopick"}
    /\ j.step = "replace" => j.plan.do = "autopick"
    /\ j.plan.do = "autopick" => j.step \in {"apply", "replace", "recheck"} /\ j.plan.model \in ChatModels
    \* its candidate client, and the last health check of that
    /\ j.step \in {"checked", "plan", "source", "name", "commit"} => j.cand.backend = j.backend
    /\ j.step \in {"recover", "apply", "replace", "recheck"} /\ j.kind = "switch" =>
          j.cand.backend = j.backend
    /\ j.kind = "poll" => j.cand.backend \in Backends
    /\ j.kind = "poll" \/ j.step \in {"checked", "recover", "plan"} => j.health \in Healths(j.cand.backend)
    /\ j.kind = "emb" /\ j.step \in {"checked", "source"} => j.cand.emb = j.model
    /\ j.step = "source" /\ j.cand.emb # NoModel => Lists(j.cand.backend, j.cand.emb)
    /\ j.kind = "emb" /\ j.step \in {"source", "name", "commit"} => j.snap \in Maybe(EmbModels)

\* What a request read or wrote before is what there is, as the lock promises: a
\* switch the embedding model of its backend, a poll the runtime it checked.
Coupled(j) ==
    /\ j.kind = "switch" /\ j.step \in {"checked", "recover", "plan", "source"} =>
          j.cand.emb = ResolveEmb(settings, j.backend)
    /\ j.kind = "poll" /\ j.step \in {"polled", "wait", "recover"} /\ ~j.moved => j.cand = runtime
    /\ j.kind = "emb" /\ j.step = "source" =>
          settings.emb[j.backend] = j.model /\ settings.legacy = NoModel

Requests == \A t \in Threads : Formed(job[t]) /\ Coupled(job[t])

\* The steps between a new embedding source and the commit that builds on it.
Joined ==
    /\ controller.client = runtime
    /\ controller.fn = memory.fn \/ \E t \in Threads : job[t].step \in {"name", "commit"}
    /\ (active.name = memory.name /\ active.backend = memory.fn.backend) \/ \E t \in Threads : At(t, "name")
    /\ memory.fn # NoFn => Lists(memory.fn.backend, memory.fn.model)

IInv == Typed /\ Locked /\ Requests /\ Joined

\* The .env a write started from has the choices made meanwhile, but for those
\* that met a recovery, and whatever it does not write itself.
Snapped(j) ==
    /\ j.snap.emb = env.emb /\ j.snap.legacy = env.legacy /\ j.snap.backend = env.backend
    /\ \A b \in Backends \ crossed :
          chosen[b] # NoModel /\ (j.step = "put" => b # j.backend)
          => j.snap.pin[b] = chosen[b] \/ unsaved

\* What no other request can have changed when the user's do not overlap.
Alone(j) ==
    /\ j.kind = "emb" \/ (j.kind = "chat" /\ j.step # "put")
       \/ (j.kind = "poll" /\ j.step \notin {"polled", "wait"}) => j.backend = settings.backend
    /\ j.kind = "reembed" /\ j.step # "stores" => j.model = active.name
    /\ j.step \in {"put", "replace"} => Snapped(j)
    /\ j.step = "put" => chosen[j.backend] = j.model
    /\ j.plan.do = "autopick" =>
          /\ j.step \in Recovery => chosen[j.backend] = NoModel \/ j.backend \in crossed
          /\ Lists(j.backend, j.plan.model)

\* A choice is in the settings, and in .env or about to be.
Choices ==
    \A b \in Backends \ crossed : chosen[b] # NoModel =>
        /\ settings.pin[b] = chosen[b]
        /\ env.pin[b] = chosen[b] \/ unsaved \/ \E t \in Threads : At(t, "put") /\ job[t].backend = b

\* A choice that is being written beside a recovery is known to have met it.
Met == \A t \in Threads : At(t, "put") => job[t].backend \in crossed

\* The embedding model was set in the settings but not in .env yet.
Pinning(j) == j.kind = "emb" /\ j.step \in {"source", "name", "commit"}

Mirrored ==
    /\ env.backend = settings.backend
    /\ \A t \in Threads : Pinning(job[t]) =>
          /\ settings.emb = [env.emb EXCEPT ![job[t].backend] = job[t].model]
          /\ settings.legacy = NoModel /\ job[t].snap = env.legacy
    /\ (\A t \in Threads : ~Pinning(job[t])) => env.emb = settings.emb /\ env.legacy = settings.legacy

Serially ==
    /\ \A t, u \in User : t = u
    /\ \A t \in Threads : Alone(job[t])
    /\ runtime.backend = settings.backend
    /\ NameOfFn /\ ThresholdsOwn
    /\ controller.name = memory.name \/ \E t \in Threads : job[t].step \in {"name", "commit"}
    /\ Recovering => Met
    /\ Choices /\ (~unsaved => Mirrored)

SInv == serial => Serially

-----------------------------------------------------------------------------
(* What the operators compute                                              *)

LEMMA ResolveTypes ==
  ASSUME NEW s \in Config, NEW b \in Backends
  PROVE  /\ ResolveEmb(s, b) \in Maybe(EmbModels) /\ Resolve(s, b) \in Maybe(ChatModels)
         /\ s.backend \in Backends /\ s.override \in Maybe(ChatModels)
         /\ s.pin \in [Backends -> Maybe(ChatModels)] /\ s.emb \in [Backends -> Maybe(EmbModels)]
         /\ s.legacy \in Maybe(EmbModels)
  BY DEF Config, ResolveEmb, Resolve, Maybe

LEMMA ClientTypes ==
  ASSUME NEW s \in Config, NEW b \in Backends, NEW e \in Maybe(EmbModels)
  PROVE  Client(s, b, e) \in Cand /\ Client(s, b, e).backend = b /\ Client(s, b, e).emb = e
  BY ResolveTypes DEF Client, Cand

LEMMA HealthTypes ==
  /\ Down \in Health
  /\ \A b \in Backends : \A h \in Healths(b) : h \in Health /\ \A m \in h.models : Lists(b, m)
  <1>1. Down \in Health /\ Down.models = {}
    BY DEF Down, Health
  <1>2. ASSUME NEW b \in Backends, NEW h \in Healths(b)
        PROVE  h \in Health /\ \A m \in h.models : Lists(b, m)
    <2>1. CASE h = Down
      BY <1>1, <2>1
    <2>2. CASE h \in {[up |-> TRUE, models |-> ms] : ms \in Listings[b]}
      <3>1. PICK ms \in Listings[b] : h = [up |-> TRUE, models |-> ms]
        BY <2>2
      <3>2. ms \in UNION {Listings[c] : c \in Backends}
        OBVIOUS
      <3> QED BY <3>1, <3>2 DEF Health, Lists
    <2> QED BY <2>1, <2>2 DEF Healths
  <1> QED BY <1>1, <1>2

LEMMA PlanTypes ==
  ASSUME NEW s \in Config, NEW b \in Backends, NEW models, NEW plan \in Plans(s, b, models)
  PROVE  /\ plan \in Plan /\ plan.do \in {"demote", "autopick"}
         /\ plan.do = "demote" => s.override # NoModel
         /\ plan.do = "autopick" => s.pin[b] = NoModel /\ plan.model \in models \cap ChatModels
  <1>1. s.pin[b] \in Maybe(ChatModels)
    BY ResolveTypes
  <1>2. CASE s.override # NoModel
    BY <1>1, <1>2 DEF Plans, Plan
  <1>3. CASE s.override = NoModel
    <2>1. CASE s.pin[b] # NoModel
      BY <1>3, <2>1 DEF Plans
    <2>2. CASE s.pin[b] = NoModel
      BY <1>3, <2>2 DEF Plans, Plan, Maybe
    <2> QED BY <2>1, <2>2
  <1> QED BY <1>2, <1>3

LEMMA Idles ==
  /\ IdleJob \in Job /\ Formed(IdleJob) /\ GoneJob \in Job /\ Formed(GoneJob)
  /\ IdleJob.kind = "none" /\ IdleJob.step = "idle" /\ IdleJob.plan.do = "nothing"
  /\ GoneJob.kind = "none" /\ GoneJob.step = "gone" /\ GoneJob.plan.do = "nothing"
  <1>1. Down \in Health /\ NoPlan \in Plan /\ NoPlan.do = "nothing" /\ NoCand \in Cand \cup {NoCand}
    BY HealthTypes DEF NoPlan, Plan, Maybe
  <1>2. /\ IdleJob \in Job /\ IdleJob.kind = "none" /\ IdleJob.step = "idle"
        /\ IdleJob.plan = NoPlan
    BY <1>1 DEF IdleJob, Job, NoCand, Kinds, Steps, Maybe
  <1>3. /\ GoneJob \in Job /\ GoneJob.kind = "none" /\ GoneJob.step = "gone"
        /\ GoneJob.plan = NoPlan
    BY <1>2 DEF GoneJob, Job, Steps
  <1>4. Formed(IdleJob) /\ Formed(GoneJob)
    BY <1>1, <1>2, <1>3 DEF Formed
  <1> QED BY <1>1, <1>2, <1>3, <1>4

-----------------------------------------------------------------------------
(* The lock                                                                *)

Goes(t, r) == r \in Job /\ Formed(r) /\ job' = [job EXCEPT ![t] = r]

LEMMA JobAfter ==
  ASSUME Typed, NEW t \in Threads, NEW r, Goes(t, r)
  PROVE  job' \in [Threads -> Job] /\ job'[t] = r /\ \A u \in Threads \ {t} : job'[u] = job[u]
  BY DEF Typed, Goes

LEMMA Exclusive ==
  ASSUME Locked, NEW t \in Threads, NEW u \in Threads,
         job[t].step \notin Outside, job[u].step \notin Outside
  PROVE  t = u
  BY DEF Locked

LEMMA LockSame ==
  ASSUME Typed, Locked, NEW t \in Threads, NEW r, Goes(t, r), UNCHANGED lock,
         r.step \in Outside <=> job[t].step \in Outside,
         r.step = "wait" <=> job[t].step = "wait"
  PROVE  Locked'
  BY JobAfter DEF Locked, At

LEMMA LockWait ==
  ASSUME Typed, Locked, NEW t \in Threads, NEW r, Goes(t, r), Wait(t), r.step = "wait",
         job[t].step \in Outside \ {"wait"}
  PROVE  Locked' /\ lock' \in [holder : Maybe(Threads), waiters : Seq(Threads)]
  <1>1. /\ lock.waiters \in Seq(Threads) /\ lock'.holder = lock.holder
        /\ lock'.waiters = Append(lock.waiters, t)
        /\ lock' \in [holder : Maybe(Threads), waiters : Seq(Threads)]
    <2>1. lock \in [holder : Maybe(Threads), waiters : Seq(Threads)]
      BY DEF Typed
    <2>2. lock' = [lock EXCEPT !.waiters = Append(lock.waiters, t)]
      BY DEF Wait
    <2>3. Append(lock.waiters, t) \in Seq(Threads)
      BY <2>1
    <2> HIDE DEF Wait
    <2> QED BY <2>1, <2>2, <2>3
  <1>2. /\ Len(lock'.waiters) = Len(lock.waiters) + 1 /\ Len(lock.waiters) \in Nat
        /\ \A n \in 1 .. Len(lock.waiters) : lock'.waiters[n] = lock.waiters[n]
        /\ lock'.waiters[Len(lock.waiters) + 1] = t
    BY <1>1
  <1>3. /\ \A n \in 1 .. Len(lock'.waiters) : n \in 1 .. Len(lock.waiters) \/ n = Len(lock.waiters) + 1
        /\ \A n \in 1 .. Len(lock.waiters) : n \in 1 .. Len(lock'.waiters)
        /\ Len(lock.waiters) + 1 \in 1 .. Len(lock'.waiters)
    BY <1>2
  <1>4. job'[t] = r /\ \A u \in Threads \ {t} : job'[u] = job[u]
    BY JobAfter
  <1>5. \A n \in 1 .. Len(lock.waiters) : lock.waiters[n] # t
    BY DEF Locked, At
  <1>6. ASSUME NEW u \in Threads
        PROVE  /\ lock'.holder = u <=> job'[u].step \notin Outside
               /\ (\E n \in 1 .. Len(lock'.waiters) : lock'.waiters[n] = u) <=> job'[u].step = "wait"
    <2>1. CASE u = t
      BY <1>1, <1>2, <1>3, <1>4, <2>1 DEF Locked, Outside
    <2>2. CASE u # t
      BY <1>1, <1>2, <1>3, <1>4, <2>2 DEF Locked, At
    <2> QED BY <2>1, <2>2
  <1>7. ASSUME NEW m \in 1 .. Len(lock'.waiters), NEW n \in 1 .. Len(lock'.waiters),
               lock'.waiters[m] = lock'.waiters[n]
        PROVE  m = n
    <2> DEFINE k == Len(lock.waiters)
    <2>1. CASE m = k + 1 /\ n = k + 1
      BY <2>1
    <2>2. CASE m \in 1 .. k /\ n \in 1 .. k
      BY <1>2, <1>7, <2>2 DEF Locked
    <2>3. CASE m \in 1 .. k /\ n = k + 1
      BY <1>2, <1>5, <1>7, <2>3
    <2>4. CASE m = k + 1 /\ n \in 1 .. k
      BY <1>2, <1>5, <1>7, <2>4
    <2> QED BY <1>3, <2>1, <2>2, <2>3, <2>4
  <1> QED BY <1>1, <1>6, <1>7 DEF Locked, At

LEMMA LockTake ==
  ASSUME Typed, Locked, NEW t \in Threads, NEW r, Goes(t, r), job[t].step = "wait",
         r.step \notin Outside, lock.holder = NoModel, Head(lock.waiters) = t,
         lock' = [holder |-> t, waiters |-> Tail(lock.waiters)]
  PROVE  Locked' /\ lock' \in [holder : Maybe(Threads), waiters : Seq(Threads)]
  <1> DEFINE q == lock.waiters
  <1>1. q \in Seq(Threads) /\ Len(q) \in Nat
    BY DEF Typed
  <1>2. Len(q) >= 1
    BY <1>1 DEF Locked, At
  <1>3. /\ Len(Tail(q)) = Len(q) - 1 /\ q[1] = t /\ Tail(q) \in Seq(Threads)
        /\ \A n \in 1 .. Len(q) - 1 : Tail(q)[n] = q[n + 1]
    BY <1>1, <1>2
  <1>4. lock'.holder = t /\ lock'.waiters = Tail(q)
        /\ lock' \in [holder : Maybe(Threads), waiters : Seq(Threads)]
    BY <1>3 DEF Maybe
  <1>5. job'[t] = r /\ \A u \in Threads \ {t} : job'[u] = job[u]
    BY JobAfter
  <1>6. \A m, n \in 1 .. Len(q) : q[m] = q[n] => m = n
    BY DEF Locked
  <1>7. ASSUME NEW u \in Threads \ {t}
        PROVE  (\E n \in 1 .. Len(q) - 1 : q[n + 1] = u) <=> \E n \in 1 .. Len(q) : q[n] = u
    <2>1. ASSUME NEW n \in 1 .. Len(q), q[n] = u
          PROVE  n - 1 \in 1 .. Len(q) - 1 /\ q[(n - 1) + 1] = u
      BY <1>1, <1>3, <2>1
    <2> QED BY <1>1, <2>1
  <1>8. \A n \in 1 .. Len(q) - 1 : q[n + 1] # t
    BY <1>1, <1>2, <1>3, <1>6
  <1>9. ASSUME NEW u \in Threads
        PROVE  /\ lock'.holder = u <=> job'[u].step \notin Outside
               /\ (\E n \in 1 .. Len(lock'.waiters) : lock'.waiters[n] = u) <=> job'[u].step = "wait"
    <2>1. CASE u = t
      BY <1>3, <1>4, <1>5, <1>8, <2>1 DEF Outside
    <2>2. CASE u # t
      <3>1. job[u].step \in Outside
        BY ThreadsAssumption DEF Locked
      <3> QED BY <1>3, <1>4, <1>5, <1>7, <2>2, <3>1 DEF Locked, At
    <2> QED BY <2>1, <2>2
  <1>10. ASSUME NEW m \in 1 .. Len(Tail(q)), NEW n \in 1 .. Len(Tail(q)), Tail(q)[m] = Tail(q)[n]
         PROVE  m = n
    BY <1>1, <1>3, <1>6, <1>10
  <1> QED BY <1>4, <1>9, <1>10 DEF Locked, At

LEMMA LockFreed ==
  ASSUME Typed, Locked, NEW t \in Threads, NEW r, job'[t] = r,
         \A u \in Threads \ {t} : job'[u].step = job[u].step,
         job[t].step \notin Outside, r.step \in Outside \ {"wait"}, lock' = Freed
  PROVE  Locked' /\ lock' \in [holder : Maybe(Threads), waiters : Seq(Threads)]
  <1>1. /\ lock'.holder = NoModel /\ lock'.waiters = lock.waiters
        /\ lock' \in [holder : Maybe(Threads), waiters : Seq(Threads)]
    BY DEF Typed, Freed, Maybe
  <1>2. lock.holder = t /\ job[t].step # "wait"
    BY DEF Locked, Outside
  <1>3. \A u \in Threads : job'[u].step \in Outside
    BY <1>2 DEF Locked
  <1>4. \A u \in Threads : job'[u].step = "wait" <=> job[u].step = "wait"
    BY <1>2
  <1> QED BY <1>1, <1>3, <1>4, ThreadsAssumption DEF Locked, At

LEMMA Rests ==
  ASSUME Typed, Locked, AtRest
  PROVE  \A t \in Threads : job[t].step \in Outside
  BY ThreadsAssumption DEF Locked, AtRest

-----------------------------------------------------------------------------
(* Steps that change only the request and the lock                         *)

Inv == IInv /\ SInv

Settled == /\ UNCHANGED <<settings, env, runtime, controller, memory, active, calibrated, serial,
                          chosen, unsaved>>
           /\ crossed \subseteq crossed'

LEMMA AsideInv ==
  ASSUME Inv, NEW t \in Threads, NEW r, Goes(t, r), Settled, Locked',
         begun' \in 0 .. MaxRequests, lock' \in [holder : Maybe(Threads), waiters : Seq(Threads)],
         Coupled(r), serial => Alone(r),
         job[t].step \notin {"put", "source", "name", "commit"}, r.step # "put", ~Pinning(r),
         r.kind \in {"none", "poll", job[t].kind} \/ (serial => User = {}),
         serial /\ r.step \in Recovery =>
             \A u \in Threads : At(u, "put") => job[u].backend \in crossed'
  PROVE  Inv'
  <1>1. Typed /\ Requests /\ Joined /\ SInv
    BY DEF Inv, IInv
  <1>2. job' \in [Threads -> Job] /\ job'[t] = r /\ \A u \in Threads \ {t} : job'[u] = job[u]
    BY <1>1, JobAfter
  <1>3. Typed'
    BY <1>1, <1>2 DEF Typed, Settled
  <1>4. Requests'
    <2> SUFFICES ASSUME NEW u \in Threads
                 PROVE  Formed(job[u])' /\ Coupled(job[u])'
      BY DEF Requests
    <2>1. CASE u = t
      BY <1>2, <2>1 DEF Goes, Coupled, Settled, Formed
    <2>2. CASE u # t
      BY <1>1, <1>2, <2>2 DEF Requests, Coupled, Settled, Formed
    <2> QED BY <2>1, <2>2
  <1>5. Joined'
    BY <1>1, <1>2 DEF Joined, At, Settled
  <1>6. SInv'
    <2> SUFFICES ASSUME serial PROVE Serially'
      BY DEF SInv, Settled
    <2>1. Serially
      BY <1>1 DEF SInv
    <2>2. ASSUME NEW u \in User', NEW v \in User' PROVE u = v
      BY <1>2, <2>1, <2>2 DEF Serially, User
    <2>3. ASSUME NEW u \in Threads PROVE Alone(job[u])'
      <3>1. CASE u = t
        BY <1>2, <3>1 DEF Alone, Snapped, Settled
      <3>2. CASE u # t
        BY <1>2, <2>1, <3>2 DEF Serially, Alone, Snapped, Settled
      <3> QED BY <3>1, <3>2
    <2>4. (controller.name = memory.name \/ \E u \in Threads : job[u].step \in {"name", "commit"})'
      BY <1>2, <2>1 DEF Serially, Settled
    <2>5. (Recovering => Met)'
      BY <1>2, <2>1 DEF Serially, Recovering, Met, At, Settled
    <2>6. Choices'
      BY <1>2, <2>1 DEF Serially, Choices, Settled, At
    <2>7. ASSUME ~unsaved' PROVE Mirrored'
      <3>1. Mirrored
        BY <2>1, <2>7 DEF Serially, Settled
      <3>2. ~Pinning(job[t])
        BY DEF Pinning
      <3> QED BY <1>2, <3>1, <3>2 DEF Mirrored, Settled, Pinning
    <2>8. (runtime.backend = settings.backend)' /\ NameOfFn' /\ ThresholdsOwn'
      BY <1>1, <2>1 DEF Typed, Serially, Settled, NameOfFn, ThresholdsOwn
    <2> QED BY <2>2, <2>3, <2>4, <2>5, <2>6, <2>7, <2>8 DEF Serially
  <1> QED BY <1>3, <1>4, <1>5, <1>6 DEF Inv, IInv

\* The request leaves the lock without a change.
LEMMA LeaveInv ==
  ASSUME Inv, NEW t \in Threads, Leave(t), job[t].step \in {"checked", "recover"}
  PROVE  Inv'
  <1>1. Typed /\ Locked
    BY DEF Inv, IInv
  <1>2. Goes(t, IdleJob) /\ lock' = Freed /\ Settled /\ UNCHANGED begun
    BY Idles DEF Leave, Goes, Go, Settled, history
  <1>3. Locked' /\ lock' \in [holder : Maybe(Threads), waiters : Seq(Threads)]
    BY <1>1, <1>2, JobAfter, LockFreed, Idles DEF Outside
  <1>4. Coupled(IdleJob) /\ Alone(IdleJob) /\ ~Pinning(IdleJob)
    BY Idles DEF Coupled, Alone, Pinning
  <1>5. begun' \in 0 .. MaxRequests
    BY <1>1, <1>2 DEF Typed
  <1> QED BY <1>2, <1>3, <1>4, <1>5, Idles, AsideInv DEF Recovery

\* The request goes on without the lock, without a change.
LEMMA EndsInv ==
  ASSUME Inv, NEW t \in Threads, Go(t, IdleJob), Settled, UNCHANGED <<lock, begun>>,
         job[t].step \in {"polled", "stores"}
  PROVE  Inv'
  <1>1. Typed /\ Locked
    BY DEF Inv, IInv
  <1>2. Goes(t, IdleJob)
    BY Idles DEF Goes, Go
  <1>3. Locked'
    BY <1>1, <1>2, LockSame, Idles DEF Outside
  <1>4. Coupled(IdleJob) /\ Alone(IdleJob) /\ ~Pinning(IdleJob)
    BY Idles DEF Coupled, Alone, Pinning
  <1>5. begun' \in 0 .. MaxRequests /\ lock' \in [holder : Maybe(Threads), waiters : Seq(Threads)]
    BY <1>1 DEF Typed
  <1> QED BY <1>2, <1>3, <1>4, <1>5, Idles, AsideInv DEF Recovery

\* A request joins the queue.
LEMMA QueueInv ==
  ASSUME Inv, NEW t \in Threads, NEW r, Goes(t, r), r.step = "wait", Wait(t), Settled,
         job[t].step \in {"idle", "polled", "stores"}, begun' \in 0 .. MaxRequests,
         Coupled(r), serial => Alone(r),
         r.kind \in {"poll", job[t].kind} \/ (serial => User = {})
  PROVE  Inv'
  <1>1. Typed /\ Locked
    BY DEF Inv, IInv
  <1>2. Locked' /\ lock' \in [holder : Maybe(Threads), waiters : Seq(Threads)]
    BY <1>1, LockWait DEF Outside
  <1>3. ~Pinning(r) /\ r.step \notin Recovery
    BY DEF Pinning, Recovery
  <1> QED BY <1>2, <1>3, AsideInv

LEMMA BeginTypes ==
  ASSUME Inv, NEW t \in Threads, Begin(t)
  PROVE  begun' \in 0 .. MaxRequests /\ job[t].step = "idle" /\ job[t].kind = "none" /\ LoopFree
  <1>1. Typed /\ Formed(job[t]) /\ job[t] \in Job
    BY DEF Inv, IInv, Requests, Typed
  <1>2. job[t].step = "idle" /\ LoopFree
    BY DEF Begin, Idle, At
  <1>3. job[t].kind = "none"
    BY <1>1, <1>2 DEF Formed, Job, Kinds
  <1>4. begun' \in 0 .. MaxRequests
    BY <1>1, BoundAssumption DEF Begin, Typed
  <1> QED BY <1>2, <1>3, <1>4

LEMMA BeginSwitchInv ==
  ASSUME Inv, NEW t \in Threads, NEW b \in Backends, BeginSwitch(t, b)
  PROVE  Inv'
  <1> DEFINE r == [IdleJob EXCEPT !.kind = "switch", !.step = "wait", !.backend = b]
  <1>1. /\ begun' \in 0 .. MaxRequests /\ job[t].step = "idle" /\ Settled /\ Wait(t)
        /\ serial => User = {}
    BY BeginTypes DEF BeginSwitch, BeginUser, Settled, history
  <1>2. job' = [job EXCEPT ![t] = r]
    BY DEF BeginSwitch, Go
  <1>3. r \in Job /\ r.kind = "switch" /\ r.step = "wait" /\ r.backend = b /\ r.plan = IdleJob.plan
    BY Idles DEF Job, Kinds, Steps, Maybe
  <1> HIDE DEF r
  <1>4. Formed(r) /\ Coupled(r) /\ Alone(r)
    BY <1>3, Idles DEF Formed, Coupled, Alone
  <1> QED BY <1>1, <1>2, <1>3, <1>4, QueueInv DEF Goes

LEMMA BeginEmbInv ==
  ASSUME Inv, NEW t \in Threads, NEW m \in Maybe(EmbModels), BeginEmb(t, m)
  PROVE  Inv'
  <1> DEFINE r == [IdleJob EXCEPT !.kind = "emb", !.step = "wait", !.backend = settings.backend,
                                  !.model = m]
  <1>1. /\ begun' \in 0 .. MaxRequests /\ job[t].step = "idle" /\ Settled /\ Wait(t)
        /\ serial => User = {}
    BY BeginTypes DEF BeginEmb, BeginUser, Settled, history
  <1>2. job' = [job EXCEPT ![t] = r]
    BY DEF BeginEmb, Go
  <1>a. settings.backend \in Backends
    BY ResolveTypes DEF Inv, IInv, Typed, Config
  <1>3. /\ r \in Job /\ r.kind = "emb" /\ r.step = "wait" /\ r.backend = settings.backend
        /\ r.model = m /\ r.plan = IdleJob.plan
    BY <1>a, Idles DEF Job, Kinds, Steps, Maybe, Models
  <1> HIDE DEF r
  <1>4. Formed(r) /\ Coupled(r) /\ Alone(r)
    BY <1>3, <1>a, Idles DEF Formed, Coupled, Alone
  <1> QED BY <1>1, <1>2, <1>3, <1>4, QueueInv DEF Goes

LEMMA BeginReembedInv ==
  ASSUME Inv, NEW t \in Threads, BeginReembed(t)
  PROVE  Inv'
  <1> DEFINE r == [IdleJob EXCEPT !.kind = "reembed", !.step = "stores"]
  <1>1. /\ begun' \in 0 .. MaxRequests /\ job[t].step = "idle" /\ Settled /\ UNCHANGED lock
        /\ serial => User = {}
    BY BeginTypes DEF BeginReembed, BeginUser, Settled, history
  <1>2. job' = [job EXCEPT ![t] = r]
    BY DEF BeginReembed, Go
  <1>3. r \in Job /\ r.kind = "reembed" /\ r.step = "stores" /\ r.plan = IdleJob.plan
    BY Idles DEF Job, Kinds, Steps
  <1> HIDE DEF r
  <1>4. Formed(r) /\ Coupled(r) /\ Alone(r) /\ ~Pinning(r)
    BY <1>3, Idles DEF Formed, Coupled, Alone, Pinning
  <1>5. Goes(t, r)
    BY <1>2, <1>3, <1>4 DEF Goes
  <1>6. Locked' /\ lock' \in [holder : Maybe(Threads), waiters : Seq(Threads)]
    BY <1>1, <1>3, <1>5, LockSame DEF Inv, IInv, Typed, Outside
  <1> QED BY <1>1, <1>3, <1>4, <1>5, <1>6, AsideInv DEF Recovery

LEMMA ReembeddedInv ==
  ASSUME Inv, NEW t \in Threads, Reembedded(t)
  PROVE  Inv'
  <1>1. /\ job[t].step = "stores" /\ Settled /\ UNCHANGED begun /\ begun' \in 0 .. MaxRequests
        /\ active.name \in Maybe(EmbModels)
    BY DEF Reembedded, At, Settled, history, Inv, IInv, Typed
  <1>2. CASE active.name = NoModel
    BY <1>1, <1>2, EndsInv DEF Reembedded
  <1>3. CASE active.name # NoModel
    <2> DEFINE r == [job[t] EXCEPT !.step = "wait", !.model = active.name]
    <2>1. job' = [job EXCEPT ![t] = r] /\ Wait(t)
      BY <1>3 DEF Reembedded, Go
    <2>2. job[t] \in Job /\ Formed(job[t]) /\ active.name \in EmbModels
      BY <1>1, <1>3 DEF Inv, IInv, Typed, Requests, Maybe
    <2>3. job[t].kind = "reembed" /\ job[t].plan.do # "autopick"
      BY <1>1, <2>2 DEF Formed, Job, Kinds
    <2>4. /\ r \in Job /\ r.kind = "reembed" /\ r.step = "wait" /\ r.model = active.name
          /\ r.plan = job[t].plan
      BY <2>2, <2>3 DEF Job, Steps, Models, Maybe
    <2> HIDE DEF r
    <2>5. Formed(r) /\ Coupled(r) /\ Alone(r)
      BY <2>2, <2>3, <2>4 DEF Formed, Coupled, Alone
    <2> QED BY <1>1, <2>1, <2>3, <2>4, <2>5, QueueInv DEF Goes
  <1> QED BY <1>2, <1>3

LEMMA BeginPollInv ==
  ASSUME Inv, NEW t \in Threads, NEW h, BeginPoll(t, h)
  PROVE  Inv'
  <1> DEFINE r == [IdleJob EXCEPT !.kind = "poll", !.step = "polled", !.cand = runtime, !.health = h]
  <1>1. /\ begun' \in 0 .. MaxRequests /\ job[t].step = "idle" /\ Settled /\ UNCHANGED lock
        /\ h \in Healths(runtime.backend)
    BY BeginTypes DEF BeginPoll, Settled, history
  <1>2. job' = [job EXCEPT ![t] = r]
    BY DEF BeginPoll, Go
  <1>a. runtime \in Cand /\ runtime.backend \in Backends /\ h \in Health
    BY <1>1, HealthTypes DEF Inv, IInv, Typed, Cand
  <1>3. /\ r \in Job /\ r.kind = "poll" /\ r.step = "polled" /\ r.backend = NoModel
        /\ r.plan = IdleJob.plan /\ r.cand = runtime /\ r.health = h
    <2>1. IdleJob.backend = NoModel
      BY DEF IdleJob
    <2> QED BY <1>a, <2>1, Idles DEF Job, Kinds, Steps
  <1> HIDE DEF r
  <1>4. Formed(r) /\ Coupled(r) /\ Alone(r) /\ ~Pinning(r)
    BY <1>1, <1>3, <1>a, Idles DEF Formed, Coupled, Alone, Pinning
  <1>5. Goes(t, r)
    BY <1>2, <1>3, <1>4 DEF Goes
  <1>6. Locked' /\ lock' \in [holder : Maybe(Threads), waiters : Seq(Threads)]
    BY <1>1, <1>3, <1>5, LockSame DEF Inv, IInv, Typed, Outside
  <1> QED BY <1>1, <1>3, <1>4, <1>5, <1>6, AsideInv DEF Recovery

\* The request in progress, its fields and what is known of it.
LEMMA JobNow ==
  ASSUME Inv, NEW t \in Threads
  PROVE  /\ job[t] \in Job /\ Formed(job[t]) /\ Coupled(job[t]) /\ (serial => Alone(job[t]))
         /\ Typed /\ Locked /\ (serial => Serially)
         /\ begun \in 0 .. MaxRequests /\ lock \in [holder : Maybe(Threads), waiters : Seq(Threads)]
  BY DEF Inv, IInv, SInv, Serially, Requests, Typed

LEMMA PolledInv ==
  ASSUME Inv, NEW t \in Threads, Polled(t)
  PROVE  Inv'
  <1>1. /\ job[t].step = "polled" /\ Settled /\ UNCHANGED begun /\ begun' \in 0 .. MaxRequests
        /\ \/ Go(t, IdleJob) /\ UNCHANGED lock
           \/ Goto(t, "wait") /\ Wait(t)
    BY DEF Polled, At, Settled, history, Inv, IInv, Typed
  <1>2. CASE Go(t, IdleJob) /\ UNCHANGED lock
    BY <1>1, <1>2, EndsInv
  <1>3. CASE Goto(t, "wait") /\ Wait(t)
    <2> DEFINE r == [job[t] EXCEPT !.step = "wait"]
    <2>1. job' = [job EXCEPT ![t] = r]
      BY <1>3 DEF Goto, Go
    <2>2. /\ job[t] \in Job /\ Formed(job[t]) /\ Coupled(job[t])
      BY JobNow
    <2>3. job[t].kind = "poll" /\ job[t].plan.do # "autopick"
      BY <1>1, <2>2 DEF Formed, Job, Kinds
    <2>4. /\ r \in Job /\ r.kind = "poll" /\ r.step = "wait" /\ r.backend = job[t].backend
          /\ r.plan = job[t].plan /\ r.cand = job[t].cand /\ r.health = job[t].health
          /\ r.moved = job[t].moved
      BY <2>2, <2>3 DEF Job, Steps
    <2> HIDE DEF r
    <2>5. Formed(r) /\ Coupled(r) /\ Alone(r)
      BY <1>1, <2>2, <2>3, <2>4 DEF Formed, Coupled, Alone
    <2> QED BY <1>1, <1>3, <2>1, <2>3, <2>4, <2>5, QueueInv DEF Goes
  <1> QED BY <1>1, <1>2, <1>3

\* The holder of the lock goes on without a change.
LEMMA HeldInv ==
  ASSUME Inv, NEW t \in Threads, NEW r, Goes(t, r), Settled, UNCHANGED <<lock, begun>>,
         job[t].step \notin Outside \cup {"source", "name", "commit"}, r.step \notin Outside,
         ~Pinning(r), r.kind = job[t].kind, Coupled(r), serial => Alone(r),
         serial /\ r.step \in Recovery =>
             \A u \in Threads : At(u, "put") => job[u].backend \in crossed'
  PROVE  Inv'
  <1>1. Locked'
    BY JobNow, LockSame DEF Outside
  <1>2. begun' \in 0 .. MaxRequests /\ lock' \in [holder : Maybe(Threads), waiters : Seq(Threads)]
    BY JobNow
  <1> QED BY <1>1, <1>2, AsideInv DEF Outside

LEMMA AcquireInv ==
  ASSUME Inv, NEW t \in Threads, Acquire(t)
  PROVE  Inv'
  <1> DEFINE backend == IF job[t].backend = NoModel THEN settings.backend ELSE job[t].backend
             r == [job[t] EXCEPT !.step = FirstStep(t), !.backend = backend]
  <1>1. /\ job[t].step = "wait" /\ Settled /\ UNCHANGED begun /\ begun' \in 0 .. MaxRequests
        /\ lock.holder = NoModel /\ Head(lock.waiters) = t
        /\ lock' = [holder |-> t, waiters |-> Tail(lock.waiters)]
    BY JobNow DEF Acquire, At, Settled, history
  <1>2. job' = [job EXCEPT ![t] = r]
    BY DEF Acquire, Go
  <1>3. job[t] \in Job /\ Formed(job[t]) /\ Coupled(job[t]) /\ (serial => Alone(job[t]))
    BY JobNow
  <1>4. /\ job[t].kind = "poll" => FirstStep(t) = "recover"
        /\ job[t].kind = "reembed" => FirstStep(t) = "measure"
        /\ job[t].kind \in {"switch", "chat", "emb"} => FirstStep(t) = "check"
        /\ job[t].kind \in {"poll", "reembed", "switch", "chat", "emb"}
    BY <1>1, <1>3 DEF FirstStep, Formed, Job, Kinds
  <1>5. settings.backend \in Backends /\ backend \in Maybe(Backends)
    BY <1>3, JobNow, ResolveTypes DEF Typed, Config, Job, Maybe
  <1>6. /\ job[t].backend \in Backends \cup {NoModel} => backend \in Backends
        /\ job[t].backend = settings.backend \/ job[t].backend = NoModel => backend = settings.backend
    BY <1>5
  <1> HIDE DEF backend
  <1>7. /\ r \in Job /\ r.kind = job[t].kind /\ r.step = FirstStep(t) /\ r.backend = backend
        /\ r.plan = job[t].plan /\ r.cand = job[t].cand /\ r.health = job[t].health
        /\ r.moved = job[t].moved /\ r.model = job[t].model
    BY <1>3, <1>4, <1>5 DEF Job, Steps
  <1> HIDE DEF r
  <1>8. Formed(r)
    BY <1>1, <1>3, <1>4, <1>6, <1>7 DEF Formed
  <1>9. Coupled(r) /\ (serial => Alone(r)) /\ ~Pinning(r)
    BY <1>1, <1>3, <1>4, <1>6, <1>7 DEF Formed, Coupled, Alone, Pinning
  <1>10. Goes(t, r) /\ r.step \notin Outside \cup Recovery
    BY <1>2, <1>4, <1>7, <1>8 DEF Goes, Outside, Recovery
  <1>11. Locked' /\ lock' \in [holder : Maybe(Threads), waiters : Seq(Threads)]
    BY <1>1, <1>10, JobNow, LockTake
  <1> QED BY <1>1, <1>7, <1>9, <1>10, <1>11, AsideInv DEF Outside

LEMMA CheckInv ==
  ASSUME Inv, NEW t \in Threads, NEW h \in Checks(t), Check(t, h)
  PROVE  Inv'
  <1> DEFINE cand == Client(settings, job[t].backend, CheckedEmb(t))
             r == [job[t] EXCEPT !.step = "checked", !.health = h, !.cand = cand]
  <1>1. job[t].step = "check" /\ Settled /\ UNCHANGED <<lock, begun>>
    BY DEF Check, At, Settled, history
  <1>2. job' = [job EXCEPT ![t] = r]
    BY DEF Check, Go
  <1>3. job[t] \in Job /\ Formed(job[t]) /\ (serial => Alone(job[t])) /\ settings \in Config
    BY JobNow DEF Typed
  <1>4. job[t].kind \in {"switch", "chat", "emb"} /\ job[t].backend \in Backends
        /\ h \in Healths(job[t].backend)
    BY <1>1, <1>3 DEF Formed, Job, Kinds, Checks
  <1>5. CheckedEmb(t) \in Maybe(EmbModels)
    BY <1>3, <1>4, ResolveTypes DEF CheckedEmb, Formed
  <1>6. cand \in Cand /\ cand.backend = job[t].backend /\ cand.emb = CheckedEmb(t) /\ h \in Health
    BY <1>3, <1>4, <1>5, ClientTypes, HealthTypes
  <1> HIDE DEF cand
  <1>7. /\ r \in Job /\ r.kind = job[t].kind /\ r.step = "checked" /\ r.backend = job[t].backend
        /\ r.plan = job[t].plan /\ r.cand = cand /\ r.health = h /\ r.model = job[t].model
    BY <1>3, <1>6 DEF Job, Steps
  <1> HIDE DEF r
  <1>8. Formed(r) /\ Coupled(r) /\ (serial => Alone(r)) /\ ~Pinning(r)
    <2>1. Formed(r)
      BY <1>1, <1>3, <1>4, <1>6, <1>7 DEF Formed, CheckedEmb
    <2>2. Coupled(r) /\ ~Pinning(r)
      BY <1>4, <1>6, <1>7 DEF Coupled, Pinning, CheckedEmb
    <2>3. serial => Alone(r)
      BY <1>1, <1>3, <1>4, <1>7 DEF Alone, Formed
    <2> QED BY <2>1, <2>2, <2>3
  <1>9. Goes(t, r)
    BY <1>2, <1>7, <1>8 DEF Goes
  <1>10. r.step \notin Outside \cup Recovery
    BY <1>7 DEF Outside, Recovery
  <1> QED BY <1>1, <1>7, <1>8, <1>9, <1>10, HeldInv DEF Outside

LEMMA AcceptedInv ==
  ASSUME Inv, NEW t \in Threads, Accepted(t)
  PROVE  Inv'
  <1> DEFINE step == IF job[t].kind = "switch" THEN "recover" ELSE "commit"
             r == [job[t] EXCEPT !.step = step]
  <1>1. /\ job[t].step = "checked" /\ Settled /\ UNCHANGED <<lock, begun>>
        /\ job[t].kind \in {"switch", "chat"}
    BY DEF Accepted, At, Settled, history
  <1>2. job' = [job EXCEPT ![t] = r]
    BY DEF Accepted, Goto, Go
  <1>3. /\ job[t] \in Job /\ Formed(job[t]) /\ Coupled(job[t]) /\ (serial => Alone(job[t]))
    BY JobNow
  <1>4. /\ r \in Job /\ r.kind = job[t].kind /\ r.step = step /\ r.backend = job[t].backend
        /\ r.plan = job[t].plan /\ r.cand = job[t].cand /\ r.health = job[t].health
        /\ r.model = job[t].model
    BY <1>3 DEF Job, Steps
  <1> HIDE DEF r
  <1>5. Formed(r) /\ Coupled(r) /\ (serial => Alone(r)) /\ ~Pinning(r)
    <2>1. Formed(r)
      BY <1>1, <1>3, <1>4 DEF Formed
    <2>2. Coupled(r) /\ ~Pinning(r)
      BY <1>1, <1>3, <1>4 DEF Coupled, Pinning
    <2>3. serial => Alone(r)
      BY <1>1, <1>3, <1>4 DEF Alone, Formed
    <2> QED BY <2>1, <2>2, <2>3
  <1>6. Goes(t, r)
    BY <1>2, <1>4, <1>5 DEF Goes
  <1>7. r.step \notin Outside \cup Recovery
    BY <1>4 DEF Outside, Recovery
  <1> QED BY <1>1, <1>4, <1>5, <1>6, <1>7, HeldInv DEF Outside

LEMMA NoRecoveryInv ==
  ASSUME Inv, NEW t \in Threads, NoRecovery(t)
  PROVE  Inv'
  <1>1. job[t].step = "recover"
    BY DEF NoRecovery, At
  <1>2. CASE job[t].kind = "poll"
    BY <1>1, <1>2, LeaveInv DEF NoRecovery
  <1>3. CASE job[t].kind # "poll"
    <2> DEFINE r == [job[t] EXCEPT !.step = "plan"]
    <2>1. Settled /\ UNCHANGED <<lock, begun>> /\ job' = [job EXCEPT ![t] = r]
      BY <1>3 DEF NoRecovery, Goto, Go, Settled, history
    <2>2. /\ job[t] \in Job /\ Formed(job[t]) /\ Coupled(job[t]) /\ (serial => Alone(job[t]))
      BY JobNow
    <2>3. job[t].kind = "switch"
      BY <1>1, <1>3, <2>2 DEF Formed, Job, Kinds
    <2>4. /\ r \in Job /\ r.kind = "switch" /\ r.step = "plan" /\ r.backend = job[t].backend
          /\ r.plan = job[t].plan /\ r.cand = job[t].cand /\ r.health = job[t].health
          /\ r.model = job[t].model
      BY <2>2, <2>3 DEF Job, Steps
    <2> HIDE DEF r
    <2>5. Formed(r)
      BY <1>1, <2>2, <2>3, <2>4 DEF Formed
    <2>6. Coupled(r) /\ (serial => Alone(r)) /\ ~Pinning(r)
      BY <1>1, <2>2, <2>3, <2>4 DEF Formed, Coupled, Alone, Pinning
    <2>7. Goes(t, r) /\ r.step \notin Outside \cup Recovery
      BY <2>1, <2>4, <2>5 DEF Goes, Outside, Recovery
    <2> QED BY <1>1, <2>1, <2>3, <2>4, <2>6, <2>7, HeldInv DEF Outside
  <1> QED BY <1>2, <1>3

LEMMA PlanRecoveryInv ==
  ASSUME Inv, NEW t \in Threads, NEW plan \in PlansOf(t), PlanRecovery(t, plan)
  PROVE  Inv'
  <1> DEFINE r == [job[t] EXCEPT !.step = "apply", !.plan = plan]
  <1>1. /\ job[t].step = "recover" /\ Settled /\ UNCHANGED <<lock, begun>>
        /\ crossed' = crossed \cup {job[u].backend : u \in {v \in Threads : At(v, "put")}} /\ ~Moved(t)
        /\ plan \in Plans(settings, job[t].backend, job[t].health.models)
    BY DEF PlanRecovery, PlansOf, At, Settled, history
  <1>2. job' = [job EXCEPT ![t] = r]
    BY DEF PlanRecovery, Go
  <1>3. /\ job[t] \in Job /\ Formed(job[t]) /\ Coupled(job[t]) /\ (serial => Alone(job[t]))
        /\ settings \in Config /\ (serial => Serially)
    BY JobNow DEF Typed
  <1>4. job[t].kind \in {"switch", "poll"} /\ job[t].backend \in Backends
        /\ job[t].cand.backend \in Backends /\ job[t].health \in Healths(job[t].cand.backend)
    BY <1>1, <1>3 DEF Formed, Job, Kinds
  <1>5. /\ plan \in Plan /\ plan.do \in {"demote", "autopick"}
        /\ plan.do = "autopick" => /\ settings.pin[job[t].backend] = NoModel
                                   /\ plan.model \in job[t].health.models \cap ChatModels
    BY <1>1, <1>3, <1>4, PlanTypes
  <1>6. /\ r \in Job /\ r.kind = job[t].kind /\ r.step = "apply" /\ r.backend = job[t].backend
        /\ r.plan = plan /\ r.cand = job[t].cand /\ r.health = job[t].health
        /\ r.model = job[t].model
    BY <1>3, <1>5 DEF Job, Steps
  <1> HIDE DEF r
  <1>7. Formed(r)
    BY <1>1, <1>3, <1>4, <1>5, <1>6 DEF Formed
  <1>8. Coupled(r) /\ ~Pinning(r)
    BY <1>4, <1>6 DEF Coupled, Pinning
  <1>9. ASSUME serial, plan.do = "autopick"
        PROVE  /\ chosen[job[t].backend] = NoModel \/ job[t].backend \in crossed
               /\ Lists(job[t].backend, plan.model)
    <2>1. chosen[job[t].backend] = NoModel \/ job[t].backend \in crossed
      BY <1>3, <1>4, <1>5, <1>9 DEF Serially, Choices
    <2>2. job[t].cand.backend = job[t].backend
      <3>1. CASE job[t].kind = "switch"
        BY <1>1, <1>3, <3>1 DEF Formed
      <3>2. CASE job[t].kind = "poll"
        <4>1. job[t].cand = runtime
          BY <1>1, <1>3, <3>2 DEF Coupled, Moved, Job
        <4> QED BY <1>1, <1>3, <1>9, <3>2, <4>1 DEF Serially, Alone
      <3> QED BY <1>4, <3>1, <3>2
    <2> QED BY <1>4, <1>5, <1>9, <2>1, <2>2, HealthTypes
  <1>10. serial => Alone(r)
    <2>1. serial /\ r.kind = "poll" => r.backend = settings.backend
      BY <1>1, <1>3, <1>6 DEF Alone
    <2> QED BY <1>4, <1>6, <1>9, <2>1 DEF Alone, Recovery
  <1>11. Goes(t, r) /\ r.step \notin Outside
    BY <1>2, <1>6, <1>7 DEF Goes, Outside
  <1> QED BY <1>1, <1>6, <1>8, <1>10, <1>11, HeldInv DEF Outside

LEMMA RecheckInv ==
  ASSUME Inv, NEW t \in Threads, NEW h \in Checks(t), Recheck(t, h)
  PROVE  Inv'
  <1> DEFINE emb  == ResolveEmb(settings, job[t].backend)
             cand == Client(settings, job[t].backend, emb)
             step == IF job[t].kind = "poll" THEN "commit" ELSE "plan"
             r == [job[t] EXCEPT !.step = step, !.plan = NoPlan, !.health = h, !.cand = cand]
  <1>1. job[t].step = "recheck" /\ Settled /\ UNCHANGED <<lock, begun>>
    BY DEF Recheck, At, Settled, history
  <1>2. job' = [job EXCEPT ![t] = r]
    BY DEF Recheck, Go
  <1>3. job[t] \in Job /\ Formed(job[t]) /\ (serial => Alone(job[t])) /\ settings \in Config
    BY JobNow DEF Typed
  <1>4. job[t].kind \in {"switch", "poll"} /\ job[t].backend \in Backends
        /\ h \in Healths(job[t].backend)
    BY <1>1, <1>3 DEF Formed, Job, Kinds, Checks
  <1>5. /\ cand \in Cand /\ cand.backend = job[t].backend /\ cand.emb = emb /\ h \in Health
        /\ NoPlan \in Plan /\ NoPlan.do = "nothing"
    BY <1>3, <1>4, ResolveTypes, ClientTypes, HealthTypes DEF NoPlan, Plan, Maybe
  <1> HIDE DEF cand, emb
  <1>6. /\ r \in Job /\ r.kind = job[t].kind /\ r.step = step /\ r.backend = job[t].backend
        /\ r.plan = NoPlan /\ r.cand = cand /\ r.health = h /\ r.model = job[t].model
    BY <1>3, <1>5 DEF Job, Steps
  <1> HIDE DEF r
  <1>7. Formed(r)
    BY <1>1, <1>3, <1>4, <1>5, <1>6 DEF Formed
  <1>8. Coupled(r) /\ (serial => Alone(r)) /\ ~Pinning(r)
    BY <1>1, <1>3, <1>4, <1>5, <1>6 DEF Coupled, Alone, Pinning, emb
  <1>9. Goes(t, r) /\ r.step \notin Outside \cup Recovery
    BY <1>2, <1>6, <1>7 DEF Goes, Outside, Recovery
  <1> QED BY <1>1, <1>6, <1>8, <1>9, HeldInv DEF Outside

LEMMA PlanSwitchInv ==
  ASSUME Inv, NEW t \in Threads, PlanSwitch(t)
  PROVE  Inv'
  <1> DEFINE follows == Follows(job[t].backend, job[t].health)
             step == IF follows THEN "source" ELSE "commit"
             r == [job[t] EXCEPT !.step = step]
  <1>1. job[t].step = "plan" /\ Settled /\ UNCHANGED <<lock, begun>>
    BY DEF PlanSwitch, At, Settled, history
  <1>2. job' = [job EXCEPT ![t] = r]
    BY DEF PlanSwitch, Goto, Go
  <1>3. job[t] \in Job /\ Formed(job[t]) /\ Coupled(job[t]) /\ (serial => Alone(job[t]))
    BY JobNow
  <1>4. /\ job[t].kind = "switch" /\ job[t].backend \in Backends /\ job[t].cand.backend = job[t].backend
        /\ job[t].health \in Healths(job[t].backend)
        /\ job[t].cand.emb = ResolveEmb(settings, job[t].backend)
    BY <1>1, <1>3 DEF Formed, Coupled, Job, Kinds
  <1>5. follows => Lists(job[t].cand.backend, job[t].cand.emb)
    BY <1>4, HealthTypes DEF Follows
  <1> HIDE DEF follows
  <1>6. /\ r \in Job /\ r.kind = "switch" /\ r.step = step /\ r.backend = job[t].backend
        /\ r.plan = job[t].plan /\ r.cand = job[t].cand /\ r.health = job[t].health
        /\ r.model = job[t].model
    BY <1>3, <1>4 DEF Job, Steps
  <1> HIDE DEF r
  <1>7. Formed(r)
    BY <1>1, <1>3, <1>4, <1>5, <1>6 DEF Formed
  <1>8. Coupled(r) /\ (serial => Alone(r)) /\ ~Pinning(r)
    BY <1>1, <1>3, <1>4, <1>6 DEF Coupled, Alone, Pinning, Formed
  <1>9. Goes(t, r) /\ r.step \notin Outside \cup Recovery
    BY <1>2, <1>6, <1>7 DEF Goes, Outside, Recovery
  <1> QED BY <1>1, <1>4, <1>6, <1>8, <1>9, HeldInv DEF Outside

-----------------------------------------------------------------------------
(* Steps that change the settings or .env                                  *)

LEMMA BeginPinInv ==
  ASSUME Inv, NEW t \in Threads, NEW kind \in {"switch", "chat"}, NEW b \in Backends,
         NEW m \in ChatModels, BeginPin(t, kind, b, m)
  PROVE  Inv'
  <1> DEFINE r == [IdleJob EXCEPT !.kind = kind, !.step = "put", !.backend = b, !.model = m,
                                  !.snap = env]
  <1>1. /\ UNCHANGED <<env, runtime, controller, memory, active, calibrated, lock, serial, unsaved>>
        /\ settings' = [settings EXCEPT !.pin[b] = m] /\ chosen' = [chosen EXCEPT ![b] = m]
        /\ job' = [job EXCEPT ![t] = r] /\ (serial => User = {})
        /\ crossed' = IF Recovering THEN crossed \cup {b} ELSE crossed \ {b}
        /\ begun' \in 0 .. MaxRequests /\ job[t].step = "idle" /\ LoopFree
    BY BeginTypes DEF BeginPin, BeginUser, Go
  <1>2. Typed /\ Locked /\ Requests /\ Joined /\ (serial => Serially)
    BY DEF Inv, IInv, SInv
  <1>3. /\ r \in Job /\ r.kind = kind /\ r.step = "put" /\ r.backend = b /\ r.model = m
        /\ r.snap = env /\ r.plan = IdleJob.plan
    BY <1>2, Idles DEF Job, Kinds, Steps, Maybe, Models, Typed
  <1> HIDE DEF r
  <1>4. Formed(r)
    BY <1>2, <1>3, Idles DEF Formed, Typed
  <1>5. Goes(t, r)
    BY <1>1, <1>3, <1>4 DEF Goes
  <1>6. job' \in [Threads -> Job] /\ job'[t] = r /\ \A u \in Threads \ {t} : job'[u] = job[u]
    BY <1>2, <1>5, JobAfter
  <1>7. Locked'
    BY <1>1, <1>2, <1>3, <1>5, LockSame DEF Outside
  <1>8. /\ settings' \in Config /\ settings'.emb = settings.emb /\ settings'.legacy = settings.legacy
        /\ settings'.backend = settings.backend /\ settings'.pin = [settings.pin EXCEPT ![b] = m]
    BY <1>1, <1>2 DEF Typed, Config, Maybe
  <1>9. Typed'
    BY <1>1, <1>2, <1>6, <1>8 DEF Typed, Maybe
  <1>10. Requests'
    <2> SUFFICES ASSUME NEW u \in Threads
                 PROVE  Formed(job[u])' /\ Coupled(job[u])'
      BY DEF Requests
    <2>1. CASE u = t
      BY <1>3, <1>4, <1>6, <2>1 DEF Coupled, Formed
    <2>2. CASE u # t
      BY <1>1, <1>2, <1>6, <1>8, <2>2 DEF Requests, Coupled, Formed, ResolveEmb
    <2> QED BY <2>1, <2>2
  <1>11. Joined'
    BY <1>1, <1>2, <1>3, <1>6 DEF Joined, At
  <1>12. SInv'
    <2> SUFFICES ASSUME serial PROVE Serially'
      BY <1>1 DEF SInv
    <2>1. Serially /\ User = {}
      BY <1>1, <1>2
    <2>2. \A u \in Threads \ {t} : /\ job[u].kind \notin {"switch", "chat", "emb", "reembed"}
                                   /\ job[u].step # "put"
                                   /\ job[u].step \in Recovery => b \in crossed'
      BY <1>1, <2>1 DEF User, Recovering, LoopFree, At
    <2>a. \A c \in Backends \ crossed' : c # b => c \notin crossed /\ chosen'[c] = chosen[c]
      BY <1>1, <1>2 DEF Typed
    <2>3. ASSUME NEW u \in User', NEW v \in User' PROVE u = v
      BY <1>6, <2>2, <2>3 DEF User
    <2>4. ASSUME NEW u \in Threads PROVE Alone(job[u])'
      <3>1. CASE u = t
        <4>1. \A c \in Backends \ crossed' : chosen'[c] # NoModel /\ c # b =>
                 env'.pin[c] = chosen'[c] \/ unsaved'
          BY <1>1, <2>1, <2>a DEF Serially, Choices, LoopFree, At
        <4>2. Snapped(job[t])'
          BY <1>1, <1>3, <1>6, <4>1 DEF Snapped
        <4> QED BY <1>1, <1>2, <1>3, <1>6, <3>1, <4>2, Idles DEF Alone, Typed
      <3>2. CASE u # t
        <4>1. job[u].step = "replace" => Snapped(job[u])'
          <5> SUFFICES ASSUME job[u].step = "replace"
                       PROVE  Snapped(job[u])'
            OBVIOUS
          <5>1. Snapped(job[u]) /\ job'[u] = job[u]
            BY <1>6, <2>1, <3>2 DEF Serially, Alone
          <5>2. b \in crossed'
            BY <2>2, <3>2 DEF Recovery
          <5> QED BY <1>1, <2>a, <5>1, <5>2 DEF Snapped
        <4>2. /\ job'[u] = job[u] /\ Alone(job[u]) /\ job[u].step # "put"
              /\ job[u].kind # "reembed"
          BY <1>6, <2>1, <2>2, <3>2 DEF Serially
        <4>3. job[u].step \in Recovery /\ job[u].plan.do = "autopick" =>
                 chosen'[job[u].backend] = NoModel \/ job[u].backend \in crossed'
          <5> SUFFICES ASSUME job[u].step \in Recovery, job[u].plan.do = "autopick"
                       PROVE  chosen'[job[u].backend] = NoModel \/ job[u].backend \in crossed'
            OBVIOUS
          <5>1. chosen[job[u].backend] = NoModel \/ job[u].backend \in crossed
            BY <4>2 DEF Alone
          <5>2. crossed' = crossed \cup {b}
            BY <1>1, <3>2 DEF Recovering
          <5> QED BY <1>1, <1>2, <5>1, <5>2 DEF Typed
        <4> QED BY <1>1, <1>8, <4>1, <4>2, <4>3 DEF Alone
      <3> QED BY <3>1, <3>2
    <2>5. (controller.name = memory.name \/ \E u \in Threads : job[u].step \in {"name", "commit"})'
      BY <1>1, <1>6, <2>1 DEF Serially
    <2>6. (Recovering => Met)'
      BY <1>3, <1>6, <2>2 DEF Recovering, Met, At, Recovery
    <2>7. Choices'
      <3> SUFFICES ASSUME NEW c \in Backends \ crossed', chosen'[c] # NoModel
                   PROVE  /\ settings'.pin[c] = chosen'[c]
                          /\ env'.pin[c] = chosen'[c] \/ unsaved'
                             \/ \E u \in Threads : job'[u].step = "put" /\ job'[u].backend = c
        BY DEF Choices, At
      <3>1. CASE c = b
        BY <1>1, <1>2, <1>3, <1>6, <1>8, <3>1, ResolveTypes DEF Typed, Config
      <3>2. CASE c # b
        BY <1>1, <1>2, <1>6, <1>8, <2>1, <2>a, <3>2, ResolveTypes
           DEF Typed, Config, Serially, Choices, At, LoopFree
      <3> QED BY <3>1, <3>2
    <2>8. ASSUME ~unsaved' PROVE Mirrored'
      <3>1. Mirrored
        BY <1>1, <2>1, <2>8 DEF Serially
      <3>2. \A u \in Threads : ~Pinning(job[u]) /\ ~Pinning(job'[u])
        BY <1>1, <1>3, <1>6, <2>2 DEF Pinning
      <3> QED BY <1>1, <1>8, <3>1, <3>2 DEF Mirrored, Pinning
    <2>9. (runtime.backend = settings.backend)' /\ NameOfFn' /\ ThresholdsOwn'
      BY <1>1, <1>8, <2>1 DEF Serially, NameOfFn, ThresholdsOwn
    <2> QED BY <2>3, <2>4, <2>5, <2>6, <2>7, <2>8, <2>9 DEF Serially
  <1> QED BY <1>7, <1>9, <1>10, <1>11, <1>12 DEF Inv, IInv

LEMMA PinSavedInv ==
  ASSUME Inv, NEW t \in Threads, PinSaved(t)
  PROVE  Inv'
  <1>1. /\ UNCHANGED <<settings, runtime, controller, memory, active, calibrated, serial, chosen, crossed,
                       begun, unsaved>>
        /\ env' = [job[t].snap EXCEPT !.pin[job[t].backend] = job[t].model]
        /\ job[t].step = "put"
    BY DEF PinSaved, At, history
  <1>2. Typed /\ Locked /\ Requests /\ Joined /\ (serial => Serially)
    BY DEF Inv, IInv, SInv
  <1>3. /\ job[t] \in Job /\ Formed(job[t]) /\ job[t].kind \in {"switch", "chat"}
        /\ job[t].backend \in Backends /\ job[t].model \in ChatModels /\ job[t].snap \in Config
        /\ job[t].plan.do # "autopick"
    <2>1. job[t] \in Job /\ Formed(job[t])
      BY <1>2 DEF Requests, Typed
    <2>2. job[t].kind \in {"switch", "chat"}
      BY <1>1, <2>1 DEF Formed, Job, Kinds
    <2> QED BY <1>1, <2>1, <2>2 DEF Formed
  <1>4. /\ env' \in Config /\ env'.emb = job[t].snap.emb /\ env'.legacy = job[t].snap.legacy
        /\ env'.backend = job[t].snap.backend
        /\ env'.pin = [job[t].snap.pin EXCEPT ![job[t].backend] = job[t].model]
    <2> DEFINE c == job[t].snap
    <2>1. c \in Config /\ env' = [c EXCEPT !.pin[job[t].backend] = job[t].model]
      BY <1>1, <1>3
    <2> HIDE DEF c
    <2> QED BY <1>3, <2>1 DEF Config, Maybe, c
  <1>5. \E r : /\ Goes(t, r) /\ Locked' /\ lock' \in [holder : Maybe(Threads), waiters : Seq(Threads)]
               /\ \/ r = IdleJob
                  \/ /\ r.kind = job[t].kind /\ r.step = "wait" /\ r.plan = job[t].plan
                     /\ r.backend = job[t].backend
                     /\ r.kind = "chat" => r.backend = settings.backend
    <2>1. CASE job[t].kind = "chat" /\ job[t].backend # settings.backend
      <3>1. Goes(t, IdleJob) /\ UNCHANGED lock
        BY <2>1, Idles DEF PinSaved, Goes, Go
      <3>2. Locked'
        BY <1>1, <1>2, <3>1, LockSame, Idles DEF Outside
      <3> QED BY <1>2, <3>1, <3>2 DEF Typed
    <2>2. CASE ~(job[t].kind = "chat" /\ job[t].backend # settings.backend)
      <3> DEFINE r == [job[t] EXCEPT !.step = "wait", !.snap = NoModel]
      <3>1. job' = [job EXCEPT ![t] = r] /\ Wait(t)
        BY <2>2 DEF PinSaved, Go
      <3>2. /\ r \in Job /\ r.kind = job[t].kind /\ r.step = "wait" /\ r.plan = job[t].plan
            /\ r.backend = job[t].backend
        BY <1>3 DEF Job, Steps, Maybe
      <3> HIDE DEF r
      <3>3. Formed(r)
        BY <1>3, <3>2 DEF Formed
      <3>4. Goes(t, r)
        BY <3>1, <3>2, <3>3 DEF Goes
      <3>5. Locked' /\ lock' \in [holder : Maybe(Threads), waiters : Seq(Threads)]
        BY <1>1, <1>2, <3>1, <3>2, <3>4, LockWait DEF Outside
      <3> QED BY <2>2, <3>2, <3>4, <3>5
    <2> QED BY <2>1, <2>2
  <1>6. PICK r : /\ Goes(t, r) /\ Locked' /\ lock' \in [holder : Maybe(Threads), waiters : Seq(Threads)]
                 /\ r.kind \in {"none", job[t].kind} /\ r.step \in {"idle", "wait"}
                 /\ r.kind = "none" \/ (r.kind = job[t].kind /\ r.backend = job[t].backend)
                 /\ r.kind = "chat" => r.backend = settings.backend
                 /\ r.plan.do # "autopick"
    BY <1>3, <1>5, Idles
  <1>7. job' \in [Threads -> Job] /\ job'[t] = r /\ \A u \in Threads \ {t} : job'[u] = job[u]
    BY <1>2, <1>6, JobAfter
  <1>8. Typed'
    BY <1>1, <1>2, <1>4, <1>6, <1>7 DEF Typed
  <1>9. Requests'
    <2> SUFFICES ASSUME NEW u \in Threads
                 PROVE  Formed(job[u])' /\ Coupled(job[u])'
      BY DEF Requests
    <2>1. CASE u = t
      BY <1>3, <1>6, <1>7, <2>1 DEF Coupled, Formed, Goes
    <2>2. CASE u # t
      BY <1>1, <1>2, <1>7, <2>2 DEF Requests, Coupled, Formed
    <2> QED BY <2>1, <2>2
  <1>10. Joined'
    BY <1>1, <1>2, <1>7 DEF Joined, At
  <1>11. SInv'
    <2> SUFFICES ASSUME serial PROVE Serially'
      BY <1>1 DEF SInv
    <2>1. Serially /\ Alone(job[t]) /\ t \in User
      BY <1>2, <1>3 DEF Serially, User
    <2>2. \A u \in Threads \ {t} : job[u].kind \notin {"switch", "chat", "emb", "reembed"}
      BY <1>1, <2>1 DEF Serially, User
    <2>3. \A u \in Threads \ {t} : job[u].step # "put"
      BY <1>2, <2>2 DEF Requests, Formed, Typed, Job, Kinds
    <2>4. /\ env'.emb = env.emb /\ env'.legacy = env.legacy /\ env'.backend = env.backend
          /\ Snapped(job[t]) /\ chosen[job[t].backend] = job[t].model
      BY <1>1, <1>4, <2>1 DEF Alone, Snapped
    <2>5. ASSUME NEW u \in User', NEW v \in User' PROVE u = v
      BY <1>7, <2>2, <2>5 DEF User
    <2>6. ASSUME NEW u \in Threads PROVE Alone(job[u])'
      <3>1. CASE u = t
        BY <1>1, <1>3, <1>6, <1>7, <3>1 DEF Alone
      <3>2. CASE u # t
        <4>1. job[u].step = "replace" => Snapped(job[u])'
          BY <1>1, <1>7, <2>1, <2>4, <3>2 DEF Serially, Alone, Snapped
        <4> QED BY <1>1, <1>7, <2>1, <2>2, <2>3, <3>2, <4>1 DEF Serially, Alone
      <3> QED BY <3>1, <3>2
    <2>7. (controller.name = memory.name \/ \E u \in Threads : job[u].step \in {"name", "commit"})'
      BY <1>1, <1>7, <2>1 DEF Serially
    <2>8. (Recovering => Met)'
      BY <1>6, <1>7, <2>3 DEF Met, At
    <2>9. Choices'
      <3> SUFFICES ASSUME NEW c \in Backends \ crossed, chosen[c] # NoModel
                   PROVE  settings.pin[c] = chosen[c] /\ (env'.pin[c] = chosen[c] \/ unsaved)
        BY <1>1 DEF Choices
      <3>0. job[t].snap.pin \in [Backends -> Maybe(ChatModels)]
        BY <1>3, ResolveTypes
      <3>1. CASE c = job[t].backend
        BY <1>4, <2>1, <2>4, <3>0, <3>1 DEF Serially, Choices
      <3>2. CASE c # job[t].backend
        BY <1>4, <2>1, <2>4, <3>0, <3>2 DEF Serially, Choices, Snapped
      <3> QED BY <3>1, <3>2
    <2>10. ASSUME ~unsaved' PROVE Mirrored'
      <3>1. Mirrored
        BY <1>1, <2>1, <2>10 DEF Serially
      <3>2. \A u \in Threads : ~Pinning(job[u]) /\ ~Pinning(job'[u])
        BY <1>1, <1>6, <1>7, <2>2 DEF Pinning
      <3> QED BY <1>1, <2>4, <3>1, <3>2 DEF Mirrored, Pinning
    <2>11. (runtime.backend = settings.backend)' /\ NameOfFn' /\ ThresholdsOwn'
      BY <1>1, <2>1 DEF Serially, NameOfFn, ThresholdsOwn
    <2> QED BY <2>5, <2>6, <2>7, <2>8, <2>9, <2>10, <2>11 DEF Serially
  <1> QED BY <1>6, <1>8, <1>9, <1>10, <1>11 DEF Inv, IInv

LEMMA PinFailedInv ==
  ASSUME Inv, NEW t \in Threads, PinFailed(t)
  PROVE  Inv'
  <1>1. /\ UNCHANGED <<settings, env, runtime, controller, memory, active, calibrated, serial,
                       chosen, crossed, begun, lock>>
        /\ unsaved' = TRUE /\ job[t].step = "put" /\ Goes(t, IdleJob)
    BY Idles DEF PinFailed, At, history, Go, Goes
  <1>2. Typed /\ Locked /\ Requests /\ Joined /\ (serial => Serially)
    BY DEF Inv, IInv, SInv
  <1>3. /\ job' \in [Threads -> Job] /\ job'[t] = IdleJob
        /\ \A u \in Threads \ {t} : job'[u] = job[u]
    BY <1>1, <1>2, JobAfter
  <1>4. Locked'
    BY <1>1, <1>2, LockSame, Idles DEF Outside
  <1>5. Typed'
    BY <1>1, <1>2, <1>3 DEF Typed
  <1>6. Requests'
    <2> SUFFICES ASSUME NEW u \in Threads
                 PROVE  Formed(job[u])' /\ Coupled(job[u])'
      BY DEF Requests
    <2>1. CASE u = t
      BY <1>3, <2>1, Idles DEF Coupled, Formed
    <2>2. CASE u # t
      BY <1>1, <1>2, <1>3, <2>2 DEF Requests, Coupled, Formed
    <2> QED BY <2>1, <2>2
  <1>7. Joined'
    BY <1>1, <1>2, <1>3 DEF Joined, At
  <1>8. SInv'
    <2> SUFFICES ASSUME serial PROVE Serially'
      BY <1>1 DEF SInv
    <2>1. Serially
      BY <1>2
    <2>2. ASSUME NEW u \in User', NEW v \in User' PROVE u = v
      BY <1>3, <2>1, <2>2, Idles DEF Serially, User
    <2>3. ASSUME NEW u \in Threads PROVE Alone(job[u])'
      <3>1. CASE u = t
        BY <1>3, <3>1, Idles DEF Alone
      <3>2. CASE u # t
        BY <1>1, <1>3, <2>1, <3>2 DEF Serially, Alone, Snapped
      <3> QED BY <3>1, <3>2
    <2>4. (controller.name = memory.name \/ \E u \in Threads : job[u].step \in {"name", "commit"})'
      BY <1>1, <1>3, <2>1 DEF Serially
    <2>5. (Recovering => Met)'
      BY <1>1, <1>3, <2>1, Idles DEF Serially, Recovering, Met, At, Recovery
    <2>6. Choices'
      BY <1>1, <2>1 DEF Serially, Choices
    <2>7. (runtime.backend = settings.backend)' /\ NameOfFn' /\ ThresholdsOwn'
      BY <1>1, <2>1 DEF Serially, NameOfFn, ThresholdsOwn
    <2> QED BY <1>1, <2>2, <2>3, <2>4, <2>5, <2>6, <2>7 DEF Serially
  <1> QED BY <1>4, <1>5, <1>6, <1>7, <1>8 DEF Inv, IInv

LEMMA PinSet ==
  ASSUME NEW s \in Config, NEW b \in Backends, NEW m \in ChatModels, NEW s2,
         s2 = [s EXCEPT !.pin[b] = m]
  PROVE  /\ s2 \in Config /\ s2.emb = s.emb /\ s2.legacy = s.legacy /\ s2.backend = s.backend
         /\ s2.override = s.override /\ s2.pin[b] = m
         /\ \A c \in Backends : c # b => s2.pin[c] = s.pin[c]
  BY DEF Config, Maybe

\* A recovery changes the override and unset pins, or the pin it picks.
LEMMA AppliedTypes ==
  ASSUME NEW s \in Config, NEW b \in Backends, NEW plan,
         plan.do # "demote" => plan.model \in ChatModels
  PROVE  /\ Applied(s, b, plan) \in Config
         /\ Applied(s, b, plan).emb = s.emb /\ Applied(s, b, plan).legacy = s.legacy
         /\ Applied(s, b, plan).backend = s.backend
         /\ \A c \in Backends : s.pin[c] # NoModel /\ (plan.do = "demote" \/ c # b) =>
                                  Applied(s, b, plan).pin[c] = s.pin[c]
  <1>1. CASE plan.do = "demote"
    <2> DEFINE pin == [c \in Backends |-> IF s.pin[c] = NoModel THEN s.override ELSE s.pin[c]]
    <2>1. Applied(s, b, plan) = [s EXCEPT !.override = NoModel, !.pin = pin]
      BY <1>1 DEF Applied, Demoted
    <2>2. pin \in [Backends -> Maybe(ChatModels)]
      BY ResolveTypes
    <2>3. \A c \in Backends : s.pin[c] # NoModel => pin[c] = s.pin[c]
      OBVIOUS
    <2> HIDE DEF pin
    <2> QED BY <1>1, <2>1, <2>2, <2>3 DEF Config, Maybe
  <1>2. CASE plan.do # "demote"
    <2>1. Applied(s, b, plan) = [s EXCEPT !.pin[b] = plan.model]
      BY <1>2 DEF Applied
    <2> QED BY <1>2, <2>1, PinSet
  <1> QED BY <1>1, <1>2

\* While one request is in the lock the others are outside.
LEMMA HolderNow ==
  ASSUME Inv, NEW t \in Threads, job[t].step \notin Outside
  PROVE  \A u \in Threads \ {t} : job[u].step \in Outside
  BY Exclusive DEF Inv, IInv

\* What a step of the holder leaves of the users, when it stays or leaves.
LEMMA UsersKept ==
  ASSUME Inv, serial, NEW t \in Threads, NEW r, job'[t] = r, r.kind \in {job[t].kind, "none"},
         \A u \in Threads \ {t} : job'[u].kind = job[u].kind
  PROVE  \A u, v \in User' : u = v
  BY DEF Inv, SInv, Serially, User

\* A step of the holder that changes the settings or .env, but not who waits.
LEMMA ApplyInv ==
  ASSUME Inv, NEW t \in Threads, Apply(t)
  PROVE  Inv'
  <1> DEFINE demotes == job[t].plan.do = "demote"
             b == job[t].backend
  <1>1. /\ UNCHANGED <<env, runtime, controller, memory, active, calibrated, lock, begun, serial,
                       chosen, crossed, unsaved>>
        /\ settings' = Applied(settings, b, job[t].plan) /\ job[t].step = "apply"
    BY DEF Apply, At, history
  <1>2. Typed /\ Locked /\ Requests /\ Joined /\ (serial => Serially)
    BY DEF Inv, IInv, SInv
  <1>3. /\ job[t] \in Job /\ Formed(job[t]) /\ job[t].kind \in {"switch", "poll"} /\ b \in Backends
        /\ job[t].plan.do \in {"demote", "autopick"} /\ (~demotes => job[t].plan.model \in ChatModels)
    <2>1. job[t] \in Job /\ Formed(job[t])
      BY <1>2 DEF Requests, Typed
    <2>2. job[t].kind \in {"switch", "poll"}
      BY <1>1, <2>1 DEF Formed, Job, Kinds
    <2> QED BY <1>1, <2>1, <2>2 DEF Formed
  <1>4. /\ settings' \in Config /\ settings'.emb = settings.emb /\ settings'.legacy = settings.legacy
        /\ settings'.backend = settings.backend
        /\ \A c \in Backends : /\ settings.pin[c] # NoModel /\ (demotes \/ c # b) =>
                                     settings'.pin[c] = settings.pin[c]
    BY <1>1, <1>2, <1>3, AppliedTypes DEF Typed
  <1>5. \E r : /\ Goes(t, r) /\ r.kind = job[t].kind /\ r.backend = b /\ r.plan = job[t].plan
               /\ \/ demotes /\ r.step = "recheck"
                  \/ ~demotes /\ r.step = "replace" /\ r.snap = env
    <2>1. CASE demotes
      <3> DEFINE r == [job[t] EXCEPT !.step = "recheck"]
      <3>1. job' = [job EXCEPT ![t] = r]
        BY <2>1 DEF Apply, Go
      <3>2. /\ r \in Job /\ r.kind = job[t].kind /\ r.step = "recheck" /\ r.plan = job[t].plan
            /\ r.backend = b /\ r.cand = job[t].cand /\ r.health = job[t].health
            /\ r.model = job[t].model
        BY <1>3 DEF Job, Steps
      <3> HIDE DEF r
      <3>3. Formed(r)
        BY <1>1, <1>3, <3>2 DEF Formed
      <3> QED BY <2>1, <3>1, <3>2, <3>3 DEF Goes
    <2>2. CASE ~demotes
      <3> DEFINE r == [job[t] EXCEPT !.step = "replace", !.snap = env]
      <3>1. job' = [job EXCEPT ![t] = r]
        BY <2>2 DEF Apply, Go
      <3>2. /\ r \in Job /\ r.kind = job[t].kind /\ r.step = "replace" /\ r.plan = job[t].plan
            /\ r.backend = b /\ r.cand = job[t].cand /\ r.health = job[t].health
            /\ r.model = job[t].model /\ r.snap = env /\ env \in Config
        BY <1>2, <1>3 DEF Job, Steps, Typed
      <3> HIDE DEF r
      <3>3. Formed(r)
        BY <1>1, <1>3, <2>2, <3>2 DEF Formed
      <3> QED BY <2>2, <3>1, <3>2, <3>3 DEF Goes
    <2> QED BY <2>1, <2>2
  <1>6. PICK r : /\ Goes(t, r) /\ r.kind = job[t].kind /\ r.backend = b /\ r.plan = job[t].plan
                 /\ r.step \in {"recheck", "replace"} /\ (r.step = "replace" => r.snap = env /\ ~demotes)
    BY <1>5
  <1> HIDE DEF demotes
  <1>7. job' \in [Threads -> Job] /\ job'[t] = r /\ \A u \in Threads \ {t} : job'[u] = job[u]
    BY <1>2, <1>6, JobAfter
  <1>8. Locked' /\ \A u \in Threads \ {t} : job[u].step \in Outside
    BY <1>1, <1>2, <1>6, LockSame, HolderNow DEF Outside
  <1>9. Typed'
    BY <1>1, <1>2, <1>4, <1>7 DEF Typed
  <1>10. Requests'
    <2> SUFFICES ASSUME NEW u \in Threads
                 PROVE  Formed(job[u])' /\ Coupled(job[u])'
      BY DEF Requests
    <2>1. CASE u = t
      BY <1>3, <1>6, <1>7, <2>1 DEF Coupled, Formed, Goes
    <2>2. CASE u # t
      BY <1>1, <1>2, <1>4, <1>7, <2>2 DEF Requests, Coupled, Formed, ResolveEmb
    <2> QED BY <2>1, <2>2
  <1>11. Joined'
    BY <1>1, <1>2, <1>7 DEF Joined, At
  <1>12. SInv'
    <2> SUFFICES ASSUME serial PROVE Serially'
      BY <1>1 DEF SInv
    <2>1. Serially /\ Alone(job[t]) /\ Met
      BY <1>1, <1>2 DEF Serially, Recovering, Recovery
    <2>2. ~demotes => (chosen[b] = NoModel \/ b \in crossed) /\ Lists(b, job[t].plan.model)
      <3>1. ~demotes => job[t].plan.do = "autopick"
        BY <1>3 DEF demotes
      <3> QED BY <1>1, <2>1, <3>1 DEF Alone, Recovery
    <2>3. ASSUME NEW u \in Threads PROVE Alone(job[u])'
      <3>1. CASE u = t
        <4>1. r.step = "replace" => Snapped(job[t])'
          BY <1>1, <1>6, <1>7, <2>1 DEF Snapped, Serially, Choices, Met
        <4> QED BY <1>1, <1>3, <1>4, <1>6, <1>7, <2>1, <2>2, <3>1, <4>1 DEF Alone, demotes
      <3>2. CASE u # t
        BY <1>1, <1>4, <1>7, <2>1, <3>2 DEF Serially, Alone, Snapped
      <3> QED BY <3>1, <3>2
    <2>4. (controller.name = memory.name \/ \E u \in Threads : job[u].step \in {"name", "commit"})'
      BY <1>1, <1>7, <2>1 DEF Serially
    <2>5. (Recovering => Met)'
      BY <1>1, <1>6, <1>7, <2>1 DEF Met, At
    <2>6. Choices'
      <3> SUFFICES ASSUME NEW c \in Backends \ crossed, chosen[c] # NoModel
                   PROVE  settings'.pin[c] = chosen[c] /\ (env.pin[c] = chosen[c] \/ unsaved)
        BY <1>1 DEF Choices
      <3> QED BY <1>4, <2>1, <2>2 DEF Serially, Choices, Met
    <2>7. ASSUME ~unsaved' PROVE Mirrored'
      <3>1. Mirrored
        BY <1>1, <2>1, <2>7 DEF Serially
      <3>2. ~Pinning(job[t]) /\ ~Pinning(r)
        BY <1>1, <1>6 DEF Pinning
      <3> QED BY <1>1, <1>4, <1>7, <3>1, <3>2 DEF Mirrored, Pinning
    <2>8. (runtime.backend = settings.backend)' /\ NameOfFn' /\ ThresholdsOwn'
      BY <1>1, <1>4, <2>1 DEF Serially, NameOfFn, ThresholdsOwn
    <2>9. \A u, v \in User' : u = v
      BY <1>6, <1>7, UsersKept
    <2> QED BY <2>3, <2>4, <2>5, <2>6, <2>7, <2>8, <2>9 DEF Serially
  <1> QED BY <1>8, <1>9, <1>10, <1>11, <1>12 DEF Inv, IInv

LEMMA ReplaceInv ==
  ASSUME Inv, NEW t \in Threads, Replace(t)
  PROVE  Inv'
  <1> DEFINE b == job[t].backend
             r == [job[t] EXCEPT !.step = "recheck", !.snap = NoModel]
             snap == job[t].snap
  <1>1. /\ UNCHANGED <<settings, runtime, controller, memory, active, calibrated, lock, begun, serial,
                       chosen, crossed>>
        /\ job' = [job EXCEPT ![t] = r] /\ job[t].step = "replace"
        /\ \/ env' = [snap EXCEPT !.pin[b] = job[t].plan.model] /\ UNCHANGED unsaved
           \/ unsaved' = TRUE /\ UNCHANGED env
    BY DEF Replace, At, Go, history
  <1>2. Typed /\ Locked /\ Requests /\ Joined /\ (serial => Serially)
    BY DEF Inv, IInv, SInv
  <1>3. /\ job[t] \in Job /\ Formed(job[t]) /\ job[t].kind \in {"switch", "poll"} /\ b \in Backends
        /\ job[t].plan.model \in ChatModels /\ snap \in Config /\ job[t].plan.do = "autopick"
    <2>1. job[t] \in Job /\ Formed(job[t])
      BY <1>2 DEF Requests, Typed
    <2>2. job[t].kind \in {"switch", "poll"}
      BY <1>1, <2>1 DEF Formed, Job, Kinds
    <2> QED BY <1>1, <2>1, <2>2 DEF Formed
  <1> HIDE DEF snap
  <1>4. /\ env' \in Config
        /\ env' = env \/ /\ env'.emb = snap.emb /\ env'.legacy = snap.legacy
                         /\ env'.backend = snap.backend
                         /\ \A c \in Backends : c # b => env'.pin[c] = snap.pin[c]
    <2>1. CASE env' = [snap EXCEPT !.pin[b] = job[t].plan.model]
      BY <1>3, <2>1, PinSet
    <2> QED BY <1>1, <1>2, <2>1 DEF Typed
  <1>5. /\ r \in Job /\ r.kind = job[t].kind /\ r.step = "recheck" /\ r.plan = job[t].plan
        /\ r.backend = b /\ r.cand = job[t].cand /\ r.health = job[t].health
        /\ r.model = job[t].model
    BY <1>3 DEF Job, Steps, Maybe
  <1> HIDE DEF r
  <1>6. Formed(r)
    BY <1>1, <1>3, <1>5 DEF Formed
  <1>7. Goes(t, r)
    BY <1>1, <1>5, <1>6 DEF Goes
  <1>8. job' \in [Threads -> Job] /\ job'[t] = r /\ \A u \in Threads \ {t} : job'[u] = job[u]
    BY <1>2, <1>7, JobAfter
  <1>9. Locked' /\ \A u \in Threads \ {t} : job[u].step \in Outside
    BY <1>1, <1>2, <1>5, <1>7, LockSame, HolderNow DEF Outside
  <1>10. Typed'
    BY <1>1, <1>2, <1>4, <1>8 DEF Typed
  <1>11. Requests'
    <2> SUFFICES ASSUME NEW u \in Threads
                 PROVE  Formed(job[u])' /\ Coupled(job[u])'
      BY DEF Requests
    <2>1. CASE u = t
      BY <1>3, <1>5, <1>6, <1>8, <2>1 DEF Coupled, Formed
    <2>2. CASE u # t
      BY <1>1, <1>2, <1>8, <2>2 DEF Requests, Coupled, Formed
    <2> QED BY <2>1, <2>2
  <1>12. Joined'
    BY <1>1, <1>2, <1>8 DEF Joined, At
  <1>13. SInv'
    <2> SUFFICES ASSUME serial PROVE Serially'
      BY <1>1 DEF SInv
    <2>1. /\ Serially /\ Alone(job[t]) /\ Met /\ Snapped(job[t])
          /\ chosen[b] = NoModel \/ b \in crossed
          /\ Lists(b, job[t].plan.model)
      BY <1>1, <1>2, <1>3 DEF Serially, Recovering, Recovery, Alone, snap
    <2>a. /\ env'.emb = env.emb /\ env'.legacy = env.legacy /\ env'.backend = env.backend
          /\ unsaved => unsaved'
      BY <1>1, <1>4, <2>1 DEF Snapped, snap
    <2>2. ASSUME NEW u \in Threads PROVE Alone(job[u])'
      <3>1. CASE u = t
        BY <1>1, <1>3, <1>5, <1>8, <2>1, <3>1 DEF Alone, Recovery
      <3>2. CASE u # t
        <4>1. job[u].step = "put" => Snapped(job[u])'
          BY <1>1, <1>8, <2>1, <2>a, <3>2 DEF Serially, Alone, Snapped
        <4>2. job[u].step # "replace"
          BY <1>9, <3>2 DEF Outside
        <4> QED BY <1>1, <1>8, <2>1, <3>2, <4>1, <4>2 DEF Serially, Alone
      <3> QED BY <3>1, <3>2
    <2>3. (controller.name = memory.name \/ \E u \in Threads : job[u].step \in {"name", "commit"})'
      BY <1>1, <1>8, <2>1 DEF Serially
    <2>4. (Recovering => Met)'
      BY <1>1, <1>5, <1>8, <2>1 DEF Met, At
    <2>5. Choices'
      <3> SUFFICES ASSUME NEW c \in Backends \ crossed, chosen[c] # NoModel
                   PROVE  settings.pin[c] = chosen[c] /\ (env'.pin[c] = chosen[c] \/ unsaved')
        BY <1>1 DEF Choices
      <3>1. settings.pin[c] = chosen[c] /\ (env.pin[c] = chosen[c] \/ unsaved)
        BY <2>1 DEF Serially, Choices, Met
      <3>2. snap.pin[c] = chosen[c] \/ unsaved
        BY <1>1, <2>1 DEF Snapped, snap
      <3> QED BY <1>1, <1>4, <2>1, <3>1, <3>2
    <2>6. ASSUME ~unsaved' PROVE Mirrored'
      <3>1. Mirrored
        BY <1>1, <2>1, <2>6 DEF Serially
      <3>2. ~Pinning(job[t]) /\ ~Pinning(r)
        BY <1>1, <1>5 DEF Pinning
      <3> QED BY <1>1, <1>8, <2>a, <3>1, <3>2 DEF Mirrored, Pinning
    <2>7. (runtime.backend = settings.backend)' /\ NameOfFn' /\ ThresholdsOwn'
      BY <1>1, <2>1 DEF Serially, NameOfFn, ThresholdsOwn
    <2>8. \A u, v \in User' : u = v
      BY <1>5, <1>8, UsersKept
    <2> QED BY <2>2, <2>3, <2>4, <2>5, <2>6, <2>7, <2>8 DEF Serially
  <1> QED BY <1>9, <1>10, <1>11, <1>12, <1>13 DEF Inv, IInv

LEMMA SetEmbPinInv ==
  ASSUME Inv, NEW t \in Threads, SetEmbPin(t)
  PROVE  Inv'
  <1> DEFINE b == job[t].backend
             r == [job[t] EXCEPT !.step = "source", !.snap = settings.legacy]
  <1>1. /\ UNCHANGED <<env, runtime, controller, memory, active, calibrated, lock, begun, serial,
                       chosen, crossed, unsaved>>
        /\ settings' = [settings EXCEPT !.emb[b] = job[t].model, !.legacy = NoModel]
        /\ job' = [job EXCEPT ![t] = r] /\ job[t].step = "checked" /\ job[t].kind = "emb"
        /\ job[t].model \in job[t].health.models \cup {NoModel}
    BY DEF SetEmbPin, At, Go, history
  <1>2. Typed /\ Locked /\ Requests /\ Joined /\ (serial => Serially)
    BY DEF Inv, IInv, SInv
  <1>3. /\ job[t] \in Job /\ Formed(job[t]) /\ b \in Backends /\ job[t].model \in Maybe(EmbModels)
        /\ job[t].cand.backend = b /\ job[t].cand.emb = job[t].model /\ job[t].health \in Healths(b)
        /\ job[t].plan.do # "autopick"
    <2>1. job[t] \in Job /\ Formed(job[t])
      BY <1>2 DEF Requests, Typed
    <2> QED BY <1>1, <2>1 DEF Formed
  <1>4. job[t].model # NoModel => Lists(b, job[t].model)
    BY <1>1, <1>3, HealthTypes
  <1>5. /\ settings' \in Config /\ settings'.pin = settings.pin /\ settings'.backend = settings.backend
        /\ settings'.emb = [settings.emb EXCEPT ![b] = job[t].model] /\ settings'.legacy = NoModel
        /\ settings'.emb[b] = job[t].model /\ settings.legacy \in Maybe(EmbModels)
    BY <1>1, <1>2, <1>3 DEF Typed, Config, Maybe
  <1>6. /\ r \in Job /\ r.kind = "emb" /\ r.step = "source" /\ r.plan = job[t].plan
        /\ r.backend = b /\ r.cand = job[t].cand /\ r.health = job[t].health
        /\ r.model = job[t].model /\ r.snap = settings.legacy
    BY <1>1, <1>3, <1>5 DEF Job, Steps, Maybe
  <1> HIDE DEF r
  <1>7. Formed(r)
    BY <1>1, <1>3, <1>4, <1>5, <1>6 DEF Formed
  <1>8. Goes(t, r)
    BY <1>1, <1>6, <1>7 DEF Goes
  <1>9. job' \in [Threads -> Job] /\ job'[t] = r /\ \A u \in Threads \ {t} : job'[u] = job[u]
    BY <1>2, <1>8, JobAfter
  <1>10. Locked' /\ \A u \in Threads \ {t} : job[u].step \in Outside
    BY <1>1, <1>2, <1>6, <1>8, LockSame, HolderNow DEF Outside
  <1>11. Typed'
    BY <1>1, <1>2, <1>5, <1>9 DEF Typed
  <1>12. Requests'
    <2> SUFFICES ASSUME NEW u \in Threads
                 PROVE  Formed(job[u])' /\ Coupled(job[u])'
      BY DEF Requests
    <2>1. CASE u = t
      BY <1>5, <1>6, <1>7, <1>9, <2>1 DEF Coupled, Formed
    <2>2. CASE u # t
      BY <1>1, <1>2, <1>9, <1>10, <2>2 DEF Requests, Coupled, Formed, Outside
    <2> QED BY <2>1, <2>2
  <1>13. Joined'
    BY <1>1, <1>2, <1>9 DEF Joined, At
  <1>14. SInv'
    <2> SUFFICES ASSUME serial PROVE Serially'
      BY <1>1 DEF SInv
    <2>1. Serially /\ Alone(job[t])
      BY <1>2 DEF Serially
    <2>2. ASSUME NEW u \in Threads PROVE Alone(job[u])'
      <3>1. CASE u = t
        BY <1>1, <1>3, <1>5, <1>6, <1>9, <2>1, <3>1 DEF Alone
      <3>2. CASE u # t
        BY <1>1, <1>5, <1>9, <2>1, <3>2 DEF Serially, Alone, Snapped
      <3> QED BY <3>1, <3>2
    <2>3. (controller.name = memory.name \/ \E u \in Threads : job[u].step \in {"name", "commit"})'
      BY <1>1, <1>9, <2>1 DEF Serially
    <2>4. (Recovering => Met)'
      BY <1>6, <1>9, <1>10, <2>1 DEF Recovering, Met, At, Recovery, Outside
    <2>5. Choices'
      BY <1>1, <1>5, <1>9, <2>1 DEF Serially, Choices, At
    <2>6. ASSUME ~unsaved' PROVE Mirrored'
      <3>1. Mirrored
        BY <1>1, <2>1, <2>6 DEF Serially
      <3>2. /\ ~Pinning(job[t]) /\ Pinning(r)
            /\ \A u \in Threads \ {t} : ~Pinning(job[u])
        BY <1>1, <1>6, <1>10 DEF Pinning, Outside
      <3>3. env.emb = settings.emb /\ env.legacy = settings.legacy /\ env.backend = settings.backend
        BY <3>1, <3>2 DEF Mirrored
      <3>4. ASSUME NEW u \in Threads, Pinning(job'[u]) PROVE u = t
        BY <1>9, <3>2, <3>4
      <3>5. Pinning(job'[t])
        BY <1>9, <3>2
      <3>6. /\ settings'.emb = [env.emb EXCEPT ![job'[t].backend] = job'[t].model]
            /\ settings'.legacy = NoModel /\ job'[t].snap = env.legacy
        BY <1>5, <1>6, <1>9, <3>3
      <3> QED BY <1>1, <1>5, <3>3, <3>4, <3>5, <3>6 DEF Mirrored, Pinning
    <2>7. (runtime.backend = settings.backend)' /\ NameOfFn' /\ ThresholdsOwn'
      BY <1>1, <1>5, <2>1 DEF Serially, NameOfFn, ThresholdsOwn
    <2>8. \A u, v \in User' : u = v
      BY <1>1, <1>6, <1>9, UsersKept
    <2> QED BY <2>2, <2>3, <2>4, <2>5, <2>6, <2>7, <2>8 DEF Serially
  <1> QED BY <1>10, <1>11, <1>12, <1>13, <1>14 DEF Inv, IInv

-----------------------------------------------------------------------------
(* The embedding source, calibration and the swap                          *)

LEMMA SetSourceInv ==
  ASSUME Inv, NEW t \in Threads, SetSource(t)
  PROVE  Inv'
  <1> DEFINE b == job[t].backend
             emb == job[t].cand.emb
             r == [job[t] EXCEPT !.step = "name"]
  <1>1. /\ UNCHANGED <<settings, env, runtime, controller, active, calibrated, lock, begun, serial,
                       chosen, crossed, unsaved>>
        /\ memory' = [fn |-> NewFn(t), name |-> NewName(t)]
        /\ job' = [job EXCEPT ![t] = r] /\ job[t].step = "source"
    BY DEF SetSource, At, Go, Goto, history
  <1>2. Typed /\ Locked /\ Requests /\ Joined /\ (serial => Serially)
    BY DEF Inv, IInv, SInv
  <1>3. /\ job[t] \in Job /\ Formed(job[t]) /\ Coupled(job[t]) /\ b \in Backends
        /\ job[t].kind \in {"switch", "emb"} /\ job[t].cand.backend = b
        /\ job[t].plan.do # "autopick" /\ (emb # NoModel => Lists(b, emb))
    <2>1. job[t] \in Job /\ Formed(job[t]) /\ Coupled(job[t])
      BY <1>2 DEF Requests, Typed
    <2>2. job[t].kind \in {"switch", "emb"}
      BY <1>1, <2>1 DEF Formed, Job, Kinds
    <2> QED BY <1>1, <2>1, <2>2 DEF Formed
  <1>4. emb \in Maybe(EmbModels)
    BY <1>3 DEF Job, Cand, NoCand, Maybe
  <1>5. /\ NewFn(t) \in Fn /\ NewFn(t).model = emb
        /\ NewFn(t) # NoFn => Lists(NewFn(t).backend, NewFn(t).model)
    <2>1. CASE emb = NoModel
      BY <2>1 DEF NewFn, NoFn, Fn, Maybe
    <2>2. CASE emb # NoModel
      BY <1>3, <1>4, <2>2 DEF NewFn, Fn, Maybe
    <2> QED BY <2>1, <2>2
  <1>6. NewName(t) \in Maybe(EmbModels)
    BY <1>2, <1>3, ResolveTypes DEF NewName, Typed, Maybe
  <1>7. /\ memory' \in [fn : Fn, name : Maybe(EmbModels)] /\ memory'.fn = NewFn(t)
        /\ memory'.name = NewName(t)
    BY <1>1, <1>5, <1>6
  <1>8. /\ r \in Job /\ r.kind = job[t].kind /\ r.step = "name" /\ r.plan = job[t].plan
        /\ r.backend = b /\ r.cand = job[t].cand /\ r.health = job[t].health
        /\ r.model = job[t].model /\ r.snap = job[t].snap
    BY <1>3 DEF Job, Steps
  <1> HIDE DEF r
  <1>9. Formed(r)
    BY <1>1, <1>3, <1>8 DEF Formed
  <1>10. Goes(t, r)
    BY <1>1, <1>8, <1>9 DEF Goes
  <1>11. job' \in [Threads -> Job] /\ job'[t] = r /\ \A u \in Threads \ {t} : job'[u] = job[u]
    BY <1>2, <1>10, JobAfter
  <1>12. Locked' /\ \A u \in Threads \ {t} : job[u].step \in Outside
    BY <1>1, <1>2, <1>8, <1>10, LockSame, HolderNow DEF Outside
  <1>13. Typed'
    BY <1>1, <1>2, <1>7, <1>11 DEF Typed
  <1>14. Requests'
    <2> SUFFICES ASSUME NEW u \in Threads
                 PROVE  Formed(job[u])' /\ Coupled(job[u])'
      BY DEF Requests
    <2>1. CASE u = t
      BY <1>3, <1>8, <1>9, <1>11, <2>1 DEF Coupled, Formed
    <2>2. CASE u # t
      BY <1>1, <1>2, <1>11, <2>2 DEF Requests, Coupled, Formed
    <2> QED BY <2>1, <2>2
  <1>15. Joined'
    BY <1>1, <1>2, <1>5, <1>7, <1>8, <1>11 DEF Joined, At
  <1>16. SInv'
    <2> SUFFICES ASSUME serial PROVE Serially'
      BY <1>1 DEF SInv
    <2>1. Serially /\ Alone(job[t])
      BY <1>2 DEF Serially
    <2>2. ASSUME NEW u \in Threads PROVE Alone(job[u])'
      <3>1. CASE u = t
        BY <1>1, <1>3, <1>8, <1>11, <2>1, <3>1 DEF Alone
      <3>2. CASE u # t
        BY <1>1, <1>11, <2>1, <3>2 DEF Serially, Alone, Snapped
      <3> QED BY <3>1, <3>2
    <2>3. (controller.name = memory.name \/ \E u \in Threads : job[u].step \in {"name", "commit"})'
      BY <1>8, <1>11
    <2>4. (Recovering => Met)'
      BY <1>8, <1>11, <1>12 DEF Recovering, Met, At, Recovery, Outside
    <2>5. Choices'
      BY <1>1, <1>8, <1>11, <2>1 DEF Serially, Choices, At
    <2>6. ASSUME ~unsaved' PROVE Mirrored'
      <3>1. Mirrored
        BY <1>1, <2>1, <2>6 DEF Serially
      <3>2. Pinning(job[t]) <=> Pinning(r)
        BY <1>1, <1>8 DEF Pinning
      <3>3. \A u \in Threads : /\ Pinning(job'[u]) <=> Pinning(job[u])
                               /\ job'[u].backend = job[u].backend /\ job'[u].model = job[u].model
                               /\ job'[u].snap = job[u].snap
        BY <1>8, <1>11, <3>2
      <3> QED BY <1>1, <3>1, <3>3 DEF Mirrored, Pinning
    <2>7. NameOfFn'
      <3>1. NewName(t) = emb
        <4>1. CASE emb = NoModel
          BY <4>1 DEF NewName, NewFn
        <4>2. CASE emb # NoModel /\ job[t].kind = "switch"
          BY <1>1, <1>3, <1>5, <4>2 DEF NewName, NoFn, Coupled
        <4>3. CASE emb # NoModel /\ job[t].kind = "emb"
          <5>1. /\ settings.emb[b] = job[t].model /\ settings.legacy = NoModel
                /\ emb = job[t].model /\ b = settings.backend
            BY <1>1, <1>3, <2>1, <4>3 DEF Coupled, Formed, Alone
          <5> QED BY <1>5, <4>3, <5>1 DEF NewName, NoFn, ResolveEmb
        <4> QED BY <1>3, <4>1, <4>2, <4>3
      <3> QED BY <1>5, <1>7, <3>1 DEF NameOfFn
    <2>8. (runtime.backend = settings.backend)' /\ ThresholdsOwn'
      BY <1>1, <2>1 DEF Serially, ThresholdsOwn
    <2>9. \A u, v \in User' : u = v
      BY <1>8, <1>11, UsersKept
    <2> QED BY <2>2, <2>3, <2>4, <2>5, <2>6, <2>7, <2>8, <2>9 DEF Serially
  <1> QED BY <1>12, <1>13, <1>14, <1>15, <1>16 DEF Inv, IInv

\* A measurement leaves the thresholds typed, and each its own if it is.
LEMMA MeasuredTypes ==
  ASSUME Typed, NEW name \in EmbModels, NEW by \in Maybe(EmbModels), Measured(name, by)
  PROVE  /\ calibrated' \subseteq [name : EmbModels, by : Maybe(EmbModels)]
         /\ ThresholdsOwn /\ by = name => ThresholdsOwn'
  BY DEF Typed, Measured, ThresholdsOwn

LEMMA SetNameInv ==
  ASSUME Inv, NEW t \in Threads, SetName(t)
  PROVE  Inv'
  <1> DEFINE b == job[t].backend
             r == [job[t] EXCEPT !.step = "commit"]
  <1>1. /\ UNCHANGED <<settings, env, runtime, controller, memory, lock, begun, serial, chosen, crossed,
                       unsaved>>
        /\ active' = [name |-> memory.name, backend |-> memory.fn.backend]
        /\ Calibrate(memory.name, memory.fn)
        /\ job' = [job EXCEPT ![t] = r] /\ job[t].step = "name"
    BY DEF SetName, At, Go, Goto, history
  <1>2. Typed /\ Locked /\ Requests /\ Joined /\ (serial => Serially)
    BY DEF Inv, IInv, SInv
  <1>3. /\ job[t] \in Job /\ Formed(job[t]) /\ Coupled(job[t]) /\ b \in Backends
        /\ job[t].kind \in {"switch", "emb"} /\ job[t].cand.backend = b
        /\ job[t].plan.do # "autopick"
    <2>1. job[t] \in Job /\ Formed(job[t]) /\ Coupled(job[t])
      BY <1>2 DEF Requests, Typed
    <2>2. job[t].kind \in {"switch", "emb"}
      BY <1>1, <2>1 DEF Formed, Job, Kinds
    <2> QED BY <1>1, <2>1, <2>2 DEF Formed
  <1>4. /\ memory.name \in Maybe(EmbModels) /\ memory.fn.model \in Maybe(EmbModels)
        /\ memory.fn.backend \in Maybe(Backends)
    BY <1>2 DEF Typed, Fn
  <1>5. /\ calibrated' \subseteq [name : EmbModels, by : Maybe(EmbModels)]
        /\ ThresholdsOwn /\ NameOfFn => ThresholdsOwn'
    <2>1. CASE UNCHANGED calibrated
      BY <1>2, <2>1 DEF Typed, ThresholdsOwn
    <2>2. CASE memory.name # NoModel /\ Measured(memory.name, memory.fn.model)
      BY <1>2, <1>4, <2>2, MeasuredTypes DEF Maybe, NameOfFn
    <2> QED BY <1>1, <2>1, <2>2 DEF Calibrate
  <1>6. /\ active' \in [name : Maybe(EmbModels), backend : Maybe(Backends)]
        /\ active'.name = memory.name /\ active'.backend = memory.fn.backend
    BY <1>1, <1>4
  <1>7. /\ r \in Job /\ r.kind = job[t].kind /\ r.step = "commit" /\ r.plan = job[t].plan
        /\ r.backend = b /\ r.cand = job[t].cand /\ r.health = job[t].health
        /\ r.model = job[t].model /\ r.snap = job[t].snap
    BY <1>3 DEF Job, Steps
  <1> HIDE DEF r
  <1>8. Formed(r)
    BY <1>1, <1>3, <1>7 DEF Formed
  <1>9. Goes(t, r)
    BY <1>1, <1>7, <1>8 DEF Goes
  <1>10. job' \in [Threads -> Job] /\ job'[t] = r /\ \A u \in Threads \ {t} : job'[u] = job[u]
    BY <1>2, <1>9, JobAfter
  <1>11. Locked' /\ \A u \in Threads \ {t} : job[u].step \in Outside
    BY <1>1, <1>2, <1>7, <1>9, LockSame, HolderNow DEF Outside
  <1>12. Typed'
    BY <1>1, <1>2, <1>5, <1>6, <1>10 DEF Typed
  <1>13. Requests'
    <2> SUFFICES ASSUME NEW u \in Threads
                 PROVE  Formed(job[u])' /\ Coupled(job[u])'
      BY DEF Requests
    <2>1. CASE u = t
      BY <1>3, <1>7, <1>8, <1>10, <2>1 DEF Coupled, Formed
    <2>2. CASE u # t
      BY <1>1, <1>2, <1>10, <2>2 DEF Requests, Coupled, Formed
    <2> QED BY <2>1, <2>2
  <1>14. Joined'
    BY <1>1, <1>2, <1>6, <1>7, <1>10 DEF Joined, At
  <1>15. SInv'
    <2> SUFFICES ASSUME serial PROVE Serially'
      BY <1>1 DEF SInv
    <2>1. Serially /\ Alone(job[t])
      BY <1>2 DEF Serially
    <2>2. ASSUME NEW u \in Threads PROVE Alone(job[u])'
      <3>1. CASE u = t
        BY <1>1, <1>3, <1>7, <1>10, <2>1, <3>1 DEF Alone
      <3>2. CASE u # t
        <4>1. job[u].kind # "reembed"
          BY <1>3, <2>1, <3>2 DEF Serially, User
        <4> QED BY <1>1, <1>10, <2>1, <3>2, <4>1 DEF Serially, Alone, Snapped
      <3> QED BY <3>1, <3>2
    <2>3. (controller.name = memory.name \/ \E u \in Threads : job[u].step \in {"name", "commit"})'
      BY <1>7, <1>10
    <2>4. (Recovering => Met)'
      BY <1>7, <1>10, <1>11 DEF Recovering, Met, At, Recovery, Outside
    <2>5. Choices'
      BY <1>1, <1>7, <1>10, <2>1 DEF Serially, Choices, At
    <2>6. ASSUME ~unsaved' PROVE Mirrored'
      <3>1. Mirrored
        BY <1>1, <2>1, <2>6 DEF Serially
      <3>2. Pinning(job[t]) <=> Pinning(r)
        BY <1>1, <1>7 DEF Pinning
      <3>3. \A u \in Threads : /\ Pinning(job'[u]) <=> Pinning(job[u])
                               /\ job'[u].backend = job[u].backend /\ job'[u].model = job[u].model
                               /\ job'[u].snap = job[u].snap
        BY <1>7, <1>10, <3>2
      <3> QED BY <1>1, <3>1, <3>3 DEF Mirrored, Pinning
    <2>7. (runtime.backend = settings.backend)' /\ NameOfFn' /\ ThresholdsOwn'
      BY <1>1, <1>5, <2>1 DEF Serially, NameOfFn
    <2>8. \A u, v \in User' : u = v
      BY <1>7, <1>10, UsersKept
    <2> QED BY <2>2, <2>3, <2>4, <2>5, <2>6, <2>7, <2>8 DEF Serially
  <1> QED BY <1>11, <1>12, <1>13, <1>14, <1>15 DEF Inv, IInv

LEMMA RemeasureInv ==
  ASSUME Inv, NEW t \in Threads, Remeasure(t)
  PROVE  Inv'
  <1> DEFINE r == [job[t] EXCEPT !.step = "rebuild"]
  <1>1. /\ UNCHANGED <<settings, env, runtime, controller, memory, active, lock, begun, serial,
                       chosen, crossed, unsaved>>
        /\ Measured(job[t].model, memory.fn.model)
        /\ job' = [job EXCEPT ![t] = r] /\ job[t].step = "measure"
    BY DEF Remeasure, At, Go, Goto, history
  <1>2. Typed /\ Locked /\ Requests /\ Joined /\ (serial => Serially)
    BY DEF Inv, IInv, SInv
  <1>3. /\ job[t] \in Job /\ Formed(job[t]) /\ job[t].kind = "reembed" /\ job[t].model \in EmbModels
        /\ job[t].plan.do # "autopick"
    <2>1. job[t] \in Job /\ Formed(job[t])
      BY <1>2 DEF Requests, Typed
    <2>2. job[t].kind = "reembed"
      BY <1>1, <2>1 DEF Formed, Job, Kinds
    <2> QED BY <1>1, <2>1, <2>2 DEF Formed
  <1>4. memory.fn.model \in Maybe(EmbModels)
    BY <1>2 DEF Typed, Fn
  <1>5. /\ calibrated' \subseteq [name : EmbModels, by : Maybe(EmbModels)]
        /\ ThresholdsOwn /\ memory.fn.model = job[t].model => ThresholdsOwn'
    BY <1>1, <1>2, <1>3, <1>4, MeasuredTypes
  <1>6. /\ r \in Job /\ r.kind = "reembed" /\ r.step = "rebuild" /\ r.plan = job[t].plan
        /\ r.model = job[t].model
    BY <1>3 DEF Job, Steps
  <1> HIDE DEF r
  <1>7. Formed(r)
    BY <1>1, <1>3, <1>6 DEF Formed
  <1>8. Goes(t, r)
    BY <1>1, <1>6, <1>7 DEF Goes
  <1>9. job' \in [Threads -> Job] /\ job'[t] = r /\ \A u \in Threads \ {t} : job'[u] = job[u]
    BY <1>2, <1>8, JobAfter
  <1>10. Locked' /\ \A u \in Threads \ {t} : job[u].step \in Outside
    BY <1>1, <1>2, <1>6, <1>8, LockSame, HolderNow DEF Outside
  <1>11. Typed'
    BY <1>1, <1>2, <1>5, <1>9 DEF Typed
  <1>12. Requests'
    <2> SUFFICES ASSUME NEW u \in Threads
                 PROVE  Formed(job[u])' /\ Coupled(job[u])'
      BY DEF Requests
    <2>1. CASE u = t
      BY <1>3, <1>6, <1>7, <1>9, <2>1 DEF Coupled, Formed
    <2>2. CASE u # t
      BY <1>1, <1>2, <1>9, <2>2 DEF Requests, Coupled, Formed
    <2> QED BY <2>1, <2>2
  <1>13. Joined'
    BY <1>1, <1>2, <1>9 DEF Joined, At
  <1>14. SInv'
    <2> SUFFICES ASSUME serial PROVE Serially'
      BY <1>1 DEF SInv
    <2>1. Serially /\ Alone(job[t])
      BY <1>2 DEF Serially
    <2>2. ASSUME NEW u \in Threads PROVE Alone(job[u])'
      <3>1. CASE u = t
        BY <1>1, <1>3, <1>6, <1>9, <2>1, <3>1 DEF Alone
      <3>2. CASE u # t
        BY <1>1, <1>9, <2>1, <3>2 DEF Serially, Alone, Snapped
      <3> QED BY <3>1, <3>2
    <2>3. (controller.name = memory.name \/ \E u \in Threads : job[u].step \in {"name", "commit"})'
      BY <1>1, <1>9, <2>1 DEF Serially
    <2>4. (Recovering => Met)'
      BY <1>6, <1>9, <1>10 DEF Recovering, Met, At, Recovery, Outside
    <2>5. Choices'
      BY <1>1, <1>6, <1>9, <2>1 DEF Serially, Choices, At
    <2>6. ASSUME ~unsaved' PROVE Mirrored'
      <3>1. Mirrored
        BY <1>1, <2>1, <2>6 DEF Serially
      <3>2. ~Pinning(job[t]) /\ ~Pinning(r)
        BY <1>1, <1>6 DEF Pinning
      <3> QED BY <1>1, <1>9, <3>1, <3>2 DEF Mirrored, Pinning
    <2>7. memory.fn.model = job[t].model
      <3>1. active.name = memory.name
        BY <1>1, <1>2, <1>10 DEF Joined, At, Outside
      <3> QED BY <1>1, <1>3, <2>1, <3>1 DEF Serially, NameOfFn, Alone
    <2>8. (runtime.backend = settings.backend)' /\ NameOfFn' /\ ThresholdsOwn'
      BY <1>1, <1>5, <2>1, <2>7 DEF Serially, NameOfFn
    <2>9. \A u, v \in User' : u = v
      BY <1>3, <1>6, <1>9, UsersKept
    <2> QED BY <2>2, <2>3, <2>4, <2>5, <2>6, <2>8, <2>9 DEF Serially
  <1> QED BY <1>10, <1>11, <1>12, <1>13, <1>14 DEF Inv, IInv

LEMMA RebuildInv ==
  ASSUME Inv, NEW t \in Threads, Rebuild(t)
  PROVE  Inv'
  <1>1. /\ UNCHANGED <<settings, env, runtime, memory, active, calibrated, begun, serial,
                       chosen, crossed, unsaved>>
        /\ controller' = [client |-> runtime, fn |-> memory.fn, name |-> job[t].model]
        /\ Goes(t, IdleJob) /\ lock' = Freed /\ job[t].step = "rebuild"
    BY Idles DEF Rebuild, At, Go, Goes, history
  <1>2. Typed /\ Locked /\ Requests /\ Joined /\ (serial => Serially)
    BY DEF Inv, IInv, SInv
  <1>3. /\ job[t] \in Job /\ Formed(job[t]) /\ job[t].kind = "reembed" /\ job[t].model \in EmbModels
    <2>1. job[t] \in Job /\ Formed(job[t])
      BY <1>2 DEF Requests, Typed
    <2>2. job[t].kind = "reembed"
      BY <1>1, <2>1 DEF Formed, Job, Kinds
    <2> QED BY <1>1, <2>1, <2>2 DEF Formed
  <1>4. /\ controller' \in [client : Cand, fn : Fn, name : Maybe(EmbModels)]
        /\ controller'.client = runtime /\ controller'.fn = memory.fn
        /\ controller'.name = job[t].model
    BY <1>1, <1>2, <1>3 DEF Typed, Maybe
  <1>5. /\ job' \in [Threads -> Job] /\ job'[t] = IdleJob
        /\ \A u \in Threads \ {t} : job'[u] = job[u]
    BY <1>1, <1>2, JobAfter
  <1>6. /\ Locked' /\ lock' \in [holder : Maybe(Threads), waiters : Seq(Threads)]
        /\ \A u \in Threads \ {t} : job[u].step \in Outside
    BY <1>1, <1>2, <1>5, LockFreed, HolderNow, Idles DEF Outside
  <1>7. Typed'
    BY <1>1, <1>2, <1>4, <1>5, <1>6 DEF Typed
  <1>8. Requests'
    <2> SUFFICES ASSUME NEW u \in Threads
                 PROVE  Formed(job[u])' /\ Coupled(job[u])'
      BY DEF Requests
    <2>1. CASE u = t
      BY <1>5, <2>1, Idles DEF Coupled, Formed
    <2>2. CASE u # t
      BY <1>1, <1>2, <1>5, <2>2 DEF Requests, Coupled, Formed
    <2> QED BY <2>1, <2>2
  <1>9. Joined'
    BY <1>1, <1>2, <1>4, <1>5 DEF Joined, At
  <1>10. SInv'
    <2> SUFFICES ASSUME serial PROVE Serially'
      BY <1>1 DEF SInv
    <2>1. Serially /\ Alone(job[t])
      BY <1>2 DEF Serially
    <2>2. ASSUME NEW u \in Threads PROVE Alone(job[u])'
      <3>1. CASE u = t
        BY <1>5, <3>1, Idles DEF Alone
      <3>2. CASE u # t
        BY <1>1, <1>5, <2>1, <3>2 DEF Serially, Alone, Snapped
      <3> QED BY <3>1, <3>2
    <2>3. controller'.name = memory'.name
      <3>1. active.name = memory.name
        BY <1>1, <1>2, <1>6 DEF Joined, At, Outside
      <3> QED BY <1>1, <1>3, <1>4, <2>1, <3>1 DEF Alone
    <2>4. (Recovering => Met)'
      BY <1>5, <1>6, Idles DEF Recovering, Met, At, Recovery, Outside
    <2>5. Choices'
      BY <1>1, <1>5, <2>1 DEF Serially, Choices, At
    <2>6. ASSUME ~unsaved' PROVE Mirrored'
      <3>1. Mirrored
        BY <1>1, <2>1, <2>6 DEF Serially
      <3>2. ~Pinning(job[t]) /\ ~Pinning(IdleJob)
        BY <1>1, Idles DEF Pinning
      <3> QED BY <1>1, <1>5, <3>1, <3>2 DEF Mirrored, Pinning
    <2>7. (runtime.backend = settings.backend)' /\ NameOfFn' /\ ThresholdsOwn'
      BY <1>1, <2>1 DEF Serially, NameOfFn, ThresholdsOwn
    <2>8. \A u, v \in User' : u = v
      BY <1>5, UsersKept, Idles
    <2> QED BY <2>2, <2>3, <2>4, <2>5, <2>6, <2>7, <2>8 DEF Serially
  <1> QED BY <1>6, <1>7, <1>8, <1>9, <1>10 DEF Inv, IInv

\* The swap: what the request's own writes of the settings and .env have to
\* leave for the invariant to hold after it.
LEMMA SwapInv ==
  ASSUME Inv, NEW t \in Threads, Swap(t), UNCHANGED serial, job[t].kind # "reembed",
         settings' \in Config, env' \in Config, unsaved' \in BOOLEAN,
         settings'.emb = settings.emb, settings'.legacy = settings.legacy,
         settings'.pin = settings.pin, env'.pin = env.pin, unsaved => unsaved',
         serial => settings'.backend = job[t].backend,
         serial /\ ~unsaved' => /\ env'.backend = settings'.backend /\ env'.emb = settings'.emb
                               /\ env'.legacy = settings'.legacy
  PROVE  Inv'
  <1> DEFINE c == job[t].cand
             other(u) == [job[u] EXCEPT !.moved = job[u].kind = "poll"]
  <1>1. /\ UNCHANGED <<memory, active, calibrated, begun, serial, chosen, crossed>>
        /\ job[t].step = "commit" /\ LoopFree /\ lock' = Freed /\ runtime' = c
        /\ controller' = [client |-> c, fn |-> memory.fn, name |-> active.name]
    BY DEF Swap, At, history, Built
  <1>2. Typed /\ Locked /\ Requests /\ Joined /\ (serial => Serially)
    BY DEF Inv, IInv, SInv
  <1>3. /\ job[t] \in Job /\ Formed(job[t]) /\ job[t].backend \in Backends
        /\ c.backend = job[t].backend /\ job[t].kind \in {"switch", "chat", "emb", "poll"}
    <2>1. job[t] \in Job /\ Formed(job[t])
      BY <1>2 DEF Requests, Typed
    <2>2. job[t].kind \in {"switch", "chat", "emb", "poll"}
      BY <1>1, <2>1 DEF Formed, Job, Kinds
    <2> QED BY <1>1, <2>1, <2>2 DEF Formed
  <1>4. c \in Cand
    <2>1. CASE c = NoCand
      BY <1>3, <2>1 DEF NoCand, Cand, Maybe
    <2> QED BY <1>3, <2>1 DEF Job
  <1> HIDE DEF c
  <1>5. /\ controller' \in [client : Cand, fn : Fn, name : Maybe(EmbModels)]
        /\ controller'.client = runtime' /\ controller'.fn = memory.fn /\ controller'.name = active.name
    BY <1>1, <1>2, <1>4 DEF Typed
  <1>6. \A u \in Threads : /\ other(u) \in Job /\ (job[u].kind = "poll" => other(u).moved)
                           /\ other(u).kind = job[u].kind /\ other(u).step = job[u].step
                           /\ other(u).backend = job[u].backend /\ other(u).model = job[u].model
                           /\ other(u).cand = job[u].cand /\ other(u).health = job[u].health
                           /\ other(u).plan = job[u].plan /\ other(u).snap = job[u].snap
    BY <1>2 DEF Typed, Job
  <1>7. job' = [u \in Threads |-> IF u = t THEN IdleJob ELSE other(u)]
    BY DEF Swap
  <1>8. job'[t] = IdleJob /\ \A u \in Threads \ {t} : job'[u] = other(u)
    BY <1>7
  <1>9. job' \in [Threads -> Job]
    BY <1>6, <1>7, Idles
  <1> HIDE DEF other
  <1>10. /\ Locked' /\ lock' \in [holder : Maybe(Threads), waiters : Seq(Threads)]
         /\ \A u \in Threads \ {t} : job[u].step \in Outside
    BY <1>1, <1>2, <1>6, <1>8, LockFreed, HolderNow, Idles DEF Outside
  <1>11. Typed'
    BY <1>1, <1>2, <1>4, <1>5, <1>9, <1>10 DEF Typed
  <1>12. Requests'
    <2> SUFFICES ASSUME NEW u \in Threads
                 PROVE  Formed(job[u])' /\ Coupled(job[u])'
      BY DEF Requests
    <2>1. CASE u = t
      BY <1>8, <2>1, Idles DEF Coupled, Formed
    <2>2. CASE u # t
      <3>1. Formed(job[u]) /\ Formed(job[u])'
        BY <1>2, <1>6, <1>8, <2>2 DEF Requests, Formed
      <3>2. Coupled(job[u])'
        BY <1>6, <1>8, <1>10, <2>2 DEF Coupled, Outside
      <3> QED BY <3>1, <3>2
    <2> QED BY <2>1, <2>2
  <1>13. active.name = memory.name /\ active.backend = memory.fn.backend
    BY <1>1, <1>2, <1>10 DEF Joined, At, Outside
  <1>14. Joined'
    BY <1>1, <1>2, <1>5, <1>13 DEF Joined
  <1>15. SInv'
    <2> SUFFICES ASSUME serial PROVE Serially'
      BY <1>1 DEF SInv
    <2>1. Serially /\ Alone(job[t])
      BY <1>2 DEF Serially
    <2>2. ASSUME NEW u \in Threads PROVE Alone(job[u])'
      <3>1. CASE u = t
        BY <1>8, <3>1, Idles DEF Alone
      <3>2. CASE u # t
        <4>1. job[u].step \in Outside \ {"put"} /\ Alone(job[u]) /\ Formed(job[u])
          BY <1>1, <1>2, <1>10, <2>1, <3>2 DEF LoopFree, At, Serially, Requests
        <4>2. settings'.backend = settings.backend \/ job[u].kind \notin {"emb", "chat"}
          BY <1>1, <1>3, <2>1, <3>2 DEF Serially, User, Alone
        <4>3. job[u].kind = "poll" => job[u].step \in {"polled", "wait"}
          BY <4>1 DEF Formed, Outside
        <4>4. job[u].step # "replace" /\ job[u].step \notin Recovery
          BY <4>1 DEF Outside, Recovery
        <4> QED BY <1>1, <1>6, <1>8, <3>2, <4>1, <4>2, <4>3, <4>4 DEF Alone
      <3> QED BY <3>1, <3>2
    <2>3. (controller.name = memory.name \/ \E u \in Threads : job[u].step \in {"name", "commit"})'
      BY <1>1, <1>5, <1>13
    <2>4. (Recovering => Met)'
      BY <1>6, <1>8, <1>10, Idles DEF Recovering, Met, At, Recovery, Outside
    <2>5. Choices'
      BY <1>1, <2>1 DEF Serially, Choices, LoopFree, At
    <2>6. ASSUME ~unsaved' PROVE Mirrored'
      <3>1. \A u \in Threads : ~Pinning(job'[u])
        BY <1>6, <1>8, <1>10, Idles DEF Pinning, Outside
      <3> QED BY <1>1, <2>6, <3>1 DEF Mirrored, Pinning
    <2>7. (runtime.backend = settings.backend)' /\ NameOfFn' /\ ThresholdsOwn'
      BY <1>1, <1>3, <2>1 DEF Serially, NameOfFn, ThresholdsOwn
    <2>8. \A u, v \in User' : u = v
      BY <1>6, <1>8, <2>1, Idles DEF Serially, User
    <2> QED BY <2>2, <2>3, <2>4, <2>5, <2>6, <2>7, <2>8 DEF Serially
  <1> QED BY <1>10, <1>11, <1>12, <1>14, <1>15 DEF Inv, IInv

LEMMA CommitSwitchInv ==
  ASSUME Inv, NEW t \in Threads, CommitSwitch(t)
  PROVE  Inv'
  <1> DEFINE b == job[t].backend
  <1>1. /\ Swap(t) /\ UNCHANGED serial /\ job[t].kind = "switch" /\ job[t].step = "commit"
        /\ settings' = [settings EXCEPT !.backend = b]
        /\ (env' = [env EXCEPT !.backend = b] /\ UNCHANGED unsaved) \/ (unsaved' = TRUE /\ UNCHANGED env)
    BY DEF CommitSwitch, Swap, Saved, At, history
  <1>2. Typed /\ Locked /\ (serial => Serially) /\ b \in Backends
    BY <1>1 DEF Inv, IInv, SInv, Requests, Formed
  <1>3. /\ settings' \in Config /\ settings'.backend = b /\ settings'.emb = settings.emb
        /\ settings'.legacy = settings.legacy /\ settings'.pin = settings.pin
    BY <1>1, <1>2 DEF Typed, Config
  <1>4. /\ env' \in Config /\ env'.emb = env.emb /\ env'.legacy = env.legacy /\ env'.pin = env.pin
        /\ unsaved' \in BOOLEAN /\ (~unsaved' => env'.backend = b /\ ~unsaved) /\ (unsaved => unsaved')
    <2>1. CASE env' = [env EXCEPT !.backend = b] /\ UNCHANGED unsaved
      BY <1>2, <2>1 DEF Typed, Config
    <2>2. CASE unsaved' = TRUE /\ UNCHANGED env
      BY <1>2, <2>2 DEF Typed
    <2> QED BY <1>1, <2>1, <2>2
  <1>5. ASSUME serial, ~unsaved'
        PROVE  env'.emb = settings'.emb /\ env'.legacy = settings'.legacy
    <2>1. Mirrored
      BY <1>2, <1>4, <1>5 DEF Serially
    <2>2. ASSUME NEW u \in Threads PROVE ~Pinning(job[u])
      BY <1>1, <1>2, HolderNow DEF Pinning, Outside
    <2> QED BY <1>3, <1>4, <2>1, <2>2 DEF Mirrored
  <1> QED BY <1>1, <1>3, <1>4, <1>5, SwapInv

LEMMA CommitEmbInv ==
  ASSUME Inv, NEW t \in Threads, CommitEmb(t)
  PROVE  Inv'
  <1> DEFINE b == job[t].backend
             m == job[t].model
  <1>1. /\ Swap(t) /\ UNCHANGED <<serial, settings>> /\ job[t].kind = "emb" /\ job[t].step = "commit"
        /\ \/ env' = SavedEmb(t) /\ UNCHANGED unsaved
           \/ unsaved' = TRUE /\ (env' = env \/ env' = [env EXCEPT !.emb[b] = m])
    BY DEF CommitEmb, Swap, Saved, At, history
  <1>2. /\ Typed /\ Locked /\ (serial => Serially) /\ b \in Backends /\ m \in Maybe(EmbModels)
        /\ job[t].snap \in Maybe(EmbModels)
    BY <1>1 DEF Inv, IInv, SInv, Requests, Formed
  <1>3. settings \in Config /\ env \in Config /\ unsaved \in BOOLEAN
    BY <1>2 DEF Typed
  <1>4. /\ env' \in Config /\ env'.pin = env.pin /\ env'.backend = env.backend
        /\ unsaved' \in BOOLEAN /\ (unsaved => unsaved')
        /\ ~unsaved' => /\ ~unsaved /\ env'.emb = [env.emb EXCEPT ![b] = m]
                        /\ env'.legacy = IF job[t].snap # NoModel THEN NoModel ELSE env.legacy
    <2>1. CASE env' = SavedEmb(t) /\ UNCHANGED unsaved
      <3> DEFINE l == IF job[t].snap # NoModel THEN NoModel ELSE env.legacy
      <3>1. env' = [env EXCEPT !.emb[b] = m, !.legacy = l]
        BY <2>1 DEF SavedEmb
      <3>2. l \in Maybe(EmbModels)
        BY <1>3 DEF Config, Maybe
      <3>3. [env.emb EXCEPT ![b] = m] \in [Backends -> Maybe(EmbModels)]
        BY <1>2, <1>3 DEF Config, Maybe
      <3> HIDE DEF l
      <3>4. /\ env' \in Config /\ env'.pin = env.pin /\ env'.backend = env.backend
            /\ env'.emb = [env.emb EXCEPT ![b] = m] /\ env'.legacy = l
        BY <1>3, <3>1, <3>2, <3>3 DEF Config, Maybe
      <3> QED BY <1>3, <2>1, <3>4 DEF l
    <2>2. CASE unsaved' = TRUE /\ env' = env
      BY <1>3, <2>2
    <2>3. CASE unsaved' = TRUE /\ env' = [env EXCEPT !.emb[b] = m]
      BY <1>2, <1>3, <2>3 DEF Config, Maybe
    <2> QED BY <1>1, <2>1, <2>2, <2>3
  <1>5. ASSUME serial
        PROVE  settings.backend = b
    BY <1>1, <1>2, <1>5 DEF Serially, Alone
  <1>6. ASSUME serial, ~unsaved'
        PROVE  /\ env'.emb = settings'.emb /\ env'.legacy = settings'.legacy
               /\ env'.backend = settings'.backend
    <2>1. Mirrored
      BY <1>2, <1>4, <1>6 DEF Serially
    <2>2. Pinning(job[t])
      BY <1>1 DEF Pinning
    <2>3. /\ settings.emb = [env.emb EXCEPT ![b] = m] /\ settings.legacy = NoModel
          /\ job[t].snap = env.legacy /\ env.backend = settings.backend
      BY <2>1, <2>2 DEF Mirrored
    <2> QED BY <1>1, <1>4, <1>6, <2>3
  <1> QED BY <1>1, <1>3, <1>4, <1>5, <1>6, SwapInv

\* A rebuilt client alone: nothing of the settings or of .env is written.
LEMMA CommitClientInv ==
  ASSUME Inv, NEW t \in Threads, CommitPin(t) \/ CommitPoll(t)
  PROVE  Inv'
  <1>1. /\ Swap(t) /\ UNCHANGED <<serial, settings, env, unsaved>>
        /\ job[t].kind \in {"chat", "poll"} /\ job[t].step = "commit"
    BY DEF CommitPin, CommitPoll, Swap, At, history
  <1>2. Typed /\ Locked /\ (serial => Serially)
    BY DEF Inv, IInv, SInv
  <1>3. settings \in Config /\ env \in Config /\ unsaved \in BOOLEAN
    BY <1>2 DEF Typed
  <1>4. ASSUME serial
        PROVE  settings.backend = job[t].backend
    BY <1>1, <1>2, <1>4 DEF Serially, Alone
  <1>5. ASSUME serial, ~unsaved
        PROVE  env.emb = settings.emb /\ env.legacy = settings.legacy /\ env.backend = settings.backend
    <2>1. Mirrored
      BY <1>2, <1>5 DEF Serially
    <2>2. ASSUME NEW u \in Threads PROVE ~Pinning(job[u])
      BY <1>1, <1>2, HolderNow DEF Pinning, Outside
    <2> QED BY <2>1, <2>2 DEF Mirrored
  <1> QED BY <1>1, <1>3, <1>4, <1>5, SwapInv

\* The request was refused, or its runtime is gone: it leaves the lock.
LEMMA LeavesInv ==
  ASSUME Inv, NEW t \in Threads, PollGone(t) \/ Refused(t)
  PROVE  Inv'
  BY LeaveInv DEF PollGone, Refused, At

-----------------------------------------------------------------------------
(* The process starts and stops                                            *)

\* No request has begun: what a start or a stop has to leave.
Quiet ==
    /\ Typed /\ lock = Unlocked
    /\ \A t \in Threads : job[t] \in {IdleJob, GoneJob}
    /\ controller.client = runtime /\ controller.fn = memory.fn
    /\ active.name = memory.name /\ active.backend = memory.fn.backend
    /\ memory.fn # NoFn => Lists(memory.fn.backend, memory.fn.model)
    /\ runtime.backend = settings.backend /\ NameOfFn /\ controller.name = memory.name
    /\ serial => ThresholdsOwn
    /\ \A b \in Backends : chosen[b] # NoModel =>
          settings.pin[b] = chosen[b] /\ (env.pin[b] = chosen[b] \/ unsaved)
    /\ ~unsaved => /\ env.backend = settings.backend /\ env.emb = settings.emb
                   /\ env.legacy = settings.legacy

LEMMA QuietInv == Quiet => Inv
  <1> SUFFICES ASSUME Quiet PROVE Inv
    OBVIOUS
  <1>1. /\ Typed /\ lock = Unlocked
        /\ \A t \in Threads : /\ job[t].kind = "none" /\ job[t].step \in {"idle", "gone"}
                              /\ job[t].plan.do = "nothing" /\ Formed(job[t])
    BY Idles DEF Quiet
  <1>2. Locked
    <2>1. lock.holder = NoModel /\ Len(lock.waiters) = 0
      BY <1>1 DEF Unlocked
    <2> QED BY <1>1, <2>1, ThreadsAssumption DEF Locked, At, Outside
  <1>3. Requests
    BY <1>1 DEF Requests, Coupled
  <1>4. Joined
    BY DEF Quiet, Joined
  <1>5. ASSUME serial PROVE Serially
    <2>1. \A t \in Threads : t \notin User /\ Alone(job[t]) /\ ~Pinning(job[t])
      BY <1>1 DEF User, Alone, Pinning
    <2>2. ~Recovering
      BY <1>1 DEF Recovering, Recovery
    <2>3. Choices /\ (~unsaved => Mirrored)
      BY <2>1 DEF Quiet, Choices, Mirrored
    <2>4. User = {}
      BY <2>1 DEF User
    <2> QED BY <1>5, <2>1, <2>2, <2>3, <2>4 DEF Quiet, Serially
  <1> QED BY <1>1, <1>2, <1>3, <1>4, <1>5 DEF Inv, IInv, SInv

\* What there is of the process while it is not running.
LEMMA OffTypes ==
  ASSUME NEW e \in Config
  PROVE  /\ Client(e, e.backend, ResolveEmb(e, e.backend)) \in Cand
         /\ Client(e, e.backend, ResolveEmb(e, e.backend)).backend = e.backend
         /\ NoFn \in Fn /\ NoSource \in [fn : Fn, name : Maybe(EmbModels)]
         /\ NoBackend \in [name : Maybe(EmbModels), backend : Maybe(Backends)]
         /\ NoFn.model = NoModel /\ NoFn.backend = NoModel
         /\ NoSource.fn = NoFn /\ NoSource.name = NoModel
         /\ NoBackend.name = NoModel /\ NoBackend.backend = NoModel
         /\ Unlocked \in [holder : Maybe(Threads), waiters : Seq(Threads)]
         /\ AllGone \in [Threads -> Job] /\ \A t \in Threads : AllGone[t] = GoneJob
  <1>1. e.backend \in Backends
    BY ResolveTypes DEF Config
  <1>2. /\ NoFn \in Fn /\ NoSource \in [fn : Fn, name : Maybe(EmbModels)]
        /\ NoBackend \in [name : Maybe(EmbModels), backend : Maybe(Backends)]
        /\ NoFn.model = NoModel /\ NoFn.backend = NoModel
        /\ NoSource.fn = NoFn /\ NoSource.name = NoModel
        /\ NoBackend.name = NoModel /\ NoBackend.backend = NoModel
    BY DEF NoFn, Fn, NoSource, NoBackend, Maybe
  <1>3. Unlocked \in [holder : Maybe(Threads), waiters : Seq(Threads)]
    BY DEF Unlocked, Maybe
  <1> QED BY <1>1, <1>2, <1>3, ResolveTypes, ClientTypes, Idles DEF AllGone

LEMMA InitInv == Init => Inv
  <1> SUFFICES ASSUME Init PROVE Quiet
    BY QuietInv
  <1> DEFINE c == Client(env, env.backend, ResolveEmb(env, env.backend))
  <1>1. env \in Config
    BY ConfigsAssumption DEF Init
  <1>2. /\ runtime = c /\ c \in Cand /\ c.backend = env.backend
        /\ controller = [client |-> c, fn |-> NoFn, name |-> NoModel]
    BY <1>1, OffTypes DEF Init, StartClient, NotBuilt
  <1> HIDE DEF c
  <1>3. controller \in [client : Cand, fn : Fn, name : Maybe(EmbModels)]
    BY <1>1, <1>2, OffTypes DEF Maybe
  <1>4. env.pin \in [Backends -> Maybe(ChatModels)]
    BY <1>1, ResolveTypes DEF Config
  <1>5. Typed
    <2>1. begun \in 0 .. MaxRequests
      BY BoundAssumption DEF Init
    <2>2. /\ settings = env /\ memory = NoSource /\ active = NoBackend /\ lock = Unlocked
          /\ job = AllGone /\ chosen = env.pin /\ unsaved = FALSE /\ calibrated = {}
          /\ serial \in BOOLEAN
      BY DEF Init
    <2> QED BY <1>1, <1>2, <1>3, <1>4, <2>1, <2>2, OffTypes DEF Typed
  <1>6. \A t \in Threads : job[t] = GoneJob
    BY <1>1, OffTypes DEF Init
  <1> QED BY <1>1, <1>2, <1>5, <1>6, OffTypes DEF Init, Quiet, NameOfFn, ThresholdsOwn

LEMMA StopInv == Inv /\ Stop => Inv'
  <1> SUFFICES ASSUME Inv, Stop PROVE Quiet'
    BY QuietInv, PTL
  <1> DEFINE c == Client(env, env.backend, ResolveEmb(env, env.backend))
  <1>1. /\ settings' = env /\ memory' = NoSource /\ active' = NoBackend /\ lock' = Unlocked
        /\ job' = AllGone /\ chosen' = env.pin /\ unsaved' = FALSE
        /\ UNCHANGED <<env, calibrated, begun, serial>>
    BY DEF Stop
  <1>2. Typed /\ env \in Config /\ (serial => ThresholdsOwn)
    BY DEF Inv, IInv, SInv, Serially, Typed
  <1>3. /\ runtime' = c /\ c \in Cand /\ c.backend = env.backend
        /\ controller' = [client |-> c, fn |-> NoFn, name |-> NoModel]
    BY <1>2, OffTypes DEF Stop, StartClient, NotBuilt
  <1> HIDE DEF c
  <1>4. controller' \in [client : Cand, fn : Fn, name : Maybe(EmbModels)]
    BY <1>2, <1>3, OffTypes DEF Maybe
  <1>5. env.pin \in [Backends -> Maybe(ChatModels)]
    BY <1>2, ResolveTypes DEF Config
  <1>6. Typed'
    BY <1>1, <1>2, <1>3, <1>4, <1>5, OffTypes DEF Typed
  <1>7. \A t \in Threads : job'[t] = GoneJob
    BY <1>1, <1>2, OffTypes
  <1>8. ThresholdsOwn => ThresholdsOwn'
    BY <1>1 DEF ThresholdsOwn
  <1> QED BY <1>1, <1>2, <1>3, <1>6, <1>7, <1>8, OffTypes DEF Quiet, NameOfFn

LEMMA StartInv ==
  ASSUME Inv, NEW h \in Healths(env.backend), NEW h1 \in Healths(env.backend), NEW keep \in BOOLEAN,
         NEW plan, Start(h, plan, h1, keep),
         IF Heals(h) THEN plan \in Plans(env, env.backend, h.models) ELSE plan = NoPlan
  PROVE  Quiet'
  <1> DEFINE b == env.backend
             s1 == IF Heals(h) THEN Applied(env, b, plan) ELSE env
             moves == Migrates(s1, h1)
             picks == plan.do = "autopick"
             s2 == IF ~moves THEN s1 ELSE IF keep THEN Migrated(s1, b)
                   ELSE [s1 EXCEPT !.emb[b] = s1.legacy]
             fn == IF h1.up /\ ResolveEmb(s2, b) \in h1.models \ {NoModel}
                   THEN [backend |-> b, model |-> ResolveEmb(s2, b)] ELSE NoFn
             c == Client(s1, b, ResolveEmb(s1, b))
  <1>1. Typed /\ env \in Config /\ b \in Backends /\ (serial => ThresholdsOwn)
    BY DEF Inv, IInv, SInv, Serially, Typed, Config
  <1>2. /\ settings' = s2 /\ unsaved' = ~keep /\ runtime' = c /\ lock' = Unlocked
        /\ memory' = [fn |-> fn, name |-> fn.model]
        /\ active' = [name |-> fn.model, backend |-> fn.backend]
        /\ controller' = [client |-> c, fn |-> fn, name |-> fn.model]
        /\ Calibrate(fn.model, fn) /\ job' = [t \in Threads |-> IdleJob]
        /\ chosen' = env.pin /\ UNCHANGED <<begun, serial>>
        /\ env' = [env EXCEPT !.pin = IF picks /\ keep THEN s2.pin ELSE @,
                              !.emb = IF keep THEN s2.emb ELSE @,
                              !.legacy = IF keep THEN s2.legacy ELSE @]
    BY DEF Start
  \* the settings after a recovery and a migration
  <1>3. /\ s1 \in Config /\ s1.backend = b /\ s1.emb = env.emb /\ s1.legacy = env.legacy
        /\ \A d \in Backends : env.pin[d] # NoModel => s1.pin[d] = env.pin[d]
    <2>1. CASE Heals(h)
      <3>1. /\ plan.do \in {"demote", "autopick"}
            /\ plan.do = "autopick" => env.pin[b] = NoModel /\ plan.model \in ChatModels
        BY <1>1, <2>1, PlanTypes
      <3> QED BY <1>1, <2>1, <3>1, AppliedTypes
    <2>2. CASE ~Heals(h)
      BY <1>1, <2>2
    <2> QED BY <2>1, <2>2
  <1> HIDE DEF s1
  <1>4. s2 \in Config /\ s2.backend = b /\ s2.pin = s1.pin
    <2>1. CASE ~moves
      BY <1>3, <2>1
    <2>2. CASE moves /\ keep
      <3> DEFINE emb == [s1.emb EXCEPT ![b] = s1.legacy]
      <3>1. s2 = [s1 EXCEPT !.emb = emb, !.legacy = NoModel]
        BY <2>2 DEF Migrated
      <3>2. emb \in [Backends -> Maybe(EmbModels)]
        BY <1>1, <1>3 DEF Config, Maybe
      <3> HIDE DEF emb
      <3> QED BY <1>3, <3>1, <3>2 DEF Config, Maybe
    <2>3. CASE moves /\ ~keep
      <3>1. s2 = [s1 EXCEPT !.emb[b] = s1.legacy]
        BY <2>3
      <3> QED BY <1>1, <1>3, <3>1 DEF Config, Maybe
    <2> QED BY <2>1, <2>2, <2>3
  <1> HIDE DEF s2, picks
  \* its embedder was listed
  <1>5. /\ fn \in Fn /\ fn.model \in Maybe(EmbModels) /\ fn.backend \in Maybe(Backends)
        /\ fn # NoFn => Lists(fn.backend, fn.model)
    <2>1. ResolveEmb(s2, b) \in Maybe(EmbModels)
      BY <1>1, <1>4, ResolveTypes
    <2>2. CASE h1.up /\ ResolveEmb(s2, b) \in h1.models \ {NoModel}
      <3>1. fn = [backend |-> b, model |-> ResolveEmb(s2, b)]
        BY <2>2
      <3>2. Lists(b, ResolveEmb(s2, b))
        BY <1>1, <2>2, HealthTypes
      <3> QED BY <1>1, <2>1, <3>1, <3>2 DEF Fn, Maybe
    <2>3. CASE ~(h1.up /\ ResolveEmb(s2, b) \in h1.models \ {NoModel})
      BY <2>3 DEF NoFn, Fn, Maybe
    <2> QED BY <2>2, <2>3
  <1>6. c \in Cand /\ c.backend = b
    BY <1>1, <1>3, ResolveTypes, ClientTypes
  <1> HIDE DEF fn, c
  <1>7. /\ controller' \in [client : Cand, fn : Fn, name : Maybe(EmbModels)]
        /\ controller'.client = c /\ controller'.fn = fn /\ controller'.name = fn.model
        /\ memory' \in [fn : Fn, name : Maybe(EmbModels)] /\ memory'.fn = fn /\ memory'.name = fn.model
        /\ active' \in [name : Maybe(EmbModels), backend : Maybe(Backends)]
        /\ active'.name = fn.model /\ active'.backend = fn.backend
    BY <1>2, <1>5, <1>6
  <1>8. /\ env' \in Config /\ env'.backend = b
        /\ env'.pin = IF picks /\ keep THEN s1.pin ELSE env.pin
        /\ keep => env'.emb = s2.emb /\ env'.legacy = s2.legacy
    BY <1>1, <1>2, <1>3, <1>4 DEF Config
  <1>9. /\ calibrated' \subseteq [name : EmbModels, by : Maybe(EmbModels)]
        /\ ThresholdsOwn => ThresholdsOwn'
    <2>1. CASE UNCHANGED calibrated
      BY <1>1, <2>1 DEF Typed, ThresholdsOwn
    <2>2. CASE fn.model # NoModel /\ Measured(fn.model, fn.model)
      BY <1>1, <1>5, <2>2, MeasuredTypes DEF Maybe
    <2> QED BY <1>2, <2>1, <2>2 DEF Calibrate
  <1>10. env.pin \in [Backends -> Maybe(ChatModels)] /\ unsaved' \in BOOLEAN
    BY <1>1, <1>2, ResolveTypes
  <1>11. job' \in [Threads -> Job] /\ \A t \in Threads : job'[t] = IdleJob
    BY <1>2, Idles
  <1>12. Unlocked \in [holder : Maybe(Threads), waiters : Seq(Threads)]
    BY <1>1, OffTypes
  <1>13. Typed'
    BY <1>1, <1>2, <1>4, <1>6, <1>7, <1>8, <1>9, <1>10, <1>11, <1>12 DEF Typed
  <1>14. ASSUME NEW d \in Backends, env.pin[d] # NoModel
         PROVE  s2.pin[d] = env.pin[d] /\ env'.pin[d] = env.pin[d]
    BY <1>3, <1>4, <1>8, <1>14
  <1>15. NameOfFn'
    BY <1>7 DEF NameOfFn
  <1> QED BY <1>1, <1>2, <1>4, <1>5, <1>6, <1>7, <1>8, <1>9, <1>11, <1>13, <1>14, <1>15 DEF Quiet

LEMMA RestartInv == Inv /\ Restart => Inv'
  <1> SUFFICES ASSUME Inv, Restart PROVE Quiet'
    BY QuietInv, PTL
  <1>1. PICK h \in Healths(env.backend), keep \in BOOLEAN :
           IF Heals(h)
           THEN \E plan \in Plans(env, env.backend, h.models), h1 \in Healths(env.backend) :
                    Start(h, plan, h1, keep)
           ELSE Start(h, NoPlan, h, keep)
    BY DEF Restart
  <1>2. CASE Heals(h)
    <2>1. PICK plan \in Plans(env, env.backend, h.models), h1 \in Healths(env.backend) :
             Start(h, plan, h1, keep)
      BY <1>1, <1>2
    <2> QED BY <1>2, <2>1, StartInv
  <1>3. CASE ~Heals(h)
    BY <1>1, <1>3, StartInv
  <1> QED BY <1>2, <1>3

LEMMA StutterInv == Inv /\ UNCHANGED vars => Inv'
  <1> SUFFICES ASSUME Inv, UNCHANGED vars PROVE Inv'
    OBVIOUS
  <1>1. UNCHANGED <<settings, env, runtime, controller, memory, active, calibrated, lock, job, begun,
                    serial, chosen, crossed, unsaved>>
    BY DEF vars
  <1>2. Typed'
    BY <1>1 DEF Inv, IInv, Typed
  <1>3. Locked'
    BY <1>1 DEF Inv, IInv, Locked, At
  <1>4. Requests'
    BY <1>1 DEF Inv, IInv, Requests, Formed, Coupled
  <1>5. Joined'
    BY <1>1 DEF Inv, IInv, Joined, At
  <1>6. SInv'
    <2> SUFFICES ASSUME serial PROVE Serially'
      BY <1>1 DEF SInv
    <2>1. Serially
      BY DEF Inv, SInv
    <2>2. (\A t, u \in User : t = u)' /\ (\A t \in Threads : Alone(job[t]))'
      BY <1>1, <2>1 DEF Serially, User, Alone, Snapped
    <2>3. Choices' /\ (Recovering => Met)'
      BY <1>1, <2>1 DEF Serially, Choices, Recovering, Met, At
    <2>4. (~unsaved => Mirrored)'
      BY <1>1, <2>1 DEF Serially, Mirrored, Pinning
    <2> QED BY <1>1, <2>1, <2>2, <2>3, <2>4 DEF Serially, NameOfFn, ThresholdsOwn
  <1> QED BY <1>2, <1>3, <1>4, <1>5, <1>6 DEF Inv, IInv

-----------------------------------------------------------------------------
(* The invariant holds                                                     *)

LEMMA StepInv ==
  ASSUME Inv, NEW t \in Threads, Step(t)
  PROVE  Inv'
  <1>1. CASE PinSaved(t) \/ PinFailed(t) \/ Polled(t) \/ Acquire(t)
    BY <1>1, PinSavedInv, PinFailedInv, PolledInv, AcquireInv
  <1>2. CASE PollGone(t) \/ Refused(t) \/ Accepted(t) \/ NoRecovery(t)
    BY <1>2, LeavesInv, AcceptedInv, NoRecoveryInv
  <1>3. CASE \E h \in Checks(t) : Check(t, h) \/ Recheck(t, h)
    BY <1>3, CheckInv, RecheckInv
  <1>4. CASE \E plan \in PlansOf(t) : PlanRecovery(t, plan)
    BY <1>4, PlanRecoveryInv
  <1>5. CASE Apply(t) \/ Replace(t) \/ PlanSwitch(t)
    BY <1>5, ApplyInv, ReplaceInv, PlanSwitchInv
  <1>6. CASE SetEmbPin(t) \/ SetSource(t) \/ SetName(t)
    BY <1>6, SetEmbPinInv, SetSourceInv, SetNameInv
  <1>7. CASE CommitSwitch(t) \/ CommitEmb(t) \/ CommitPin(t) \/ CommitPoll(t)
    BY <1>7, CommitSwitchInv, CommitEmbInv, CommitClientInv
  <1>8. CASE Reembedded(t) \/ Remeasure(t) \/ Rebuild(t)
    BY <1>8, ReembeddedInv, RemeasureInv, RebuildInv
  <1> QED BY <1>1, <1>2, <1>3, <1>4, <1>5, <1>6, <1>7, <1>8 DEF Step

LEMMA RequestInv ==
  ASSUME Inv, NEW t \in Threads, Request(t)
  PROVE  Inv'
  <1>1. CASE \E b \in Backends : BeginSwitch(t, b)
    BY <1>1, BeginSwitchInv
  <1>2. CASE \E b \in Backends, kind \in {"switch", "chat"} :
                \E m \in ChatModels \cap Offered(b) : BeginPin(t, kind, b, m)
    BY <1>2, BeginPinInv
  <1>3. CASE \E m \in (EmbModels \cap Offered(settings.backend)) \cup {NoModel} : BeginEmb(t, m)
    BY <1>3, BeginEmbInv DEF Maybe
  <1>4. CASE (\E h \in Healths(runtime.backend) : BeginPoll(t, h)) \/ BeginReembed(t)
    BY <1>4, BeginPollInv, BeginReembedInv
  <1> QED BY <1>1, <1>2, <1>3, <1>4 DEF Request

LEMMA NextInv == Inv /\ [Next]_vars => Inv'
  <1> SUFFICES ASSUME Inv, [Next]_vars PROVE Inv'
    OBVIOUS
  <1>1. CASE Stop
    BY <1>1, StopInv
  <1>2. CASE Restart
    BY <1>2, RestartInv
  <1>3. CASE \E t \in Threads : Step(t) \/ Request(t)
    BY <1>3, StepInv, RequestInv
  <1>4. CASE UNCHANGED vars
    BY <1>4, StutterInv
  <1> QED BY <1>1, <1>2, <1>3, <1>4 DEF Next

\* Every behaviour of the switches keeps the invariant.
THEOREM Invariant == Spec => []Inv
  BY InitInv, NextInv, PTL DEF Spec

-----------------------------------------------------------------------------
(* The properties                                                          *)

\* Types, and the lock: a request past its Acquire holds
\* _runtime_switch_lock, so no two are there; one that waits is queued once.
THEOREM TypeCorrect == Spec => []TypeOK
  <1>1. Inv => TypeOK
    BY DEF Inv, IInv, Typed, Locked, TypeOK, Outside, Job, Maybe
  <1> QED BY <1>1, Invariant, PTL

\* Whenever the lock is free, the controller uses the runtime client of the
\* state and MemoryManager's embedder, and the source the state reports is that
\* embedder, however switches, polls, re-embeds, failures and restarts
\* interleave.
THEOREM NothingHalfMoved == Spec => []Together
  <1>1. Inv => Together
    BY Rests DEF Inv, IInv, Joined, Together, At, Outside
  <1> QED BY <1>1, Invariant, PTL

\* Every embedder in use was listed by its own backend, and so, if the user's
\* requests do not overlap, is every model an auto-pick makes a pin.
THEOREM OnlyListed == Spec => []Served
  <1>1. Inv => Served
    BY DEF Inv, IInv, SInv, Joined, Serially, Alone, Served
  <1> QED BY <1>1, Invariant, PTL

\* If the user's requests do not overlap: vectors are filed under the
\* embedder's model, the client is one of the active backend, the controller
\* looks its thresholds up by the name in use, and the thresholds stored for a
\* model were measured with it.
THEOREM SerialConsistent == Spec => []Consistent
  <1>1. Inv => Consistent
    <2> SUFFICES ASSUME Inv, serial
                 PROVE  NameOfFn /\ ThresholdsOwn /\ ActiveBackend /\ ControllerNamed
      BY DEF Consistent
    <2>1. Typed /\ Locked /\ Serially
      BY DEF Inv, IInv, SInv
    <2> QED BY <2>1, Rests DEF Serially, ActiveBackend, ControllerNamed, Outside
  <1> QED BY <1>1, Invariant, PTL

\* If the user's requests do not overlap, the last chat model chosen for a
\* backend (a start takes what .env holds as chosen) stays its pin in the
\* settings, and in .env unless a write failed: no auto-pick, demotion or
\* switch replaces it, but for the choices that met a recovery of a worker
\* thread between its plan and its .env line (crossed).
THEOREM ChoicesKept == Spec => []ChoiceKept
  <1>1. Inv => ChoiceKept
    BY DEF Inv, SInv, Serially, Choices, LoopFree, ChoiceKept
  <1> QED BY <1>1, Invariant, PTL

\* If the user's requests do not overlap, then with the lock free the backend
\* and the embedding models in .env are those in use, unless a write failed.
THEOREM EnvCurrent == Spec => []EnvMirrors
  <1>1. Inv => EnvMirrors
    <2> SUFFICES ASSUME Inv, serial, AtRest, ~unsaved
                 PROVE  /\ env.backend = settings.backend /\ env.emb = settings.emb
                        /\ env.legacy = settings.legacy
      BY DEF EnvMirrors
    <2>1. Typed /\ Locked /\ Mirrored
      BY DEF Inv, IInv, SInv, Serially
    <2>2. \A t \in Threads : ~Pinning(job[t])
      <3>1. \A t \in Threads : job[t].step \in Outside
        BY <2>1, Rests
      <3>2. \A t \in Threads : Pinning(job[t]) => job[t].step \in {"source", "name", "commit"}
        BY DEF Pinning
      <3> QED BY <3>1, <3>2 DEF Outside
    <2> QED BY <2>1, <2>2 DEF Mirrored
  <1> QED BY <1>1, Invariant, PTL
=============================================================================
