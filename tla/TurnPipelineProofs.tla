-------------------------- MODULE TurnPipelineProofs --------------------------
(***************************************************************************)
(* Proofs about TurnPipeline, for any instructions, configurations, session *)
(* files, names and bounds.                                                *)
(***************************************************************************)
EXTENDS TurnPipeline, PlannerProofs, Integers

-----------------------------------------------------------------------------
(* Types                                                                   *)

Instructions == [says : SUBSET Signals, contains : SUBSET Stems, shares : SUBSET Stems,
                 pins : SUBSET Pages, facts : SUBSET Facts]
Turn == [id : Nat, request : Instructions \cup {NoText}, plan : Plans, action : FileActions,
         content : {"", "asked"}, path : BOOLEAN, url : BOOLEAN, names : SUBSET Names,
         retried : BOOLEAN, consulted : BOOLEAN, voice : Names \cup {NoText}]
Texts    == {"", "real", "cited", "bare", "blank", "unavailable", "apology", "caveat", "diffs"}
Statuses == {"none", "complete", "failed"}
Notes    == {"", "saved", "not saved"}
Answer   == [status : Statuses, text : Texts, note : Notes]
FileTexts == Texts \cup {"asked"}
Disk     == [versions : Seq(FileTexts), appended : Seq(Nat), turns : Seq(Nat),
             unseen : SUBSET Nat]

Settings ==
    /\ scenario \in Scenarios /\ config \in Configs[scenario]
    /\ name \in Names /\ stale \in BOOLEAN /\ lastTools \in BOOLEAN
    /\ persona \in Names \cup {NoText} /\ edits \in 0 .. MaxEdits[scenario]

\* No two session files have the same name.
Named(fs)  == \A j, k \in DOMAIN fs : fs[j].name = fs[k].name => j = k
Attached   == files \in Seq(Uploads) /\ Named(files)

Going      == phase \in Phases /\ turn \in Turn /\ turn.id \in 0 .. MaxTurns[scenario]
Answers    == answer \in Answer /\ early \in Answer /\ final \in Answer

-----------------------------------------------------------------------------
(* What holds of a turn                                                    *)

User == [role |-> "user", text |-> "asked"]

\* The memory holds the instruction until the answer is settled.
Logged ==
    /\ phase \in {"accepted", "called", "gathered", "fetching", "voiced", "built", "blank"}
          => log = <<User>>
    /\ LoggedOnce

\* A name the turn reads is one of its own, and the cache is empty between
\* the two steps of _load_persona.
Voiced ==
    /\ phase # "idle" => name \in turn.names
    /\ phase = "idle" => prompt.persona = NoText
    /\ phase = "fetching" => turn.voice \in turn.names /\ persona = NoText /\ config.memory
    /\ phase = "voiced" => turn.voice \in turn.names \cup {NoText}
    /\ ~config.memory => persona = NoText
    /\ PersonaNamed

\* No turn that has not come yet appended, and the sidecar has the one that is
\* running, as long as it appended and nothing went wrong with the sidecar.
Once(d) ==
    \A j, k \in DOMAIN d.appended :
        d.appended[j] = d.appended[k] /\ d.appended[j] \notin d.unseen => j = k
Stored(d, id) ==
    /\ d \in Disk /\ Len(d.versions) <= MaxVersions
    /\ \A k \in DOMAIN d.appended : d.appended[k] <= id
    /\ \A k \in DOMAIN d.appended : d.appended[k] = id => id \in d.unseen \cup ToSet(d.turns)
    /\ Once(d)

\* What the conversational agent settles on before it is filtered.
Spoken == {"real", "cited", "bare", "unavailable", "apology"}
Answering ==
    /\ phase \in {"logged", "saved", "ready", "hooked"} /\ Conversational
          /\ answer.status = "complete" => answer.text \in Spoken
    /\ phase = "idle" => early = NoAnswer /\ final = NoAnswer
    /\ NeverEmpty

Inv ==
    /\ Settings /\ Attached /\ Stored(disk, turn.id) /\ Going /\ Answers
    /\ Logged /\ Voiced /\ Answering /\ FilesAndUrlsHonoured

-----------------------------------------------------------------------------
(* Session files                                                           *)

LEMMA Joined ==
  ASSUME NEW S, NEW a \in Seq(S), NEW b \in Seq(S)
  PROVE  a \o b \in Seq(S) /\ Len(a \o b) = Len(a) + Len(b)
  OBVIOUS

LEMMA RemovedAt ==
  ASSUME NEW S, NEW s \in Seq(S), NEW k \in 1 .. Len(s)
  PROVE  /\ RemoveAt(s, k) \in Seq(S)
         /\ Len(RemoveAt(s, k)) = Len(s) - 1
         /\ \A i \in 1 .. Len(s) - 1 : RemoveAt(s, k)[i] = IF i < k THEN s[i] ELSE s[i + 1]
  <1> DEFINE a == SubSeq(s, 1, k - 1)
             b == SubSeq(s, k + 1, Len(s))
  <1>1. Len(s) \in Nat /\ k \in Nat /\ 1 <= k /\ k <= Len(s)
    OBVIOUS
  <1>2. a \in Seq(S) /\ Len(a) = k - 1 /\ \A i \in 1 .. k - 1 : a[i] = s[i]
    BY <1>1
  <1>3. b \in Seq(S) /\ Len(b) = Len(s) - k /\ \A i \in 1 .. Len(s) - k : b[i] = s[k + i]
    BY <1>1
  <1>4. RemoveAt(s, k) = a \o b
    BY DEF RemoveAt
  <1> HIDE DEF a, b
  <1>5. a \o b \in Seq(S) /\ Len(a \o b) = Len(s) - 1
    <2>1. a \o b \in Seq(S) /\ Len(a \o b) = Len(a) + Len(b)
      BY <1>2, <1>3, Joined
    <2> QED BY <1>1, <1>2, <1>3, <2>1
  <1>6. \A i \in 1 .. Len(s) - 1 : i < k => (a \o b)[i] = s[i]
    BY <1>1, <1>2, <1>3
  <1>7. \A i \in 1 .. Len(s) - 1 : ~(i < k) => (a \o b)[i] = s[i + 1]
    <2> SUFFICES ASSUME NEW i \in 1 .. Len(s) - 1, ~(i < k) PROVE (a \o b)[i] = s[i + 1]
      OBVIOUS
    <2>1. i - (k - 1) \in 1 .. Len(s) - k /\ k + (i - (k - 1)) = i + 1
      BY <1>1
    <2>2. (a \o b)[i] = b[i - (k - 1)]
      BY <1>1, <1>2, <1>3, <2>1
    <2> QED BY <1>3, <2>1, <2>2
  <1> QED BY <1>4, <1>5, <1>6, <1>7

LEMMA FileRemoved ==
  ASSUME NEW fs \in Seq(Uploads), Named(fs), NEW k \in DOMAIN fs
  PROVE  LET gs == RemoveFile(fs, fs[k].name) IN gs \in Seq(Uploads) /\ Named(gs)
  <1> DEFINE n == CHOOSE j \in IndexOf(fs, fs[k].name) : TRUE
             gs == RemoveAt(fs, n)
  <1>1. k \in IndexOf(fs, fs[k].name)
    BY DEF IndexOf
  <1>2. n \in IndexOf(fs, fs[k].name)
    BY <1>1
  <1>3. n \in 1 .. Len(fs)
    BY <1>2 DEF IndexOf
  <1>4. RemoveFile(fs, fs[k].name) = gs
    BY DEF RemoveFile
  <1> HIDE DEF n
  <1>5. /\ gs \in Seq(Uploads) /\ Len(gs) = Len(fs) - 1
        /\ \A i \in 1 .. Len(fs) - 1 : gs[i] = IF i < n THEN fs[i] ELSE fs[i + 1]
    BY <1>3, RemovedAt
  <1> HIDE DEF gs
  <1>6. Named(gs)
    <2> SUFFICES ASSUME NEW i \in DOMAIN gs, NEW j \in DOMAIN gs, gs[i].name = gs[j].name
                 PROVE  i = j
      BY DEF Named
    <2> DEFINE p(x) == IF x < n THEN x ELSE x + 1
    <2>1. i \in 1 .. Len(fs) - 1 /\ j \in 1 .. Len(fs) - 1
      BY <1>5
    <2>2. p(i) \in DOMAIN fs /\ p(j) \in DOMAIN fs
      BY <1>3, <2>1
    <2>3. gs[i] = fs[p(i)] /\ gs[j] = fs[p(j)]
      BY <1>5, <2>1
    <2>4. p(i) = p(j)
      BY <2>2, <2>3 DEF Named
    <2> QED BY <1>3, <2>1, <2>4
  <1> QED BY <1>4, <1>5, <1>6

LEMMA FileAdded ==
  ASSUME NEW fs \in Seq(Uploads), Named(fs), NEW f \in Uploads
  PROVE  AddFile(fs, f) \in Seq(Uploads) /\ Named(AddFile(fs, f))
  <1>1. Len(fs) \in Nat /\ DOMAIN fs = 1 .. Len(fs)
    OBVIOUS
  <1>2. CASE IndexOf(fs, f.name) = {}
    <2> DEFINE gs == Append(fs, f)
    <2>1. /\ gs \in Seq(Uploads) /\ DOMAIN gs = 1 .. Len(fs) + 1
          /\ \A k \in 1 .. Len(fs) : gs[k] = fs[k]
          /\ gs[Len(fs) + 1] = f
      BY <1>1
    <2>2. \A k \in 1 .. Len(fs) : fs[k].name # f.name
      BY <1>1, <1>2 DEF IndexOf
    <2>3. AddFile(fs, f) = gs
      BY <1>2 DEF AddFile
    <2> HIDE DEF gs
    <2>4. Named(gs)
      BY <1>1, <2>1, <2>2 DEF Named
    <2> QED BY <2>1, <2>3, <2>4
  <1>3. CASE IndexOf(fs, f.name) # {}
    <2> DEFINE n  == CHOOSE k \in IndexOf(fs, f.name) : TRUE
               gs == [fs EXCEPT ![n] = f]
    <2>1. n \in IndexOf(fs, f.name)
      BY <1>3
    <2>2. n \in DOMAIN fs /\ fs[n].name = f.name
      BY <2>1 DEF IndexOf
    <2>3. AddFile(fs, f) = gs
      BY <1>3 DEF AddFile
    <2> HIDE DEF n
    <2>4. gs \in Seq(Uploads) /\ DOMAIN gs = DOMAIN fs
      BY <2>2
    <2>5. \A k \in DOMAIN fs : gs[k].name = fs[k].name
      BY <2>2
    <2> HIDE DEF gs
    <2>6. Named(gs)
      BY <2>4, <2>5 DEF Named
    <2> QED BY <2>3, <2>4, <2>6
  <1> QED BY <1>2, <1>3

LEMMA PinnedPages ==
  ASSUME NEW fs \in Seq(Uploads)
  PROVE  Pins(fs) \subseteq Pages
  <1>1. \A k \in DOMAIN fs : fs[k] \in Uploads
    OBVIOUS
  <1> QED BY <1>1, TurnAssumption DEF Pins

-----------------------------------------------------------------------------
(* The file                                                                *)

LEMMA StoredNothing == ASSUME NEW id \in Nat PROVE Stored(NoFile, id)
  <1>1. NoFile \in Disk /\ NoFile.versions = <<>> /\ NoFile.appended = <<>>
    BY DEF NoFile, Disk
  <1>2. Len(<<>>) = 0 /\ DOMAIN <<>> = {}
    OBVIOUS
  <1>3. 0 <= MaxVersions
    BY BoundsAssumption
  <1> QED BY <1>1, <1>2, <1>3 DEF Stored, Once

\* A turn that has not come yet appended nothing.
LEMMA StoredLater ==
  ASSUME NEW d, NEW id \in Nat, Stored(d, id)
  PROVE  Stored(d, id + 1)
  <1>1. d.appended \in Seq(Nat)
    BY DEF Stored, Disk
  <1>2. \A k \in DOMAIN d.appended : d.appended[k] \in Nat /\ d.appended[k] <= id
    BY <1>1 DEF Stored
  <1>3. \A k \in DOMAIN d.appended : d.appended[k] <= id + 1 /\ d.appended[k] # id + 1
    BY <1>2
  <1> QED BY <1>3 DEF Stored

LEMMA WriteStores ==
  ASSUME NEW d, NEW id, Stored(d, id), NEW text \in FileTexts
  PROVE  Stored(WriteFile(d, text).disk, id)
  <1> DEFINE e == [d EXCEPT !.versions = Append(@, text)]
  <1>1. WriteFile(d, text).disk = d \/ (WriteFile(d, text).disk = e /\ Len(d.versions) < MaxVersions)
    BY DEF WriteFile
  <1>2. d.versions \in Seq(FileTexts) /\ d \in Disk
    BY DEF Stored, Disk
  <1>3. Append(d.versions, text) \in Seq(FileTexts) /\ Len(Append(d.versions, text)) = Len(d.versions) + 1
    BY <1>2
  <1>4. /\ e \in Disk /\ e.versions = Append(d.versions, text)
        /\ e.appended = d.appended /\ e.turns = d.turns /\ e.unseen = d.unseen
    BY <1>2, <1>3 DEF Disk
  <1> HIDE DEF e
  <1>5. MaxVersions \in Nat /\ Len(d.versions) \in Nat
    BY <1>2, BoundsAssumption
  <1>6. Len(d.versions) < MaxVersions => Stored(e, id)
    BY <1>3, <1>4, <1>5 DEF Stored, Once
  <1> QED BY <1>1, <1>6

\* The cap of the sidecar never drops the turn that has just been added.
LEMMA NewestKeeps ==
  ASSUME NEW s \in Seq(Nat), NEW id \in Nat
  PROVE  LET t == Newest(Append(s, id)) IN t \in Seq(Nat) /\ id \in ToSet(t)
  <1> DEFINE a == Append(s, id)
  <1>1. /\ a \in Seq(Nat) /\ Len(a) = Len(s) + 1 /\ a[Len(s) + 1] = id /\ Len(s) \in Nat
    OBVIOUS
  <1> HIDE DEF a
  <1>2. MaxSidecar \in Nat /\ MaxSidecar >= 1
    BY BoundsAssumption
  <1>3. CASE Len(a) <= MaxSidecar
    <2>1. Newest(a) = a /\ Len(s) + 1 \in DOMAIN a
      BY <1>1, <1>3 DEF Newest
    <2> QED BY <1>1, <2>1 DEF ToSet, a
  <1>4. CASE ~(Len(a) <= MaxSidecar)
    <2>1. Newest(a) = Tail(a) /\ Len(s) >= 1
      BY <1>1, <1>2, <1>4 DEF Newest
    <2>2. Tail(a) \in Seq(Nat) /\ Len(Tail(a)) = Len(s) /\ Tail(a)[Len(s)] = a[Len(s) + 1]
      BY <1>1, <2>1
    <2>3. Len(s) \in DOMAIN Tail(a)
      BY <1>1, <2>1, <2>2
    <2>4. id \in ToSet(Tail(a))
      BY <1>1, <2>2, <2>3 DEF ToSet
    <2> QED BY <2>1, <2>2, <2>4 DEF a
  <1> QED BY <1>3, <1>4

\* One more text of a turn the sidecar did not have.
LEMMA OneMore ==
  ASSUME NEW d, NEW id \in Nat, Stored(d, id), NEW e \in Disk,
         e.versions = d.versions, e.appended = Append(d.appended, id),
         d.unseen \subseteq e.unseen, id \in ToSet(d.turns) => id \in e.unseen,
         id \in e.unseen \cup ToSet(e.turns)
  PROVE  Stored(e, id)
  <1>1. d.appended \in Seq(Nat) /\ Len(d.versions) <= MaxVersions
    BY DEF Stored, Disk
  <1> DEFINE n == Len(d.appended) + 1
  <1>2. /\ DOMAIN e.appended = 1 .. n /\ e.appended[n] = id /\ n \in Nat
        /\ DOMAIN d.appended = 1 .. (n - 1)
        /\ \A k \in 1 .. n - 1 : e.appended[k] = d.appended[k]
    BY <1>1
  <1> HIDE DEF n
  <1>3. \A k \in 1 .. n : k = n \/ k \in 1 .. n - 1
    BY <1>2
  <1>4. \A k \in 1 .. n - 1 : /\ e.appended[k] <= id
                              /\ e.appended[k] = id => id \in e.unseen
    BY <1>2 DEF Stored
  <1>5. Once(e)
    <2> SUFFICES ASSUME NEW j \in 1 .. n, NEW k \in 1 .. n, e.appended[j] = e.appended[k],
                        e.appended[j] \notin e.unseen
                 PROVE  j = k
      BY <1>2 DEF Once
    <2>1. CASE j = n \/ k = n
      BY <1>2, <1>3, <1>4, <2>1
    <2>2. CASE j \in 1 .. n - 1 /\ k \in 1 .. n - 1
      BY <1>2, <2>2 DEF Stored, Once
    <2> QED BY <1>3, <2>1, <2>2
  <1>6. id <= id
    OBVIOUS
  <1> QED BY <1>1, <1>2, <1>3, <1>4, <1>5, <1>6 DEF Stored

LEMMA AppendStores ==
  ASSUME NEW d, NEW id \in Nat, Stored(d, id), NEW s \in AppendFile(d, id)
  PROVE  s \in [disk : Disk, how : How] /\ Stored(s.disk, id)
  <1>1. d \in Disk /\ d.appended \in Seq(Nat) /\ d.turns \in Seq(Nat) /\ d.unseen \in SUBSET Nat
    BY DEF Stored, Disk
  <1>2. PICK read \in {d.turns, <<>>} :
           s \in IF id \in ToSet(read) THEN {[disk |-> d, how |-> "ok"]} ELSE Appended(d, read, id)
    BY DEF AppendFile
  <1>3. CASE id \in ToSet(read)
    BY <1>1, <1>2, <1>3 DEF How
  <1>4. CASE id \notin ToSet(read)
    <2> DEFINE unseen == d.unseen \cup (ToSet(d.turns) \ ToSet(read))
               after  == [d EXCEPT !.appended = Append(@, id), !.unseen = unseen]
               kept   == Newest(Append(read, id))
               noted  == [after EXCEPT !.turns = kept]
               old    == [after EXCEPT !.unseen = @ \cup {id}]
               empty  == [after EXCEPT !.turns = <<>>, !.unseen = @ \cup ToSet(d.turns) \cup {id}]
    <2>1. s \in {[disk |-> noted, how |-> "ok"], [disk |-> old, how |-> "error"],
                 [disk |-> empty, how |-> "error"]}
      BY <1>2, <1>4 DEF Appended
    <2>2. read \in Seq(Nat) /\ <<>> \in Seq(Nat)
      <3>1. <<>> \in Seq(Nat)
        OBVIOUS
      <3> QED BY <1>1, <1>2, <3>1
    <2>3. kept \in Seq(Nat) /\ id \in ToSet(kept)
      BY <2>2, NewestKeeps
    <2>4. ToSet(d.turns) \in SUBSET Nat
      BY <1>1 DEF ToSet
    <2>5. /\ unseen \in SUBSET Nat /\ d.unseen \subseteq unseen
          /\ id \in ToSet(d.turns) => id \in unseen
      BY <1>1, <1>4, <2>4
    <2> HIDE DEF unseen, kept
    <2>6. Append(d.appended, id) \in Seq(Nat)
      BY <1>1
    <2>7. /\ after \in Disk /\ after.versions = d.versions /\ after.turns = d.turns
          /\ after.appended = Append(d.appended, id) /\ after.unseen = unseen
      BY <1>1, <2>5, <2>6 DEF Disk
    <2> HIDE DEF after
    <2>8. /\ noted \in Disk /\ noted.versions = d.versions /\ noted.turns = kept
          /\ noted.appended = Append(d.appended, id) /\ noted.unseen = unseen
      BY <2>3, <2>7 DEF Disk
    <2>9. /\ old \in Disk /\ old.versions = d.versions /\ old.turns = d.turns
          /\ old.appended = Append(d.appended, id) /\ old.unseen = unseen \cup {id}
      BY <2>5, <2>7 DEF Disk
    <2>10. /\ empty \in Disk /\ empty.versions = d.versions /\ empty.turns = <<>>
           /\ empty.appended = Append(d.appended, id)
           /\ empty.unseen = unseen \cup ToSet(d.turns) \cup {id}
      BY <2>2, <2>4, <2>5, <2>7 DEF Disk
    <2> HIDE DEF noted, old, empty
    <2>11. Stored(noted, id)
      BY <2>3, <2>5, <2>8, OneMore
    <2>12. Stored(old, id)
      BY <2>5, <2>9, OneMore
    <2>13. Stored(empty, id)
      BY <2>5, <2>10, OneMore
    <2> QED BY <2>1, <2>8, <2>9, <2>10, <2>11, <2>12, <2>13 DEF How
  <1> QED BY <1>3, <1>4

\* Whatever is lost of a call, the file keeps its texts and their turns.
LEMMA CallStores ==
  ASSUME NEW d, NEW id \in Nat, Stored(d, id), NEW action \in FileActions, NEW text \in FileTexts,
         NEW w, NEW named, NEW f \in FileOp(w, d, action, text, id, named)
  PROVE  Stored(f.disk, id)
  <1> DEFINE done == Served(d, action, text, id)
  <1>1. \A s \in done : (\E x, y : s = [disk |-> x, how |-> y]) /\ Stored(s.disk, id)
    <2> SUFFICES ASSUME NEW s \in done
                 PROVE  (\E x, y : s = [disk |-> x, how |-> y]) /\ Stored(s.disk, id)
      OBVIOUS
    <2>1. CASE action = "read"
      <3>1. s = ReadFile(d)
        BY <2>1 DEF Served
      <3> QED BY <3>1 DEF ReadFile
    <2>2. CASE action = "write"
      <3>1. s = WriteFile(d, text)
        BY <2>2 DEF Served
      <3>2. \E x, y : WriteFile(d, text) = [disk |-> x, how |-> y]
        BY DEF WriteFile
      <3> QED BY <3>1, <3>2, WriteStores
    <2>3. CASE action = "append"
      <3>1. s \in AppendFile(d, id)
        BY <2>3 DEF Served
      <3>2. s \in [disk : Disk, how : How] /\ Stored(s.disk, id)
        BY <3>1, AppendStores
      <3>3. s = [disk |-> s.disk, how |-> s.how]
        BY <3>2
      <3> QED BY <3>2, <3>3
    <2> QED BY <2>1, <2>2, <2>3 DEF FileActions
  <1>2. \/ f = [disk |-> d, how |-> "error"] \/ f = [disk |-> d, how |-> "unreachable"]
        \/ f \in done \/ \E s \in done : f = [s EXCEPT !.how = "unreachable"]
    BY DEF FileOp
  <1> HIDE DEF done
  <1>3. \A s \in done : [s EXCEPT !.how = "unreachable"].disk = s.disk
    BY <1>1
  <1> QED BY <1>1, <1>2, <1>3

LEMMA DispatchStores ==
  ASSUME NEW tools, NEW again, Stored(disk, turn.id), Going, Dispatch(tools, again)
  PROVE  Stored(disk', turn.id)
  <1>1. turn.action \in FileActions /\ turn.content \in FileTexts /\ turn.id \in Nat
    BY DEF Going, Turn, FileTexts, Texts
  <1>2. PICK up \in BOOLEAN :
           \E f \in FileResults([up |-> up, ollama |-> config.ollama], tools) : disk' = f.disk
    BY DEF Dispatch
  <1>3. PICK f \in FileResults([up |-> up, ollama |-> config.ollama], tools) : disk' = f.disk
    BY <1>2
  <1>4. CASE Holds(tools, "file_op")
    <2>1. f \in FileOp([up |-> up, ollama |-> config.ollama], disk, turn.action, turn.content,
                       turn.id, turn.path)
      BY <1>3, <1>4 DEF FileResults
    <2> QED BY <1>1, <1>3, <2>1, CallStores
  <1>5. CASE ~Holds(tools, "file_op")
    <2>1. f = [disk |-> disk, how |-> "ok"]
      BY <1>3, <1>5 DEF FileResults
    <2> QED BY <1>3, <2>1
  <1> QED BY <1>4, <1>5

-----------------------------------------------------------------------------
(* Records of a turn                                                       *)

\* What the steps of a turn leave of its record.
LEMMA MarkedTurn ==
  ASSUME NEW t \in Turn, NEW b \in BOOLEAN, NEW u,
         u = [t EXCEPT !.consulted = b] \/ u = [t EXCEPT !.retried = b]
  PROVE  /\ u \in Turn /\ u.id = t.id /\ u.plan = t.plan
         /\ u.request = t.request /\ u.names = t.names /\ u.voice = t.voice
  BY DEF Turn

LEMMA VoicedTurn ==
  ASSUME NEW t \in Turn, NEW v \in Names \cup {NoText}
  PROVE  LET u == [t EXCEPT !.voice = v]
         IN  /\ u \in Turn /\ u.id = t.id /\ u.plan = t.plan
             /\ u.request = t.request /\ u.names = t.names /\ u.voice = v
  BY DEF Turn

LEMMA RenamedTurn ==
  ASSUME NEW t \in Turn, NEW ns \in SUBSET Names
  PROVE  LET u == [t EXCEPT !.names = ns]
         IN  /\ u \in Turn /\ u.id = t.id /\ u.plan = t.plan
             /\ u.request = t.request /\ u.names = ns /\ u.voice = t.voice
  BY DEF Turn

LEMMA NewTurn ==
  ASSUME NEW id \in Nat
  PROVE  NoTurn(id) \in Turn /\ NoTurn(id).id = id
  <1>1. Direct \in Plans
    BY DirectPlan
  <1>2. "read" \in FileActions
    BY DEF FileActions
  <1>3. FALSE \in BOOLEAN /\ {} \in SUBSET Names /\ NoText \in Instructions \cup {NoText}
        /\ NoText \in Names \cup {NoText}
    OBVIOUS
  <1> QED BY <1>1, <1>2, <1>3 DEF NoTurn, Turn

LEMMA ExecutedPlan ==
  ASSUME NEW plan \in Plans
  PROVE  /\ Executed(plan) \in Plans /\ Executed(plan).agent = plan.agent
         /\ Executed(plan).deferred = plan.deferred
  <1>1. Direct \in Plans
    BY DirectPlan
  <1> QED BY <1>1 DEF Executed, Plans

LEMMA AcceptedTurn ==
  ASSUME NEW t \in Turn
  PROVE  LET u == [t EXCEPT !.request = NoText, !.plan = Executed(@)]
         IN  /\ u \in Turn /\ u.id = t.id /\ u.plan = Executed(t.plan) /\ u.names = t.names
             /\ u.voice = t.voice
  <1>1. Executed(t.plan) \in Plans
    BY ExecutedPlan DEF Turn
  <1> QED BY <1>1 DEF Turn

\* The record a submitted turn starts with.
Started(id, r, plan, action, content, path, url, n) ==
    [NoTurn(id) EXCEPT !.request = r, !.plan = plan, !.action = action, !.content = content,
                       !.path = path, !.url = url, !.names = {n}]

LEMMA EmptyAnswer ==
  NoAnswer \in Answer /\ NoAnswer.status = "none" /\ NoAnswer.text = "" /\ NoAnswer.note = ""
  <1>1. "none" \in Statuses /\ "" \in Texts /\ "" \in Notes
    BY DEF Statuses, Texts, Notes
  <1> QED BY <1>1 DEF NoAnswer, Answer

LEMMA AnswerWith ==
  ASSUME NEW status \in Statuses, NEW text \in Texts
  PROVE  /\ LET e == [NoAnswer EXCEPT !.status = status]
            IN  e \in Answer /\ e.status = status /\ e.text = "" /\ e.note = ""
         /\ LET e == [NoAnswer EXCEPT !.status = status, !.text = text]
            IN  e \in Answer /\ e.status = status /\ e.text = text /\ e.note = ""
  BY EmptyAnswer DEF Answer

LEMMA NoteChanged ==
  ASSUME NEW a \in Answer, NEW note \in Notes
  PROVE  LET e == [a EXCEPT !.note = note]
         IN  e \in Answer /\ e.status = a.status /\ e.text = a.text
  BY DEF Answer

LEMMA Rewritten ==
  ASSUME NEW a \in Answer, NEW text \in Texts
  PROVE  [a EXCEPT !.text = text, !.note = ""] \in Answer
  <1>1. "" \in Notes
    BY DEF Notes
  <1> QED BY <1>1 DEF Answer

LEMMA PlainAnswers ==
  /\ Failed \in Answer /\ Failed.status = "failed" /\ Failed.text = "" /\ Failed.note = ""
  /\ Apology \in Answer /\ Apology.status = "complete" /\ Apology.text = "apology"
  <1>1. "failed" \in Statuses /\ "complete" \in Statuses /\ "apology" \in Texts
    BY DEF Statuses, Texts
  <1> QED BY <1>1, AnswerWith DEF Failed, Apology

-----------------------------------------------------------------------------
(* What the conversational agent answers                                   *)

Replies == {Failed} \cup
           {[NoAnswer EXCEPT !.status = "complete", !.text = Replied(t)] : t \in Written}

LEMMA ReplyAnswers ==
  ASSUME NEW a \in Replies
  PROVE  /\ a \in Answer /\ a.status \in {"complete", "failed"}
         /\ a.status = "complete" => a.text \in Spoken \cup {"blank"}
  <1>1. CASE a = Failed
    BY <1>1, PlainAnswers
  <1>2. CASE a # Failed
    <2>1. PICK t \in Written : a = [NoAnswer EXCEPT !.status = "complete", !.text = Replied(t)]
      BY <1>2 DEF Replies
    <2>2. Replied(t) \in Spoken \cup {"blank"}
      BY DEF Written, Replied, Spoken
    <2>3. Replied(t) \in Texts /\ "complete" \in Statuses
      BY <2>2 DEF Spoken, Texts, Statuses
    <2> QED BY <2>1, <2>2, <2>3, AnswerWith
  <1> QED BY <1>1, <1>2

\* A retry settles on the apology rather than on nothing.
LEMMA SettledReply ==
  ASSUME NEW a \in Replies
  PROVE  /\ Retried(a) \in Answer
         /\ Retried(a).status = "complete" => Retried(a).text \in Spoken
         /\ a.text # "blank" /\ a.status = "complete" => a.text \in Spoken
  <1>1. a \in Answer /\ (a.status = "complete" => a.text \in Spoken \cup {"blank"})
    BY ReplyAnswers
  <1>2. Apology \in Answer /\ Apology.text \in Spoken
    BY PlainAnswers DEF Spoken
  <1>3. /\ a.status = "complete" /\ a.text # "blank" => Retried(a) = a
        /\ ~(a.status = "complete" /\ a.text # "blank") => Retried(a) = Apology
    BY DEF Retried
  <1> QED BY <1>1, <1>2, <1>3

\* The filter leaves something to show: a caveat, or the note of the save.
LEMMA FilterShows ==
  ASSUME NEW a \in Answer
  PROVE  /\ Stripped(a) \in Answer /\ Stripped(a).status = a.status
         /\ a.text \in Spoken => Shown(Stripped(a))
  <1>1. "real" \in Texts /\ "caveat" \in Texts /\ "" \in Texts /\ a.note \in Notes
    BY DEF Texts, Answer
  <1>2. CASE a.text = "cited"
    <2>1. Stripped(a) = [a EXCEPT !.text = "real"]
      BY <1>2 DEF Stripped
    <2>2. Stripped(a) \in Answer /\ Stripped(a).status = a.status /\ Stripped(a).text = "real"
      BY <1>1, <2>1 DEF Answer
    <2> QED BY <2>2 DEF Shown
  <1>3. CASE a.text = "bare"
    <2> DEFINE t == IF a.note = "" THEN "caveat" ELSE ""
    <2>1. Stripped(a) = [a EXCEPT !.text = t]
      BY <1>3 DEF Stripped
    <2>2. t \in Texts /\ (a.note = "" => t = "caveat")
      BY <1>1
    <2> HIDE DEF t
    <2>3. /\ Stripped(a) \in Answer /\ Stripped(a).status = a.status /\ Stripped(a).text = t
          /\ Stripped(a).note = a.note
      BY <1>1, <2>1, <2>2 DEF Answer
    <2> QED BY <2>2, <2>3 DEF Shown
  <1>4. CASE a.text # "cited" /\ a.text # "bare"
    <2>1. Stripped(a) = a
      BY <1>4 DEF Stripped
    <2> QED BY <2>1 DEF Shown, Spoken
  <1> QED BY <1>2, <1>3, <1>4

LEMMA ResultShown ==
  ASSUME answer \in Answer,
         Conversational /\ answer.status = "complete" => answer.text \in Spoken
  PROVE  /\ Result \in Answer
         /\ Conversational /\ Result.status = "complete" => Shown(Result)
  <1>1. \/ Result = NoAnswer
        \/ Conversational /\ answer.status = "complete" /\ Result = Stripped(answer)
        \/ Conversational /\ answer.status = "complete" /\ Result = answer
    BY DEF Result
  <1>2. answer.text \in Spoken => Shown(answer)
    BY DEF Shown, Spoken
  <1> QED BY <1>1, <1>2, FilterShows, EmptyAnswer

LEMMA FinalShown ==
  ASSUME answer \in Answer,
         Conversational /\ answer.status = "complete" => answer.text \in Spoken,
         NEW f \in Finals
  PROVE  /\ f \in Answer
         /\ Conversational /\ f.status = "complete" => Shown(f)
  <1>1. CASE f = Result
    BY <1>1, ResultShown
  <1>2. CASE f = Failed
    BY <1>2, PlainAnswers
  <1>3. CASE ~Conversational /\ f \in WikiResults
    <2>1. {"diffs", "real", "blank"} \subseteq Texts
      BY DEF Texts
    <2>2. f = Failed \/ \E t \in {"diffs", "real", "blank"} : f = [answer EXCEPT !.text = t, !.note = ""]
      BY <1>3 DEF WikiResults
    <2> QED BY <1>3, <2>1, <2>2, PlainAnswers, Rewritten
  <1>4. f = Result \/ f = Failed \/ (~Conversational /\ f \in WikiResults)
    BY DEF Finals
  <1> QED BY <1>1, <1>2, <1>3, <1>4

-----------------------------------------------------------------------------
(* Submit                                                                  *)

LEMMA Asked ==
  ASSUME Settings, NEW q \in Requests[scenario], Attached
  PROVE  LET r == [q EXCEPT !.pins = Pins(files)]
         IN  r \in Instructions /\ r.pins \subseteq Pages
  <1>1. q \in Instructions
    BY TurnAssumption DEF Settings, Instructions
  <1>2. Pins(files) \subseteq Pages
    BY PinnedPages DEF Attached
  <1> QED BY <1>1, <1>2 DEF Instructions

LEMMA SubmitPlans ==
  ASSUME Settings, Attached, Going, Submit
  PROVE  /\ turn' \in Turn /\ turn'.id = turn.id + 1 /\ turn'.names = {name}
         /\ turn'.request \in Instructions
         /\ \E old : turn'.plan = Route(turn'.request, config, old)
         /\ turn'.request.pins \subseteq Pages
         /\ lastTools' \in BOOLEAN
  <1> DEFINE r(q)    == [q EXCEPT !.pins = Pins(files)]
             plan(q) == Route(r(q), config, lastTools)
             text(q) == IF Says(r(q), {"content"}) THEN "asked" ELSE ""
  <1>1. PICK q \in Requests[scenario], path \in BOOLEAN :
           /\ turn' = Started(turn.id + 1, r(q), plan(q), FileAction(r(q)), text(q), path,
                              Says(r(q), {"url"}), name)
           /\ lastTools' \in BOOLEAN
    BY DEF Submit, Started
  <1>2. PICK url \in BOOLEAN : turn' = Started(turn.id + 1, r(q), plan(q), FileAction(r(q)), text(q),
                                               path, url, name)
    BY <1>1 DEF Says
  <1>3. r(q) \in Instructions /\ r(q).pins \subseteq Pages
    BY Asked
  <1>4. text(q) \in {"", "asked"}
    OBVIOUS
  <1> HIDE DEF r, text
  <1>5. plan(q) \in Plans
    BY <1>3, RouteIsPlan
  <1>6. FileAction(r(q)) \in FileActions
    BY DEF FileAction, FileActions
  <1>7. turn.id + 1 \in Nat /\ name \in Names
    <2>1. turn.id \in Nat
      BY DEF Going, Turn
    <2>2. name \in Names
      BY DEF Settings
    <2> QED BY <2>1, <2>2
  <1> HIDE DEF plan
  <1>8. turn' \in Turn /\ turn'.id = turn.id + 1 /\ turn'.request = r(q) /\ turn'.plan = plan(q)
        /\ turn'.names = {name}
    <2> DEFINE k == turn.id + 1
               a == FileAction(r(q))
               p == plan(q)
               i == r(q)
               c == text(q)
    <2>1. /\ turn' = Started(k, i, p, a, c, path, url, name)
          /\ path \in BOOLEAN /\ url \in BOOLEAN
      BY <1>1, <1>2
    <2>2. i \in Instructions /\ p \in Plans /\ a \in FileActions /\ c \in {"", "asked"}
      BY <1>3, <1>4, <1>5, <1>6
    <2>3. {name} \in SUBSET Names
      BY <1>7
    <2>4. NoTurn(k) \in Turn /\ NoTurn(k).id = k
      BY <1>7, NewTurn
    <2> HIDE DEF k, a, p, i, c
    <2>5. /\ turn' \in Turn /\ turn'.id = k /\ turn'.request = i /\ turn'.plan = p
          /\ turn'.names = {name}
      BY <2>1, <2>2, <2>3, <2>4 DEF Turn, Started
    <2> QED BY <2>5 DEF k, p, i
  <1> QED BY <1>1, <1>3, <1>8 DEF plan

LEMMA SubmitHonours ==
  ASSUME Settings, Attached, Going, Submit
  PROVE  FilesAndUrlsHonoured'
  <1>1. /\ turn'.request.pins \subseteq Pages
        /\ \E old : turn'.plan = Route(turn'.request, config, old)
    BY SubmitPlans
  <1>2. PICK old : turn'.plan = Route(turn'.request, config, old)
    BY <1>1
  <1>3. Unclaimed(turn'.request) => \/ turn'.plan.deferred # "none"
                                    \/ Holds(turn'.plan.tools, "file_op")
                                    \/ Holds(turn'.plan.tools, "url_fetch")
    BY <1>1, <1>2, FileOrUrlRouted
  <1> QED BY <1>3 DEF FilesAndUrlsHonoured, Unclaimed

-----------------------------------------------------------------------------
(* Types are kept                                                          *)

LEMMA Edited ==
  ASSUME Settings, Edit
  PROVE  edits' \in 0 .. MaxEdits[scenario]
  <1>1. edits \in 0 .. MaxEdits[scenario] /\ MaxEdits[scenario] \in Nat
    BY TurnAssumption DEF Settings
  <1>2. edits < MaxEdits[scenario] /\ edits' = edits + 1
    BY DEF Edit
  <1> QED BY <1>1, <1>2

LEMMA SettingsKept ==
  ASSUME Settings, Attached, Going, Next
  PROVE  Settings'
  <1>1. CASE Submit
    <2>1. lastTools' \in BOOLEAN
      BY <1>1, SubmitPlans
    <2> QED BY <1>1, <2>1 DEF Submit, Settings, settings
  <1>2. CASE ReadPersona
    BY <1>2 DEF ReadPersona, Settings, settings
  <1>3. CASE FetchPersona
    <2>1. turn.voice \in Names \cup {NoText}
      BY DEF Going, Turn
    <2> QED BY <1>3, <2>1 DEF FetchPersona, Settings, settings
  <1>4. CASE Hook
    BY <1>4 DEF Hook, Settings, settings
  <1>5. CASE Accept \/ CallTools \/ Gather \/ Build \/ Save \/ Ready \/ Finish \/ EndTurn
    BY <1>5 DEF Accept, CallTools, Gather, Build, Save, Ready, Finish, EndTurn,
                Settings, settings, process
  <1>6. CASE Reply \/ Propose \/ Retry \/ Raise
    BY <1>6 DEF Reply, Propose, Retry, Raise, Settings, settings, process
  <1>7. CASE Rename
    <2>1. edits' \in 0 .. MaxEdits[scenario]
      BY <1>7, Edited DEF Rename
    <2>2. name' \in Names /\ stale' \in BOOLEAN /\ UNCHANGED process
      BY <1>7 DEF Rename
    <2> QED BY <2>1, <2>2 DEF Settings, process
  <1>8. CASE Invalidate
    BY <1>8 DEF Invalidate, Settings
  <1>9. CASE Upload \/ Detach
    <2>1. edits' \in 0 .. MaxEdits[scenario]
      BY <1>9, Edited DEF Upload, Detach
    <2> QED BY <1>9, <2>1 DEF Upload, Detach, Settings
  <1>10. CASE Restart
    <2>1. edits' \in 0 .. MaxEdits[scenario]
      BY <1>10, Edited DEF Restart
    <2> QED BY <1>10, <2>1 DEF Restart, Settings
  <1> QED BY <1>1, <1>2, <1>3, <1>4, <1>5, <1>6, <1>7, <1>8, <1>9, <1>10 DEF Next, Work, Around

LEMMA AttachedKept ==
  ASSUME Attached, Next
  PROVE  Attached'
  <1>1. CASE Upload
    <2>1. PICK f \in Uploads : files' = AddFile(files, f)
      BY <1>1 DEF Upload
    <2> QED BY <2>1, FileAdded DEF Attached
  <1>2. CASE Detach
    <2>1. PICK k \in DOMAIN files : files' = RemoveFile(files, files[k].name)
      BY <1>2 DEF Detach
    <2> QED BY <2>1, FileRemoved DEF Attached
  <1>3. CASE Restart
    <2>1. files' = <<>>
      BY <1>3 DEF Restart
    <2>2. <<>> \in Seq(Uploads) /\ Named(<<>>)
      BY DEF Named
    <2> QED BY <2>1, <2>2 DEF Attached
  <1>4. CASE Submit \/ ReadPersona \/ FetchPersona \/ Hook \/ Rename \/ Invalidate
    <2>1. files' = files
      BY <1>4 DEF Submit, ReadPersona, FetchPersona, Hook, Rename, Invalidate, process
    <2> QED BY <2>1 DEF Attached
  <1>5. CASE Accept \/ CallTools \/ Gather \/ Build \/ Save \/ Ready \/ Finish \/ EndTurn
    <2>1. files' = files
      BY <1>5 DEF Accept, CallTools, Gather, Build, Save, Ready, Finish, EndTurn, process
    <2> QED BY <2>1 DEF Attached
  <1>6. CASE Reply \/ Propose \/ Retry \/ Raise
    <2>1. files' = files
      BY <1>6 DEF Reply, Propose, Retry, Raise, process
    <2> QED BY <2>1 DEF Attached
  <1> QED BY <1>1, <1>2, <1>3, <1>4, <1>5, <1>6 DEF Next, Work, Around

LEMMA SameTurn ==
  ASSUME Going, Next, ~Submit
  PROVE  turn'.id = turn.id
  <1>1. turn \in Turn /\ turn.id \in Nat
    BY DEF Going, Turn
  <1>2. CASE Accept
    BY <1>1, <1>2, AcceptedTurn DEF Accept
  <1>3. CASE Gather \/ Retry \/ ReadPersona \/ FetchPersona \/ Rename
    BY <1>1, <1>3 DEF Gather, Retry, ReadPersona, FetchPersona, Rename, Turn
  <1>4. CASE EndTurn \/ Restart
    BY <1>1, <1>4, NewTurn DEF EndTurn, Restart
  <1>5. CASE CallTools \/ Build \/ Reply \/ Propose \/ Raise \/ Save \/ Ready \/ Hook \/ Finish
    BY <1>5 DEF CallTools, Build, Reply, Propose, Raise, Save, Ready, Hook, Finish
  <1>6. CASE Invalidate \/ Upload \/ Detach
    BY <1>6 DEF Invalidate, Upload, Detach
  <1> QED BY <1>2, <1>3, <1>4, <1>5, <1>6 DEF Next, Work, Around

LEMMA StoredKept ==
  ASSUME Stored(disk, turn.id), Settings, Attached, Going, Answers, Next
  PROVE  Stored(disk, turn.id)'
  <1>1. turn.id \in Nat
    BY DEF Going, Turn
  <1>2. CASE Submit
    <2>1. turn'.id = turn.id + 1
      BY <1>2, SubmitPlans
    <2>2. disk' = disk
      BY <1>2 DEF Submit
    <2>3. Stored(disk, turn.id + 1)
      BY <1>1, StoredLater
    <2> QED BY <2>1, <2>2, <2>3
  <1>3. CASE ~Submit
    <2>1. turn'.id = turn.id
      BY <1>3, SameTurn
    <2>2. Stored(disk', turn.id)
      <3>1. CASE CallTools
        <4>1. Dispatch(turn.plan.tools, FALSE) \/ disk' = disk
          BY <3>1 DEF CallTools
        <4> QED BY <4>1, DispatchStores
      <3>2. CASE Retry
        <4>1. Dispatch(Forced, TRUE)
          BY <3>2 DEF Retry
        <4> QED BY <4>1, DispatchStores
      <3>3. CASE Save
        <4>1. CASE turn.plan.deferred = "none" \/ answer.status # "complete"
          BY <3>3, <4>1 DEF Save
        <4>2. CASE ~(turn.plan.deferred = "none" \/ answer.status # "complete")
          <5>1. PICK up \in BOOLEAN :
                   \E f \in FileOp([up |-> up], disk, turn.plan.deferred, answer.text, turn.id,
                                   turn.path) : disk' = f.disk
            BY <3>3, <4>2 DEF Save
          <5>2. PICK f \in FileOp([up |-> up], disk, turn.plan.deferred, answer.text, turn.id,
                                  turn.path) : disk' = f.disk
            BY <5>1
          <5>3. turn.plan.deferred \in {"none", "write", "append"} /\ turn.id \in Nat
            BY DEF Going, Turn, Plans
          <5>4. turn.plan.deferred \in FileActions
            BY <4>2, <5>3 DEF FileActions
          <5>5. answer.text \in FileTexts
            BY DEF Answers, Answer, FileTexts
          <5> QED BY <5>2, <5>3, <5>4, <5>5, CallStores
        <4> QED BY <4>1, <4>2
      <3>4. CASE ReadPersona \/ FetchPersona \/ Hook \/ Rename \/ Invalidate \/ Upload \/ Detach
                 \/ Restart
        BY <3>4 DEF ReadPersona, FetchPersona, Hook, Rename, Invalidate, Upload, Detach, Restart
      <3>5. CASE Accept \/ Gather \/ Build \/ Ready \/ Finish \/ EndTurn \/ Reply \/ Propose \/ Raise
        BY <3>5 DEF Accept, Gather, Build, Ready, Finish, EndTurn, Reply, Propose, Raise
      <3> QED BY <1>3, <3>1, <3>2, <3>3, <3>4, <3>5 DEF Next, Work, Around
    <2> QED BY <2>1, <2>2
  <1> QED BY <1>2, <1>3

LEMMA GoingKept ==
  ASSUME Settings, Attached, Going, Next
  PROVE  Going'
  <1>1. turn \in Turn /\ turn.id \in 0 .. MaxTurns[scenario] /\ MaxTurns[scenario] \in Nat
    BY TurnAssumption DEF Going, Settings
  <1>2. CASE Submit
    <2>1. turn' \in Turn /\ turn'.id = turn.id + 1
      BY <1>2, SubmitPlans
    <2>2. turn.id < MaxTurns[scenario] /\ phase' = "planned" /\ scenario' = scenario
      BY <1>2 DEF Submit
    <2>3. turn.id + 1 \in 0 .. MaxTurns[scenario]
      BY <1>1, <2>2
    <2> QED BY <2>1, <2>2, <2>3 DEF Going, Phases
  <1>3. CASE Accept
    <2>1. turn' \in Turn /\ turn'.id = turn.id
      BY <1>1, <1>3, AcceptedTurn DEF Accept
    <2> QED BY <1>1, <1>3, <2>1 DEF Accept, Going, Phases, process
  <1>4. CASE Gather \/ Retry
    <2>1. Consulted \in BOOLEAN /\ TRUE \in BOOLEAN
      BY DEF Consulted, SearchFailed
    <2>2. PICK b \in BOOLEAN : turn' = [turn EXCEPT !.consulted = b] \/ turn' = [turn EXCEPT !.retried = b]
      BY <1>4, <2>1 DEF Gather, Retry
    <2>3. turn' \in Turn /\ turn'.id = turn.id
      BY <1>1, <2>2, MarkedTurn
    <2> QED BY <1>1, <1>4, <2>3 DEF Gather, Retry, Going, Phases, process
  <1>5. CASE ReadPersona \/ FetchPersona
    <2>1. PICK v \in Names \cup {NoText} : turn' = [turn EXCEPT !.voice = v]
      <3>1. persona \in Names \cup {NoText} /\ name \in Names \cup {NoText}
        BY DEF Settings
      <3>2. turn.voice \in Names \cup {NoText}
        BY <1>1 DEF Turn
      <3> QED BY <1>5, <3>1, <3>2 DEF ReadPersona, FetchPersona
    <2>2. turn' \in Turn /\ turn'.id = turn.id
      BY <1>1, <2>1, VoicedTurn
    <2> QED BY <1>1, <1>5, <2>2 DEF ReadPersona, FetchPersona, Going, Phases
  <1>6. CASE Rename
    <2>1. PICK ns \in SUBSET Names : turn' = [turn EXCEPT !.names = ns]
      <3>1. turn.names \in SUBSET Names
        BY <1>1 DEF Turn
      <3>2. name' \in Names
        BY <1>6 DEF Rename
      <3>3. (IF phase = "idle" THEN {} ELSE turn.names \cup {name'}) \in SUBSET Names
        BY <3>1, <3>2
      <3> QED BY <1>6, <3>3 DEF Rename
    <2>2. turn' \in Turn /\ turn'.id = turn.id
      BY <1>1, <2>1, RenamedTurn
    <2> QED BY <1>1, <1>6, <2>2 DEF Rename, Going, process
  <1>7. CASE EndTurn \/ Restart
    <2>1. turn.id \in Nat
      BY <1>1
    <2>2. turn' \in Turn /\ turn'.id = turn.id
      BY <1>7, <2>1, NewTurn DEF EndTurn, Restart
    <2> QED BY <1>1, <1>7, <2>2 DEF EndTurn, Restart, Going, Phases, process
  <1>8. CASE CallTools \/ Build \/ Reply \/ Propose \/ Raise \/ Save \/ Ready \/ Hook \/ Finish
    <2>1. turn' = turn /\ scenario' = scenario
      BY <1>8 DEF CallTools, Build, Reply, Propose, Raise, Save, Ready, Hook, Finish, process
    <2>2. phase' \in Phases
      BY <1>8 DEF CallTools, Build, Reply, Propose, Raise, Save, Ready, Hook, Finish, Settle, Phases
    <2> QED BY <1>1, <2>1, <2>2 DEF Going
  <1>9. CASE Invalidate \/ Upload \/ Detach
    BY <1>9 DEF Invalidate, Upload, Detach, Going
  <1> QED BY <1>2, <1>3, <1>4, <1>5, <1>6, <1>7, <1>8, <1>9 DEF Next, Work, Around

-----------------------------------------------------------------------------
(* What a step does to the turn                                            *)

LEMMA Reads ==
  ASSUME Settings, Going, ReadPersona \/ FetchPersona
  PROVE  /\ turn'.plan = turn.plan /\ turn'.names = turn.names
         /\ ReadPersona => turn'.voice = IF PersonaFresh \/ ~config.memory THEN persona ELSE name
         /\ FetchPersona => turn'.voice = persona' /\ persona' \in {turn.voice, persona}
  <1>1. turn \in Turn /\ persona \in Names \cup {NoText} /\ name \in Names \cup {NoText}
    BY DEF Settings, Going
  <1>2. turn.voice \in Names \cup {NoText}
    BY <1>1 DEF Turn
  <1>3. CASE ReadPersona
    <2>1. turn' = [turn EXCEPT !.voice = IF PersonaFresh \/ ~config.memory THEN persona ELSE name]
      BY <1>3 DEF ReadPersona
    <2>2. (IF PersonaFresh \/ ~config.memory THEN persona ELSE name) \in Names \cup {NoText}
      BY <1>1
    <2>3. ~FetchPersona
      BY <1>3 DEF ReadPersona, FetchPersona
    <2> QED BY <1>1, <2>1, <2>2, <2>3, VoicedTurn
  <1>4. CASE FetchPersona
    <2>1. persona' \in {turn.voice, persona} /\ turn' = [turn EXCEPT !.voice = persona']
      BY <1>4 DEF FetchPersona
    <2>2. persona' \in Names \cup {NoText}
      BY <1>1, <1>2, <2>1
    <2>3. ~ReadPersona
      BY <1>4 DEF ReadPersona, FetchPersona
    <2> QED BY <1>1, <2>1, <2>2, <2>3, VoicedTurn
  <1> QED BY <1>3, <1>4

LEMMA Marks ==
  ASSUME Going, Gather \/ Retry
  PROVE  turn'.plan = turn.plan /\ turn'.names = turn.names /\ turn'.voice = turn.voice
  <1>1. turn \in Turn
    BY DEF Going
  <1>2. Consulted \in BOOLEAN /\ TRUE \in BOOLEAN
    BY DEF Consulted, SearchFailed
  <1>3. PICK b \in BOOLEAN : turn' = [turn EXCEPT !.consulted = b] \/ turn' = [turn EXCEPT !.retried = b]
    BY <1>2 DEF Gather, Retry
  <1> QED BY <1>1, <1>3, MarkedTurn

LEMMA Renames ==
  ASSUME Going, Rename
  PROVE  /\ turn'.plan = turn.plan /\ turn'.request = turn.request /\ turn'.voice = turn.voice
         /\ turn'.names = IF phase = "idle" THEN {} ELSE turn.names \cup {name'}
  <1>1. turn \in Turn
    BY DEF Going
  <1>2. turn.names \in SUBSET Names
    BY <1>1 DEF Turn
  <1>3. name' \in Names
    BY DEF Rename
  <1>4. (IF phase = "idle" THEN {} ELSE turn.names \cup {name'}) \in SUBSET Names
    BY <1>2, <1>3
  <1>5. turn' = [turn EXCEPT !.names = IF phase = "idle" THEN {} ELSE turn.names \cup {name'}]
    BY DEF Rename
  <1> QED BY <1>1, <1>4, <1>5, RenamedTurn

LEMMA Accepts ==
  ASSUME Going, Accept
  PROVE  turn'.plan.agent = turn.plan.agent /\ turn'.names = turn.names
  <1>1. turn \in Turn
    BY DEF Going
  <1>2. turn' = [turn EXCEPT !.request = NoText, !.plan = Executed(@)]
    BY DEF Accept
  <1>3. turn'.plan = Executed(turn.plan) /\ turn'.names = turn.names
    BY <1>1, <1>2, AcceptedTurn
  <1>4. turn.plan \in Plans
    BY <1>1 DEF Turn
  <1> QED BY <1>3, <1>4, ExecutedPlan

\* The agent of a turn is chosen when it is submitted.
LEMMA SameAgent ==
  ASSUME Settings, Going, Next, ~Submit, ~EndTurn, ~Restart
  PROVE  Conversational' <=> Conversational
  <1>1. CASE Accept
    BY <1>1, Accepts DEF Conversational
  <1>2. CASE Gather \/ Retry
    BY <1>2, Marks DEF Conversational
  <1>3. CASE ReadPersona \/ FetchPersona
    BY <1>3, Reads DEF Conversational
  <1>4. CASE Rename
    BY <1>4, Renames DEF Conversational
  <1>5. CASE CallTools \/ Build \/ Reply \/ Propose \/ Raise \/ Save \/ Ready \/ Hook \/ Finish
    <2>1. turn' = turn
      BY <1>5 DEF CallTools, Build, Reply, Propose, Raise, Save, Ready, Hook, Finish
    <2> QED BY <2>1 DEF Conversational
  <1>6. CASE Invalidate \/ Upload \/ Detach
    BY <1>6 DEF Invalidate, Upload, Detach, Conversational
  <1> QED BY <1>1, <1>2, <1>3, <1>4, <1>5, <1>6 DEF Next, Work, Around

-----------------------------------------------------------------------------
(* The name in the prompt                                                  *)

LEMMA VoicedKept ==
  ASSUME Settings, Attached, Going, Voiced, Next
  PROVE  Voiced'
  <1> USE DEF Voiced, PersonaNamed
  <1>1. CASE Submit
    <2>1. turn'.names = {name}
      BY <1>1, SubmitPlans
    <2> QED BY <1>1, <2>1 DEF Submit, settings
  <1>2. CASE Accept
    <2>1. turn'.names = turn.names
      BY <1>2, Accepts
    <2> QED BY <1>2, <2>1 DEF Accept, settings, process
  <1>3. CASE Gather \/ Retry
    <2>1. turn'.names = turn.names
      BY <1>3, Marks
    <2> QED BY <1>3, <2>1 DEF Gather, Retry, settings, process
  <1>4. CASE ReadPersona
    <2>1. /\ turn'.names = turn.names
          /\ turn'.voice = IF PersonaFresh \/ ~config.memory THEN persona ELSE name
      BY <1>4, Reads
    <2>2. name \in turn.names
      BY <1>4 DEF ReadPersona
    <2> QED BY <1>4, <2>1, <2>2 DEF ReadPersona, PersonaFresh, settings
  <1>5. CASE FetchPersona
    <2>1. /\ turn'.names = turn.names
          /\ turn'.voice = persona' /\ persona' \in {turn.voice, persona}
      BY <1>5, Reads
    <2> QED BY <1>5, <2>1 DEF FetchPersona, settings
  <1>6. CASE Build
    BY <1>6 DEF Build, settings, process
  <1>7. CASE Reply \/ Propose \/ Raise
    <2>1. /\ prompt' \in {prompt, NoPrompt} /\ turn' = turn /\ UNCHANGED <<name, persona, config>>
          /\ phase' \in {"logged", "blank", "done"} /\ phase # "idle"
      BY <1>7 DEF Reply, Propose, Raise, Settle, settings, process
    <2>2. NoPrompt.persona = NoText
      BY DEF NoPrompt
    <2> QED BY <2>1, <2>2
  <1>8. CASE CallTools \/ Save \/ Ready \/ Finish
    BY <1>8 DEF CallTools, Save, Ready, Finish, settings, process
  <1>9. CASE Hook
    BY <1>9 DEF Hook, settings
  <1>10. CASE EndTurn \/ Restart
    <2>1. NoPrompt.persona = NoText
      BY DEF NoPrompt
    <2> QED BY <1>10, <2>1 DEF EndTurn, Restart, settings, process
  <1>11. CASE Rename
    <2>1. /\ turn'.voice = turn.voice
          /\ turn'.names = IF phase = "idle" THEN {} ELSE turn.names \cup {name'}
      BY <1>11, Renames
    <2> QED BY <1>11, <2>1 DEF Rename, process
  <1>12. CASE Invalidate \/ Upload \/ Detach
    BY <1>12 DEF Invalidate, Upload, Detach
  <1> QED BY <1>1, <1>2, <1>3, <1>4, <1>5, <1>6, <1>7, <1>8, <1>9, <1>10, <1>11, <1>12
          DEF Next, Work, Around

-----------------------------------------------------------------------------
(* Answers                                                                 *)

\* What Reply, Propose and Raise settle on.
LEMMA Settles ==
  ASSUME Going, Reply \/ Propose \/ Raise
  PROVE  \/ /\ phase' = "blank" /\ UNCHANGED <<log, answer, final>>
         \/ /\ phase' = "done" /\ final' = Failed /\ UNCHANGED <<log, answer>>
         \/ /\ phase' = "logged" /\ UNCHANGED final
            /\ answer' \in Answer /\ log' = Append(log, [role |-> "agent", text |-> answer'.text])
            /\ Conversational /\ answer'.status = "complete" => answer'.text \in Spoken
  <1>1. CASE Reply
    <2>1. PICK a \in Replies :
             IF turn.retried THEN Settle(Retried(a))
             ELSE IF a.text = "blank"
             THEN phase' = "blank" /\ UNCHANGED <<log, answer, found, prompt>>
             ELSE Settle(a)
      BY <1>1 DEF Reply, Replies
    <2>2. a \in Answer /\ Retried(a) \in Answer
      BY ReplyAnswers, SettledReply
    <2>3. /\ Retried(a).status = "complete" => Retried(a).text \in Spoken
          /\ a.text # "blank" /\ a.status = "complete" => a.text \in Spoken
      BY SettledReply
    <2>4. UNCHANGED final
      BY <1>1 DEF Reply, results
    <2> QED BY <2>1, <2>2, <2>3, <2>4 DEF Settle
  <1>2. CASE Propose
    <2>1. PICK status \in {"complete", "failed"} : Settle([NoAnswer EXCEPT !.status = status])
      BY <1>2 DEF Propose
    <2>2. status \in Statuses
      BY DEF Statuses
    <2>3. [NoAnswer EXCEPT !.status = status] \in Answer
      <3>1. "" \in Texts
        BY DEF Texts
      <3> QED BY <2>2, <3>1, AnswerWith
    <2>4. ~Conversational /\ UNCHANGED final
      BY <1>2 DEF Propose, results
    <2> QED BY <2>1, <2>3, <2>4 DEF Settle
  <1>3. CASE Raise
    <2>1. \/ Settle(Apology) /\ UNCHANGED final
          \/ phase' = "done" /\ final' = Failed /\ UNCHANGED <<log, answer>>
      BY <1>3 DEF Raise
    <2>2. Apology \in Answer /\ Apology.text \in Spoken
      BY PlainAnswers DEF Spoken
    <2> QED BY <2>1, <2>2 DEF Settle
  <1> QED BY <1>1, <1>2, <1>3

\* What Save, Ready and Finish leave of the answer, and what they show.
LEMMA Shows ==
  ASSUME Going, Answers, Answering
  PROVE  /\ Save => answer' \in Answer /\ answer'.text = answer.text /\ answer'.status = answer.status
         /\ Ready => early' \in Answer /\ (Conversational /\ early'.status = "complete" => Shown(early'))
         /\ Finish => final' \in Answer /\ (Conversational /\ final'.status = "complete" => Shown(final'))
  <1>1. answer \in Answer
    BY DEF Answers
  <1>2. ASSUME Save
        PROVE  answer' \in Answer /\ answer'.text = answer.text /\ answer'.status = answer.status
    <2>1. CASE turn.plan.deferred = "none" \/ answer.status # "complete"
      BY <1>1, <1>2, <2>1 DEF Save
    <2>2. CASE ~(turn.plan.deferred = "none" \/ answer.status # "complete")
      <3>1. \E how : answer' = [answer EXCEPT !.note = IF how = "ok" THEN "saved" ELSE "not saved"]
        BY <1>2, <2>2 DEF Save
      <3>2. {"saved", "not saved"} \subseteq Notes
        BY DEF Notes
      <3>3. PICK note \in Notes : answer' = [answer EXCEPT !.note = note]
        BY <3>1, <3>2
      <3> QED BY <1>1, <3>3, NoteChanged
    <2> QED BY <2>1, <2>2
  <1>3. ASSUME phase \in {"saved", "hooked"}
        PROVE  Conversational /\ answer.status = "complete" => answer.text \in Spoken
    BY <1>3 DEF Answering
  <1>4. ASSUME Ready
        PROVE  early' \in Answer /\ (Conversational /\ early'.status = "complete" => Shown(early'))
    <2>1. phase = "saved" /\ early' = Result
      BY <1>4 DEF Ready
    <2> QED BY <1>1, <1>3, <2>1, ResultShown
  <1>5. ASSUME Finish
        PROVE  final' \in Answer /\ (Conversational /\ final'.status = "complete" => Shown(final'))
    <2>1. phase = "hooked" /\ final' \in Finals
      BY <1>5 DEF Finish
    <2> QED BY <1>1, <1>3, <2>1, FinalShown
  <1> QED BY <1>2, <1>4, <1>5

LEMMA AnswersKept ==
  ASSUME Going, Answers, Answering, Next
  PROVE  Answers'
  <1> USE DEF Answers
  <1>1. CASE Reply \/ Propose \/ Raise
    <2>1. early' = early
      BY <1>1 DEF Reply, Propose, Raise, results
    <2>2. Failed \in Answer
      BY PlainAnswers
    <2> QED BY <1>1, <2>1, <2>2, Settles
  <1>2. CASE Save
    BY <1>2, Shows DEF Save, results
  <1>3. CASE Ready
    BY <1>3, Shows DEF Ready
  <1>4. CASE Finish
    BY <1>4, Shows DEF Finish
  <1>5. CASE EndTurn \/ Restart
    BY <1>5, EmptyAnswer DEF EndTurn, Restart
  <1>6. CASE Submit \/ ReadPersona \/ FetchPersona \/ Hook \/ Rename \/ Invalidate \/ Upload \/ Detach
    BY <1>6 DEF Submit, ReadPersona, FetchPersona, Hook, Rename, Invalidate, Upload, Detach, results
  <1>7. CASE Accept \/ CallTools \/ Gather \/ Build \/ Retry
    BY <1>7 DEF Accept, CallTools, Gather, Build, Retry, results
  <1> QED BY <1>1, <1>2, <1>3, <1>4, <1>5, <1>6, <1>7 DEF Next, Work, Around

LEMMA AnsweringKept ==
  ASSUME Settings, Going, Answers, Answering, Next
  PROVE  Answering'
  <1> USE DEF Answering, NeverEmpty
  <1>1. /\ NoAnswer.status = "none" /\ Failed.status = "failed"
    BY EmptyAnswer, PlainAnswers
  <1>2. ~Submit /\ ~EndTurn /\ ~Restart => (Conversational' <=> Conversational)
    BY SameAgent
  <1>3. CASE Reply \/ Propose \/ Raise
    <2>1. early' = early /\ phase # "idle" /\ phase' # "idle"
      BY <1>3 DEF Reply, Propose, Raise, Settle, results
    <2>2. ~Submit /\ ~EndTurn /\ ~Restart
      BY <2>1 DEF Submit, EndTurn, Restart
    <2> QED BY <1>1, <1>2, <1>3, <2>1, <2>2, Settles
  <1>4. CASE Save
    <2>1. /\ phase = "logged" /\ phase' = "saved" /\ UNCHANGED results /\ turn' = turn
      BY <1>4 DEF Save
    <2> QED BY <1>4, <2>1, Shows DEF results, Conversational
  <1>5. CASE Ready
    <2>1. phase = "saved" /\ phase' = "ready" /\ answer' = answer /\ final' = final /\ turn' = turn
      BY <1>5 DEF Ready
    <2> QED BY <1>5, <2>1, Shows DEF Conversational
  <1>6. CASE Finish
    <2>1. phase = "hooked" /\ phase' = "done" /\ answer' = answer /\ early' = early /\ turn' = turn
      BY <1>6 DEF Finish
    <2> QED BY <1>6, <2>1, Shows DEF Conversational
  <1>7. CASE Hook
    <2>1. phase = "ready" /\ phase' = "hooked" /\ answer' = answer /\ UNCHANGED results /\ turn' = turn
      BY <1>7 DEF Hook
    <2> QED BY <2>1 DEF results, Conversational
  <1>8. CASE EndTurn \/ Restart
    BY <1>1, <1>8 DEF EndTurn, Restart
  <1>9. CASE Submit
    BY <1>1, <1>9 DEF Submit, results
  <1>10. CASE Accept \/ CallTools \/ Gather \/ ReadPersona \/ FetchPersona \/ Build \/ Retry
    <2>1. /\ phase # "idle" /\ UNCHANGED results
          /\ phase' \in {"accepted", "called", "gathered", "fetching", "voiced", "built"}
      BY <1>10 DEF Accept, CallTools, Gather, ReadPersona, FetchPersona, Build, Retry
    <2>2. ~Submit /\ ~EndTurn /\ ~Restart
      BY <2>1 DEF Submit, EndTurn, Restart
    <2> QED BY <1>2, <2>1, <2>2 DEF results
  <1>11. CASE Rename \/ Invalidate \/ Upload \/ Detach
    <2>1. phase' = phase /\ answer' = answer /\ UNCHANGED results
      BY <1>11 DEF Rename, Invalidate, Upload, Detach
    <2>2. Conversational' <=> Conversational
      BY <1>11, Renames DEF Invalidate, Upload, Detach, Conversational
    <2> QED BY <2>1, <2>2 DEF results
  <1> QED BY <1>3, <1>4, <1>5, <1>6, <1>7, <1>8, <1>9, <1>10, <1>11 DEF Next, Work, Around

-----------------------------------------------------------------------------
(* The memory                                                              *)

LEMMA TwoEntries == ASSUME NEW x, NEW y PROVE Append(<<x>>, y) = <<x, y>>
  <1>1. Len(<<x>>) = 1
    OBVIOUS
  <1>2. DOMAIN <<x, y>> = 1 .. 2
    OBVIOUS
  <1>3. Append(<<x>>, y) = [i \in 1 .. 2 |-> IF i = 2 THEN y ELSE <<x>>[i]]
    BY <1>1
  <1>4. <<x, y>> = [i \in 1 .. 2 |-> IF i = 2 THEN y ELSE <<x>>[i]]
    BY <1>1, <1>2
  <1> QED BY <1>3, <1>4

LEMMA LoggedKept ==
  ASSUME Going, Answers, Answering, Logged, Next
  PROVE  Logged'
  <1> USE DEF Logged, LoggedOnce
  <1>1. CASE Reply \/ Propose \/ Raise
    <2>1. phase \in {"built", "gathered", "voiced", "blank"}
      BY <1>1 DEF Reply, Propose, Raise
    <2>2. log = <<User>>
      BY <2>1
    <2>3. \A entry : Append(<<User>>, entry) = <<User, entry>>
      BY TwoEntries
    <2> QED BY <1>1, <2>2, <2>3, Settles DEF User
  <1>2. CASE Save
    <2>1. answer'.text = answer.text /\ log' = log /\ phase = "logged" /\ phase' = "saved"
      BY <1>2, Shows DEF Save
    <2> QED BY <2>1
  <1>3. CASE Ready \/ Hook
    <2>1. /\ answer' = answer /\ log' = log
          /\ phase \in {"saved", "ready"} /\ phase' \in {"ready", "hooked"}
      BY <1>3 DEF Ready, Hook
    <2> QED BY <2>1
  <1>4. CASE Submit \/ Finish \/ EndTurn \/ Restart
    <2>1. phase' \in {"planned", "done", "idle"}
      BY <1>4 DEF Submit, Finish, EndTurn, Restart
    <2> QED BY <2>1
  <1>5. CASE Accept
    BY <1>5 DEF Accept, User
  <1>6. CASE CallTools \/ Gather \/ ReadPersona \/ FetchPersona \/ Build \/ Retry
    <2>1. /\ phase \in {"accepted", "called", "gathered", "fetching", "voiced", "blank"} /\ log' = log
          /\ phase' \in {"called", "gathered", "fetching", "voiced", "built"}
      BY <1>6 DEF CallTools, Gather, ReadPersona, FetchPersona, Build, Retry
    <2> QED BY <2>1
  <1>7. CASE Rename \/ Invalidate \/ Upload \/ Detach
    BY <1>7 DEF Rename, Invalidate, Upload, Detach
  <1> QED BY <1>1, <1>2, <1>3, <1>4, <1>5, <1>6, <1>7 DEF Next, Work, Around

-----------------------------------------------------------------------------
(* Files and URLs                                                          *)

LEMMA HonouredKept ==
  ASSUME Settings, Attached, Going, FilesAndUrlsHonoured, Next
  PROVE  FilesAndUrlsHonoured'
  <1>1. CASE Submit
    BY <1>1, SubmitHonours
  <1>2. CASE Rename
    <2>1. turn'.plan = turn.plan /\ turn'.request = turn.request /\ phase' = phase
      BY <1>2, Renames DEF Rename
    <2> QED BY <2>1 DEF FilesAndUrlsHonoured
  <1>3. CASE Invalidate \/ Upload \/ Detach
    BY <1>3 DEF Invalidate, Upload, Detach, FilesAndUrlsHonoured
  <1>4. CASE Work \/ Restart
    <2>1. phase' # "planned"
      BY <1>4 DEF Work, Restart, Accept, CallTools, Gather, ReadPersona, FetchPersona, Build, Reply,
                  Propose, Retry, Raise, Save, Ready, Hook, Finish, EndTurn, Settle
    <2> QED BY <2>1 DEF FilesAndUrlsHonoured
  <1> QED BY <1>1, <1>2, <1>3, <1>4 DEF Next, Around

-----------------------------------------------------------------------------
(* The sizes of the slots                                                  *)

\* A set of integers with zero and an upper bound has a largest element.
LEMMA LargestOf ==
  ASSUME NEW S \in SUBSET Int, NEW b \in Nat, 0 \in S, \A y \in S : y <= b
  PROVE  Max(S) \in S /\ Max(S) \in Nat /\ \A y \in S : y <= Max(S)
  <1> DEFINE above == {n \in Nat : \A y \in S : y <= n}
  <1>1. above \in SUBSET Nat /\ b \in above
    OBVIOUS
  <1>2. PICK m \in above : \A n \in above : m =< n
    BY <1>1, LeastOf
  <1>3. m \in S
    <2>1. CASE m = 0
      BY <2>1
    <2>2. CASE m # 0 /\ m \notin S
      <3>1. \A y \in S : y <= m - 1
        BY <1>2, <2>2
      <3>2. m - 1 \in above
        BY <1>2, <2>2, <3>1
      <3> QED BY <1>2, <3>2
    <2> QED BY <2>1, <2>2
  <1>4. \E x \in S : \A y \in S : x >= y
    BY <1>2, <1>3
  <1>5. Max(S) \in S /\ \A y \in S : Max(S) >= y
    BY <1>4 DEF Max
  <1> DEFINE x == Max(S)
  <1>6. x \in Int
    BY <1>5
  <1> HIDE DEF x
  <1>7. \A y \in S : y \in Int /\ x >= y
    BY <1>5 DEF x
  <1>8. x \in Nat /\ \A y \in S : y <= x
    BY <1>6, <1>7
  <1> QED BY <1>5, <1>8 DEF x

\* The running totals up to n.
TotalTo(lengths, n) ==
    {f \in [0 .. n -> Nat] : f[0] = 0 /\ \A k \in 1 .. n : f[k] = f[k - 1] + lengths[k]}

LEMMA TotalNext ==
  ASSUME NEW lengths \in Seq(Nat), NEW n \in 1 .. Len(lengths), TotalTo(lengths, n - 1) # {}
  PROVE  TotalTo(lengths, n) # {}
  <1>1. PICK f \in [0 .. (n - 1) -> Nat] : f[0] = 0 /\ \A k \in 1 .. (n - 1) : f[k] = f[k - 1] + lengths[k]
    BY DEF TotalTo
  <1> DEFINE g == [k \in 0 .. n |-> IF k = n THEN f[n - 1] + lengths[n] ELSE f[k]]
  <1>2. lengths[n] \in Nat /\ n \in Nat /\ n - 1 \in 0 .. (n - 1)
    OBVIOUS
  <1>3. f[n - 1] + lengths[n] \in Nat
    BY <1>1, <1>2
  <1>4. \A k \in 0 .. n : k # n => k \in 0 .. (n - 1)
    BY <1>2
  <1>5. g \in [0 .. n -> Nat]
    BY <1>1, <1>3, <1>4
  <1>6. g[0] = 0
    BY <1>1, <1>2
  <1>7. \A k \in 1 .. n : g[k] = g[k - 1] + lengths[k]
    <2> SUFFICES ASSUME NEW k \in 1 .. n PROVE g[k] = g[k - 1] + lengths[k]
      OBVIOUS
    <2>1. k \in 0 .. n /\ k - 1 \in 0 .. n /\ k - 1 # n
      OBVIOUS
    <2>2. g[k - 1] = f[k - 1]
      BY <2>1
    <2>3. CASE k = n
      BY <2>1, <2>2, <2>3
    <2>4. CASE k # n
      <3>1. k \in 1 .. (n - 1)
        BY <2>4
      <3> QED BY <1>1, <2>1, <2>2, <2>4, <3>1
    <2> QED BY <2>3, <2>4
  <1> HIDE DEF g
  <1> QED BY <1>5, <1>6, <1>7 DEF TotalTo

\* There are running totals of a sequence, by the least length without.
LEMMA TotalExists ==
  ASSUME NEW lengths \in Seq(Nat)
  PROVE  TotalTo(lengths, Len(lengths)) # {}
  <1> DEFINE without == {n \in 0 .. Len(lengths) : TotalTo(lengths, n) = {}}
  <1>1. Len(lengths) \in Nat
    OBVIOUS
  <1>2. SUFFICES without = {}
    BY <1>1
  <1>3. SUFFICES ASSUME without # {} PROVE FALSE
    OBVIOUS
  <1>4. without \in SUBSET Nat
    BY <1>1
  <1>5. PICK m \in without : \A n \in without : m =< n
    BY <1>3, <1>4, LeastOf
  <1>6. CASE m = 0
    <2>1. [k \in 0 .. 0 |-> 0] \in TotalTo(lengths, 0)
      BY DEF TotalTo
    <2> QED BY <1>5, <1>6, <2>1
  <1>7. CASE m # 0
    <2>1. m \in 1 .. Len(lengths) /\ m - 1 \in 0 .. Len(lengths) /\ m \in Nat
      BY <1>5, <1>7, <1>1
    <2>2. m - 1 \notin without
      BY <1>5, <2>1
    <2> QED BY <1>5, <2>1, <2>2, TotalNext
  <1> QED BY <1>6, <1>7

\* What Totals is: the recursion of its definition.
LEMMA RunningTotals ==
  ASSUME NEW lengths \in Seq(Nat)
  PROVE  /\ Totals(lengths) \in [0 .. Len(lengths) -> Nat]
         /\ Totals(lengths)[0] = 0
         /\ \A k \in 1 .. Len(lengths) :
               Totals(lengths)[k] = Totals(lengths)[k - 1] + lengths[k]
  <1> DEFINE N == Len(lengths)
             Step(f) == [n \in 0 .. N |-> IF n = 0 THEN 0 ELSE f[n - 1] + lengths[n]]
  <1>1. N \in Nat /\ \A k \in 1 .. N : lengths[k] \in Nat
    OBVIOUS
  <1>2. PICK g \in [0 .. N -> Nat] : g[0] = 0 /\ \A k \in 1 .. N : g[k] = g[k - 1] + lengths[k]
    BY TotalExists DEF TotalTo
  <1>3. \A n \in 0 .. N : n # 0 => n \in 1 .. N
    BY <1>1
  <1>4. g = Step(g)
    <2>1. \A n \in 0 .. N : g[n] = IF n = 0 THEN 0 ELSE g[n - 1] + lengths[n]
      BY <1>2, <1>3
    <2> QED BY <1>2, <2>1
  <1>5. Totals(lengths) = CHOOSE f : f = Step(f)
    BY DEF Totals
  <1> DEFINE t == Totals(lengths)
  <1>6. t = Step(t)
    <2> HIDE DEF Step
    <2> QED BY <1>4, <1>5
  <1> HIDE DEF t
  <1>7. t[0] = 0
    BY <1>1, <1>6
  <1>8. \A k \in 1 .. N : t[k] = t[k - 1] + lengths[k]
    <2> SUFFICES ASSUME NEW k \in 1 .. N PROVE t[k] = t[k - 1] + lengths[k]
      OBVIOUS
    <2>1. k \in 0 .. N /\ k # 0
      BY <1>1
    <2> QED BY <1>6, <2>1
  <1>9. t = g
    <2> DEFINE apart == {n \in 0 .. N : t[n] # g[n]}
    <2>1. apart \in SUBSET Nat
      BY <1>1
    <2>2. apart = {}
      <3> SUFFICES ASSUME apart # {} PROVE FALSE
        OBVIOUS
      <3>1. PICK m \in apart : \A n \in apart : m =< n
        BY <2>1, LeastOf
      <3>2. m # 0
        BY <1>2, <1>7, <3>1
      <3>3. m \in 1 .. N /\ m - 1 \in 0 .. N
        BY <1>1, <3>1, <3>2
      <3>4. t[m - 1] = g[m - 1]
        BY <3>1, <3>3
      <3> QED BY <1>2, <1>8, <3>1, <3>3, <3>4
    <2>3. \A n \in 0 .. N : t[n] = g[n]
      BY <2>2
    <2>4. t = [n \in 0 .. N |-> t[n]]
      BY <1>6
    <2> QED BY <1>2, <2>3, <2>4
  <1> QED BY <1>2, <1>9 DEF t

LEMMA SumsAreNatural ==
  ASSUME NEW lengths \in Seq(Nat), NEW k \in 0 .. Len(lengths)
  PROVE  SumTo(lengths, k) \in Nat /\ SumTo(lengths, 0) = 0
  BY RunningTotals DEF SumTo

LEMMA TokensOf ==
  ASSUME NEW chars \in Nat
  PROVE  Tokens(chars) \in Nat /\ 4 * Tokens(chars) <= chars
  BY DEF Tokens

LEMMA FewerTokens ==
  ASSUME NEW chars \in Nat, NEW most \in Nat, chars <= most
  PROVE  Tokens(chars) <= Tokens(most)
  BY DEF Tokens

LEMMA TokensOfCeiling == ASSUME NEW n \in Nat PROVE Tokens(4 * n) = n
  BY DEF Tokens

\* The prefix that is kept is within its budget.
LEMMA PrefixFits ==
  ASSUME NEW lengths \in Seq(Nat), NEW n \in Nat
  PROVE  /\ SumTo(lengths, Fitting(lengths, n)) \in Nat
         /\ SumTo(lengths, Fitting(lengths, n)) <= n
  <1> DEFINE kept == {k \in 0 .. Len(lengths) : SumTo(lengths, k) <= n}
  <1>1. Len(lengths) \in Nat
    OBVIOUS
  <1>2. 0 \in kept
    BY <1>1, SumsAreNatural
  <1>3. kept \in SUBSET Int /\ \A k \in kept : k <= Len(lengths)
    BY <1>1
  <1> HIDE DEF kept
  <1>4. Max(kept) \in kept
    BY <1>1, <1>2, <1>3, LargestOf
  <1>5. Fitting(lengths, n) = Max(kept)
    BY DEF Fitting, kept
  <1>6. Fitting(lengths, n) \in 0 .. Len(lengths) /\ SumTo(lengths, Fitting(lengths, n)) <= n
    BY <1>4, <1>5 DEF kept
  <1> QED BY <1>6, SumsAreNatural

LEMMA BlocksTyped ==
  ASSUME NEW f, f.chars \in Nat
  PROVE  FileBlock(f) \in Nat
  <1>1. FileEach \in Nat /\ FileLabel \in Nat /\ CutMark \in Nat
    BY CeilingsAssumption
  <1>2. Truncated(f.chars, FileEach) \in Nat
    BY <1>1 DEF Truncated
  <1>3. Truncated(f.chars, FileEach) + FileLabel \in Nat
    BY <1>1, <1>2
  <1> QED BY <1>3, TokensOf DEF FileBlock

LEMMA FilesFit ==
  ASSUME NEW S, NEW fs \in Seq(S), \A f \in S : f.chars \in Nat
  PROVE  FilesTokens(fs) \in Nat /\ FilesTokens(fs) <= FileTotal
  <1> DEFINE blocks == [k \in DOMAIN fs |-> FileBlock(fs[k])]
  <1>1. Len(fs) \in Nat /\ DOMAIN fs = 1 .. Len(fs) /\ \A k \in 1 .. Len(fs) : fs[k] \in S
    OBVIOUS
  <1>2. \A k \in 1 .. Len(fs) : FileBlock(fs[k]) \in Nat
    BY <1>1, BlocksTyped
  <1>3. blocks \in [1 .. Len(fs) -> Nat]
    BY <1>1, <1>2
  <1>4. blocks \in Seq(Nat)
    BY <1>1, <1>3
  <1>5. FileTotal \in Nat
    BY CeilingsAssumption
  <1>6. FilesTokens(fs) = SumTo(blocks, Fitting(blocks, FileTotal))
    BY DEF FilesTokens
  <1> HIDE DEF blocks
  <1> QED BY <1>4, <1>5, <1>6, PrefixFits

LEMMA EpisodesFit ==
  ASSUME NEW bullets \in Seq(Nat)
  PROVE  EpisodesTokens(bullets) \in Nat /\ EpisodesTokens(bullets) <= EpisodeCeiling
  <1> DEFINE sizes == {Tokens(SumTo(bullets, k)) : k \in 0 .. Len(bullets)}
             small == {t \in sizes : t <= EpisodeCeiling}
  <1>1. Len(bullets) \in Nat /\ EpisodeCeiling \in Nat
    BY CeilingsAssumption
  <1>2. sizes \in SUBSET Nat
    BY SumsAreNatural, TokensOf
  <1>3. 0 \in sizes
    <2>1. SumTo(bullets, 0) = 0 /\ 0 \in 0 .. Len(bullets)
      BY <1>1, SumsAreNatural
    <2>2. Tokens(0) = 0
      BY DEF Tokens
    <2> QED BY <2>1, <2>2
  <1>4. EpisodesTokens(bullets) = Max(small)
    BY DEF EpisodesTokens
  <1> HIDE DEF sizes
  <1>5. small \in SUBSET Int /\ 0 \in small /\ \A t \in small : t <= EpisodeCeiling
    <2>1. \A t \in sizes : t \in Nat
      BY <1>2
    <2>2. 0 <= EpisodeCeiling
      BY <1>1
    <2>3. small \in SUBSET Int
      BY <2>1
    <2> QED BY <1>3, <2>2, <2>3
  <1>6. Max(small) \in small /\ Max(small) \in Nat
    BY <1>1, <1>5, LargestOf
  <1> QED BY <1>4, <1>5, <1>6

LEMMA TurnsFit ==
  ASSUME NEW turns \in Seq(Nat), NEW ceiling \in Nat
  PROVE  TurnsTokens(turns, ceiling) \in Nat /\ TurnsTokens(turns, ceiling) <= ceiling
  <1> DEFINE all   == SumTo(turns, Len(turns))
             from  == {all - SumTo(turns, k) : k \in 0 .. Len(turns)}
             short == {n \in from : n <= 4 * ceiling}
             most  == Max(short)
  <1>1. Len(turns) \in Nat /\ Len(turns) \in 0 .. Len(turns) /\ 4 * ceiling \in Nat
    OBVIOUS
  <1>2. \A k \in 0 .. Len(turns) : SumTo(turns, k) \in Nat
    BY SumsAreNatural
  <1>3. from \in SUBSET Int /\ 0 \in from
    BY <1>1, <1>2
  <1>4. TurnsTokens(turns, ceiling) = Tokens(most)
    BY DEF TurnsTokens
  <1> HIDE DEF from
  <1>5. short \in SUBSET Int /\ 0 \in short /\ \A n \in short : n <= 4 * ceiling
    <2>1. short \in SUBSET Int
      BY <1>3
    <2>2. 0 <= 4 * ceiling
      BY <1>1
    <2> QED BY <1>3, <2>1, <2>2
  <1> HIDE DEF short
  <1>6. most \in short /\ most \in Nat
    BY <1>1, <1>5, LargestOf
  <1>7. most <= 4 * ceiling
    BY <1>5, <1>6
  <1> HIDE DEF most
  <1>8. Tokens(most) \in Nat /\ Tokens(most) <= Tokens(4 * ceiling)
    BY <1>1, <1>6, <1>7, TokensOf, FewerTokens
  <1> QED BY <1>4, <1>8, TokensOfCeiling

\* What is shown of the sources and what is left never exceed the ceiling,
\* but for the mark of a cut after which nothing is left.
Cited(acc) ==
    /\ acc \in [left : Nat, used : Nat]
    /\ \/ acc.used + acc.left <= 4 * RagCeiling
       \/ acc.left = 0 /\ acc.used <= 4 * RagCeiling + CutMark

\* A block that is not cut leaves room for its separator.
LEMMA WholeBlock ==
  ASSUME NEW left \in Nat, NEW header \in Nat, NEW chars \in Nat, NEW room, NEW block,
         room = left - header - 2, ~(chars > room), block = header + 1 + chars
  PROVE  block \in Nat /\ block + 1 <= left
  OBVIOUS

LEMMA CiteKept ==
  ASSUME NEW docs \in Seq(Nat), NEW acc, Cited(acc), NEW k \in Nat \ {0}
  PROVE  Cited(Cite(acc, docs, k))
  <1> DEFINE room  == acc.left - SourceHeader - 2
             block == SourceHeader + 1 + (IF docs[k] > room THEN room + CutMark ELSE docs[k])
  <1>1. /\ acc.left \in Nat /\ acc.used \in Nat /\ acc \in [left : Nat, used : Nat]
        /\ SourceHeader \in Nat /\ CutMark \in Nat /\ 4 * RagCeiling \in Nat
    BY CeilingsAssumption DEF Cited
  <1>2. CASE k > Len(docs)
    BY <1>2 DEF Cite
  <1>3. CASE k \in 1 .. Len(docs) /\ acc.left <= SourceHeader + 2
    <2>1. Cite(acc, docs, k) = [acc EXCEPT !.left = 0]
      BY <1>3 DEF Cite
    <2>2. [acc EXCEPT !.left = 0] = [left |-> 0, used |-> acc.used]
      BY <1>1
    <2>3. acc.used <= 4 * RagCeiling + CutMark
      BY <1>1 DEF Cited
    <2> QED BY <1>1, <2>1, <2>2, <2>3 DEF Cited
  <1>4. CASE k \in 1 .. Len(docs) /\ acc.left > SourceHeader + 2
    <2>1. docs[k] \in Nat /\ room \in Nat
      BY <1>1, <1>4
    <2>2. acc.left # 0 /\ acc.used + acc.left <= 4 * RagCeiling
      BY <1>1, <1>4 DEF Cited
    <2> DEFINE left == IF acc.left > block + 1 THEN acc.left - block - 1 ELSE 0
               used == acc.used + block + 1
    <2>3. Cite(acc, docs, k) = [left |-> left, used |-> used]
      BY <1>1, <1>4 DEF Cite
    <2>4. room = acc.left - SourceHeader - 2
      OBVIOUS
    <2>5. CASE docs[k] > room
      <3>1. block = SourceHeader + 1 + ((acc.left - SourceHeader - 2) + CutMark)
        BY <2>5
      <3> HIDE DEF block
      <3>2. block \in Int /\ block + 1 = acc.left + CutMark
        BY <1>1, <3>1
      <3>3. left = 0
        BY <1>1, <3>2
      <3>4. used = acc.used + (acc.left + CutMark)
        BY <1>1, <3>2
      <3> HIDE DEF left
      <3>5. used \in Nat /\ used <= 4 * RagCeiling + CutMark
        BY <1>1, <2>2, <3>4
      <3> HIDE DEF left, used
      <3> QED BY <2>3, <3>3, <3>5 DEF Cited
    <2>6. CASE ~(docs[k] > room)
      <3>1. block = SourceHeader + 1 + docs[k]
        BY <2>6
      <3>2. docs[k] \in Nat
        BY <2>1
      <3> HIDE DEF block
      <3>3. block \in Nat /\ block + 1 <= acc.left
        <4> HIDE DEF room
        <4> QED BY <1>1, <2>4, <2>6, <3>1, <3>2, WholeBlock
      <3>4. left \in Nat /\ used \in Nat /\ used + left = acc.used + acc.left
        BY <1>1, <3>3
      <3> HIDE DEF left, used
      <3> QED BY <1>1, <2>2, <2>3, <3>4 DEF Cited
    <2> QED BY <2>5, <2>6
  <1>5. Len(docs) \in Nat
    OBVIOUS
  <1>6. acc.left <= SourceHeader + 2 \/ acc.left > SourceHeader + 2
    BY <1>1
  <1>7. k > Len(docs) \/ k \in 1 .. Len(docs)
    BY <1>5
  <1> QED BY <1>2, <1>3, <1>4, <1>6, <1>7

LEMMA SourcesFit ==
  ASSUME NEW docs \in Seq(Nat)
  PROVE  /\ SourcesTokens(docs) \in Nat
         /\ SourcesTokens(docs) <= Tokens(4 * RagCeiling + CutMark)
  <1> DEFINE none  == [left |-> 4 * RagCeiling, used |-> 0]
             one   == Cite(none, docs, 1)
             two   == Cite(one, docs, 2)
             three == Cite(two, docs, 3)
  <1>1. CutMark \in Nat /\ 4 * RagCeiling \in Nat /\ 4 * RagCeiling + CutMark \in Nat
    BY CeilingsAssumption
  <1>2. Cited(none)
    BY <1>1 DEF Cited
  <1>3. SourcesTokens(docs) = Tokens(three.used)
    BY DEF SourcesTokens
  <1> HIDE DEF none
  <1>4. Cited(one)
    BY <1>2, CiteKept
  <1> HIDE DEF one
  <1>5. Cited(two)
    BY <1>4, CiteKept
  <1> HIDE DEF two
  <1>6. Cited(three)
    BY <1>5, CiteKept
  <1> HIDE DEF three
  <1>7. three.used \in Nat /\ three.used <= 4 * RagCeiling + CutMark
    BY <1>1, <1>6 DEF Cited
  <1> QED BY <1>1, <1>3, <1>7, TokensOf, FewerTokens

\* A local model's history: within the default, or within what its window
\* leaves.
LEMMA WorkingFits ==
  ASSUME NEW window \in Nat, NEW headroom \in Nat, NEW cloud \in Nat
  PROVE  /\ \A local : WorkingTokens(local, window, headroom, cloud) \in Nat
         /\ LET n == WorkingTokens(TRUE, window, headroom, cloud)
            IN  n <= WorkingDefault \/ n = window - headroom
  <1> DEFINE rest == IF window > headroom THEN window - headroom ELSE 0
  <1>1. WorkingDefault \in Nat /\ rest \in Nat
    BY CeilingsAssumption
  <1>2. \E x \in {WorkingDefault, rest} : \A y \in {WorkingDefault, rest} : x >= y
    BY <1>1
  <1>3. Max({WorkingDefault, rest}) \in {WorkingDefault, rest}
    BY <1>2 DEF Max
  <1>4. Max({WorkingDefault, rest}) >= WorkingDefault
    BY <1>2 DEF Max
  <1>5. Max({WorkingDefault, rest}) \in Nat
    BY <1>1, <1>3
  <1>6. \A local : WorkingTokens(local, window, headroom, cloud)
                     = IF local THEN Max({WorkingDefault, rest}) ELSE cloud
    BY DEF WorkingTokens
  <1>7. rest = 0 \/ rest = window - headroom
    OBVIOUS
  <1>8. Max({WorkingDefault, rest}) <= WorkingDefault \/ Max({WorkingDefault, rest}) = window - headroom
    BY <1>1, <1>3, <1>7
  <1> QED BY <1>5, <1>6, <1>8

-----------------------------------------------------------------------------
(* What fits the window                                                    *)

\* What a turn offers to the prompt has a size, whatever its tools returned.
Offers(rs, told, failed) ==
    [results : {rs}, told : {told}, failed : {failed},
     docs : Seq(Nat), bullets : Seq(Nat), history : Seq(Nat),
     task : [chars : Nat, project : Nat]]
Offered(f) == f \in Offers(f.results, f.told, f.failed)

Fitted == Offered(found) /\ PromptFits

LEMMA NothingOffered == Offered(NothingFound)
  <1>1. <<>> \in Seq(Nat) /\ [chars |-> 0, project |-> 0] \in [chars : Nat, project : Nat]
    OBVIOUS
  <1> QED BY <1>1 DEF Offered, Offers, NothingFound

LEMMA OfferedTyped ==
  ASSUME NEW f, Offered(f)
  PROVE  /\ f.docs \in Seq(Nat) /\ f.bullets \in Seq(Nat) /\ f.history \in Seq(Nat)
         /\ f.task.chars \in Nat /\ f.task.project \in Nat
  BY DEF Offered, Offers

LEMMA OfferedWith ==
  ASSUME NEW f, Offered(f), NEW rs, NEW told, NEW failed
  PROVE  /\ Offered([f EXCEPT !.results = rs])
         /\ Offered([f EXCEPT !.results = rs, !.told = told, !.failed = failed])
  BY DEF Offered, Offers

LEMMA OfferedQueries ==
  ASSUME NEW f, Offered(f), NEW docs \in Seq(Nat), NEW bullets \in Seq(Nat),
         NEW history \in Seq(Nat), NEW task \in [chars : Nat, project : Nat]
  PROVE  Offered([f EXCEPT !.docs = docs, !.bullets = bullets, !.history = history,
                           !.task = task])
  BY DEF Offered, Offers

LEMMA OfferedQuoted == ASSUME NEW f, Offered(f) PROVE Offered(Quoted(f))
  <1> DEFINE told   == \E r \in f.results : Ok(r)
             failed == \E r \in f.results : r.how = "error"
  <1>1. Quoted(f) = [f EXCEPT !.results = {}, !.told = told, !.failed = failed]
    BY DEF Quoted
  <1> HIDE DEF told, failed
  <1> QED BY <1>1 DEF Offered, Offers

LEMMA DispatchOffers ==
  ASSUME Offered(found), NEW tools, NEW again \in BOOLEAN, Dispatch(tools, again)
  PROVE  Offered(found')
  <1>1. PICK rs : LET new == [found EXCEPT !.results = rs]
                  IN  found' = IF again THEN Quoted(new) ELSE new
    BY DEF Dispatch
  <1> DEFINE new == [found EXCEPT !.results = rs]
  <1>3. Offered(new)
    BY OfferedWith
  <1>4. found' = IF again THEN Quoted(new) ELSE new
    BY <1>1
  <1> HIDE DEF new
  <1>5. Offered(Quoted(new))
    BY <1>3, OfferedQuoted
  <1> QED BY <1>3, <1>4, <1>5

\* A turn offers what its queries return, or nothing.
LEMMA OfferedKept ==
  ASSUME Offered(found), Next
  PROVE  Offered(found')
  <1>1. CASE Submit \/ Accept \/ ReadPersona \/ FetchPersona \/ Build \/ Save \/ Ready \/ Hook
             \/ Finish \/ Rename \/ Invalidate \/ Upload \/ Detach
    <2>1. found' = found
      BY <1>1 DEF Submit, Accept, ReadPersona, FetchPersona, Build, Save, Ready, Hook, Finish,
                  Rename, Invalidate, Upload, Detach
    <2> QED BY <2>1
  <1>2. CASE CallTools
    <2>1. Dispatch(turn.plan.tools, FALSE) \/ found' = found
      BY <1>2 DEF CallTools
    <2> QED BY <2>1, DispatchOffers
  <1>3. CASE Gather
    <2>1. PICK docs \in Sources, bullets \in Bullets, history \in Histories, task \in Tasks :
             found' = [Quoted(found) EXCEPT !.docs = docs, !.bullets = bullets, !.history = history,
                                            !.task = task]
      BY <1>3 DEF Gather
    <2>2. /\ docs \in Seq(Nat) /\ bullets \in Seq(Nat) /\ history \in Seq(Nat)
          /\ task \in [chars : Nat, project : Nat]
      <3>1. \A s \in Corpora \cup Recalls \cup Histories : s \in Seq(Nat)
        BY TurnAssumption
      <3>2. <<>> \in Seq(Nat)
        OBVIOUS
      <3>3. \A x \in Tasks : x \in [chars : Nat, project : Nat]
        BY TurnAssumption
      <3> QED BY <2>1, <3>1, <3>2, <3>3 DEF Sources, Bullets
    <2> QED BY <2>1, <2>2, OfferedQuoted, OfferedQueries
  <1>4. CASE Reply \/ Propose \/ Raise
    <2>1. found' = found \/ found' = NothingFound
      BY <1>4 DEF Reply, Propose, Raise, Settle
    <2> QED BY <2>1, NothingOffered
  <1>5. CASE Retry
    <2>1. Dispatch(Forced, TRUE)
      BY <1>5 DEF Retry
    <2> QED BY <2>1, DispatchOffers
  <1>6. CASE EndTurn \/ Restart
    <2>1. found' = NothingFound
      BY <1>6 DEF EndTurn, Restart
    <2> QED BY <2>1, NothingOffered
  <1> QED BY <1>1, <1>2, <1>3, <1>4, <1>5, <1>6 DEF Next, Work, Around

\* The history of a local model never takes what is reserved for the rest.
LEMMA HistoryFits ==
  ASSUME config.local, Window >= Headroom
  PROVE  /\ WorkingCeiling \in Nat
         /\ WorkingCeiling <= WorkingDefault \/ WorkingCeiling = Window - Headroom
  <1>1. Window \in Nat /\ Headroom \in Nat /\ CloudTokens \in Nat /\ WorkingDefault \in Nat
    BY TurnAssumption, CeilingsAssumption
  <1>2. WorkingTokens(config.local, Window, Headroom, CloudTokens)
        = WorkingTokens(TRUE, Window, Headroom, CloudTokens)
    BY DEF WorkingTokens
  <1>3. /\ WorkingTokens(TRUE, Window, Headroom, CloudTokens) \in Nat
        /\ \/ WorkingTokens(TRUE, Window, Headroom, CloudTokens) <= WorkingDefault
           \/ WorkingTokens(TRUE, Window, Headroom, CloudTokens) = Window - Headroom
    BY <1>1, WorkingFits
  <1>4. WorkingCeiling \in {WorkingDefault, WorkingTokens(TRUE, Window, Headroom, CloudTokens)}
    BY <1>2 DEF WorkingCeiling
  <1> DEFINE w == WorkingTokens(TRUE, Window, Headroom, CloudTokens)
  <1>5. w \in Nat /\ (w <= WorkingDefault \/ w = Window - Headroom)
    BY <1>3
  <1>6. WorkingCeiling = WorkingDefault \/ WorkingCeiling = w
    BY <1>4
  <1> HIDE DEF w
  <1> QED BY <1>1, <1>5, <1>6

LEMMA LargestMember ==
  ASSUME NEW S \in SUBSET Nat, S # {}, NEW b \in Nat, \A y \in S : y <= b
  PROVE  Max(S) \in S
  <1> DEFINE U == S \cup {0}
  <1>1. U \in SUBSET Int /\ 0 \in U /\ \A y \in U : y <= b
    OBVIOUS
  <1> HIDE DEF U
  <1>2. Max(U) \in U /\ Max(U) \in Nat /\ \A y \in U : y <= Max(U)
    BY <1>1, LargestOf
  <1> DEFINE m == Max(U)
  <1>3. m \in S \cup {0} /\ m \in Nat /\ \A y \in S : y <= m
    BY <1>2 DEF U
  <1> HIDE DEF m
  <1>4. m \in S
    <2>1. CASE m = 0
      <3>1. PICK y \in S : TRUE
        OBVIOUS
      <3>2. y = 0
        BY <1>3, <2>1
      <3> QED BY <2>1, <3>2
    <2> QED BY <1>3, <2>1
  <1>5. \A y \in S : m >= y
    BY <1>3
  <1> QED BY <1>4, <1>5 DEF Max

\* The working state is within its ceiling, but for the project's line.
LEMMA StateFits ==
  ASSUME NEW project \in Nat, NEW n \in Nat
  PROVE  /\ StateTokens(project, n) \in Nat
         /\ StateTokens(project, n) <= StateCeiling + Tokens(project)
  <1>1. StateCeiling \in Nat /\ SourceHeader \in Nat
    BY CeilingsAssumption
  <1>2. Tokens(project) \in Nat
    BY TokensOf
  <1> DEFINE lines == {Tokens(project + k * SourceHeader) : k \in 0 .. n}
             shown == {Tokens(project)} \cup {t \in lines : t <= StateCeiling}
  <1>3. lines \in SUBSET Nat
    <2> SUFFICES ASSUME NEW k \in 0 .. n PROVE Tokens(project + k * SourceHeader) \in Nat
      OBVIOUS
    <2>1. k * SourceHeader \in Nat
      BY <1>1
    <2>2. project + k * SourceHeader \in Nat
      BY <2>1
    <2> QED BY <2>2, TokensOf
  <1>4. StateTokens(project, n) = Max(shown)
    BY DEF StateTokens
  <1> HIDE DEF lines
  <1> DEFINE first == Tokens(project)
  <1>5. first \in Nat /\ shown = {first} \cup {t \in lines : t <= StateCeiling}
    BY <1>2
  <1> HIDE DEF first, shown
  <1>6. /\ shown \in SUBSET Nat /\ shown # {} /\ StateCeiling + first \in Nat
        /\ \A y \in shown : y <= StateCeiling + first
    <2>1. StateCeiling + first \in Nat /\ first <= StateCeiling + first
          /\ StateCeiling <= StateCeiling + first
      BY <1>1, <1>5
    <2>2. shown \subseteq Nat /\ first \in shown
      BY <1>3, <1>5
    <2>3. \A y \in shown : y = first \/ y <= StateCeiling
      BY <1>5
    <2>4. \A y \in shown : y <= StateCeiling + first
      BY <1>1, <1>5, <2>1, <2>2, <2>3
    <2> QED BY <2>1, <2>2, <2>4
  <1>7. Max(shown) \in shown
    BY <1>6, LargestMember
  <1> QED BY <1>4, <1>6, <1>7 DEF first, shown

\* The ceilings add up to a natural number, within what is reserved.
LEMMA CeilingsFit ==
  /\ {FixedTokens, ToolTokens, FailureTokens, GraphTokens, NeighborTokens, FileTotal,
      Tokens(4 * RagCeiling + CutMark), EpisodeCeiling, StateCeiling, WorkingDefault,
      OutputTokens, Window, Headroom} \subseteq Nat
  /\ Capped \in Nat /\ OutputTokens <= Capped /\ Capped <= Headroom
  <1>1. {FixedTokens, ToolTokens, FailureTokens, GraphTokens, NeighborTokens, OutputTokens,
         Window, Headroom} \subseteq Nat
    BY TurnAssumption
  <1>2. /\ {FileTotal, EpisodeCeiling, StateCeiling, WorkingDefault} \subseteq Nat
        /\ 4 * RagCeiling + CutMark \in Nat
    BY CeilingsAssumption
  <1>3. Tokens(4 * RagCeiling + CutMark) \in Nat
    BY <1>2, TokensOf
  <1> DEFINE cut == Tokens(4 * RagCeiling + CutMark)
  <1>4. Capped = FixedTokens + ToolTokens + FailureTokens + GraphTokens + NeighborTokens + FileTotal
                 + cut + EpisodeCeiling + StateCeiling + WorkingDefault + OutputTokens
    BY DEF Capped
  <1> HIDE DEF cut
  <1>5. Capped \in Nat /\ OutputTokens <= Capped
    BY <1>1, <1>2, <1>3, <1>4 DEF cut
  <1> QED BY <1>1, <1>2, <1>3, <1>5, HeadroomAssumption

\* Slot by slot, the prompt of a local model.
LEMMA SlotsFit ==
  ASSUME Attached, Offered(found), config.local, Window >= Headroom,
         Uncapped <= Headroom - Capped
  PROVE  SlotTokens + OutputTokens <= Window
  <1> DEFINE cut     == Tokens(4 * RagCeiling + CutMark)
             shown   == FilesTokens(files)
             sources == SourcesTokens(found.docs)
             told    == EpisodesTokens(found.bullets)
             past    == TurnsTokens(found.history, WorkingCeiling)
             line    == Tokens(found.task.project)
  <1>1. /\ Window \in Nat /\ Headroom \in Nat /\ OutputTokens \in Nat /\ FixedTokens \in Nat
        /\ GraphTokens \in Nat /\ NeighborTokens \in Nat /\ ToolTokens \in Nat
        /\ FailureTokens \in Nat /\ FileTotal \in Nat /\ EpisodeCeiling \in Nat
        /\ StateCeiling \in Nat /\ WorkingDefault \in Nat /\ cut \in Nat
    BY CeilingsFit
  <1>2. Capped = FixedTokens + ToolTokens + FailureTokens + GraphTokens + NeighborTokens + FileTotal
                 + cut + EpisodeCeiling + StateCeiling + WorkingDefault + OutputTokens
    BY DEF Capped
  <1>3. /\ found.docs \in Seq(Nat) /\ found.bullets \in Seq(Nat) /\ found.history \in Seq(Nat)
        /\ found.task.chars \in Nat /\ found.task.project \in Nat
    BY OfferedTyped
  <1>4. line \in Nat /\ Instruction \in Nat
    BY <1>3, TokensOf DEF Instruction
  <1>5. Breaks \in Nat
    <2>1. files \in Seq(Uploads)
      BY DEF Attached
    <2> DEFINE h == Len(found.history)
               n == Len(files)
    <2>2. h \in Nat /\ n \in Nat
      BY <1>3, <2>1
    <2> HIDE DEF h, n
    <2>3. h + 2 * n \in Nat
      BY <2>2
    <2> QED BY <2>3, TokensOf DEF Breaks, h, n
  <1>6. /\ ToolSlot \in Nat /\ ToolSlot <= ToolTokens
        /\ FailureSlot \in Nat /\ FailureSlot <= FailureTokens
        /\ GraphSlot \in Nat /\ GraphSlot <= GraphTokens
        /\ NeighborSlot \in Nat /\ NeighborSlot <= NeighborTokens
    <2>1. /\ ToolSlot \in {0, ToolTokens} /\ FailureSlot \in {0, FailureTokens}
          /\ GraphSlot \in {0, GraphTokens} /\ NeighborSlot \in {0, NeighborTokens}
      BY DEF ToolSlot, FailureSlot, GraphSlot, NeighborSlot
    <2> QED BY <1>1, <2>1
  <1>7. shown \in Nat /\ shown <= FileTotal
    <2>1. files \in Seq(Uploads) /\ \A f \in Uploads : f.chars \in Nat
      BY TurnAssumption DEF Attached
    <2> QED BY <2>1, FilesFit
  <1>8. sources \in Nat /\ sources <= cut
    BY <1>3, SourcesFit
  <1>9. told \in Nat /\ told <= EpisodeCeiling
    BY <1>3, EpisodesFit
  <1>10. past \in Nat /\ past <= WorkingCeiling
    BY <1>3, HistoryFits, TurnsFit
  <1>11. past <= WorkingDefault \/ past <= Window - Headroom
    BY <1>1, <1>10, HistoryFits
  <1>12. StateSlot \in Nat /\ StateSlot <= StateCeiling + line
    <2>1. Len(found.docs) \in Nat
      BY <1>3
    <2>2. /\ StateTokens(found.task.project, Len(found.docs)) \in Nat
          /\ StateTokens(found.task.project, Len(found.docs)) <= StateCeiling + line
      BY <1>3, <2>1, StateFits
    <2> QED BY <1>1, <1>4, <2>2 DEF StateSlot
  <1>13. SlotTokens = FixedTokens + ToolSlot + FailureSlot + GraphSlot + NeighborSlot + StateSlot
                      + shown + sources + told + past + Instruction + Breaks
    BY DEF SlotTokens
  <1>14. Uncapped = Instruction + Breaks + line
    BY DEF Uncapped
  <1> HIDE DEF cut, shown, sources, told, past, line
  <1> DEFINE slots == FixedTokens + ToolSlot + FailureSlot + GraphSlot + NeighborSlot + StateSlot
                      + shown + sources + told
             tops  == FixedTokens + ToolTokens + FailureTokens + GraphTokens + NeighborTokens
                      + FileTotal + cut + EpisodeCeiling + StateCeiling
  <1>15. slots \in Nat /\ tops \in Nat /\ slots <= tops + line
    BY <1>1, <1>4, <1>6, <1>7, <1>8, <1>9, <1>12
  <1>16. SlotTokens = slots + past + Instruction + Breaks
    BY <1>13
  <1>17. tops + WorkingDefault + OutputTokens = Capped
    BY <1>2
  <1> HIDE DEF slots, tops
  <1>18. Instruction + Breaks + line <= Headroom - (tops + WorkingDefault + OutputTokens)
    BY <1>14, <1>17
  <1> QED BY <1>1, <1>4, <1>5, <1>10, <1>11, <1>15, <1>16, <1>18

LEMMA NoPromptFits == Window >= Headroom => NoPrompt.tokens + OutputTokens <= Window
  <1>1. NoPrompt.tokens = 0
    BY DEF NoPrompt
  <1>2. Window \in Nat /\ Headroom \in Nat /\ OutputTokens \in Nat /\ Capped \in Nat
        /\ OutputTokens <= Capped /\ Capped <= Headroom
    BY CeilingsFit
  <1> QED BY <1>1, <1>2

LEMMA FitsKept ==
  ASSUME Attached, Offered(found), PromptFits, Next
  PROVE  PromptFits'
  <1>1. CASE Build
    <2>1. config' = config /\ prompt'.tokens = SlotTokens /\ prompt'.uncapped = Uncapped
      BY <1>1 DEF Build, process
    <2> QED BY <2>1, SlotsFit DEF PromptFits
  <1>2. CASE Submit \/ Accept \/ CallTools \/ Gather \/ ReadPersona \/ FetchPersona \/ Retry
             \/ Save \/ Ready \/ Hook \/ Finish \/ Rename \/ Invalidate \/ Upload \/ Detach
    <2>1. config' = config /\ prompt' = prompt
      BY <1>2 DEF Submit, Accept, CallTools, Gather, ReadPersona, FetchPersona, Retry, Save, Ready,
                  Hook, Finish, Rename, Invalidate, Upload, Detach, process
    <2> QED BY <2>1 DEF PromptFits
  <1>3. CASE Reply \/ Propose \/ Raise
    <2>1. config' = config /\ prompt' \in {prompt, NoPrompt}
      BY <1>3 DEF Reply, Propose, Raise, Settle, process
    <2> QED BY <2>1, NoPromptFits DEF PromptFits
  <1>4. CASE EndTurn \/ Restart
    <2>1. prompt' = NoPrompt
      BY <1>4 DEF EndTurn, Restart
    <2> QED BY <2>1, NoPromptFits DEF PromptFits
  <1> QED BY <1>1, <1>2, <1>3, <1>4 DEF Next, Work, Around

-----------------------------------------------------------------------------
(* The outcomes of a search                                                *)

\* Every answer to a query carries a name of the web or of the news search.
LEMMA QueryNames ==
  ASSUME NEW w, NEW s \in SearchQuery(w)
  PROVE  s.tool \in WebNames
  <1>1. (\E h : s = R("web_search:ollama_primary", h)) \/ (\E h : s = R("web_search", h))
        \/ (\E h : s = R("web_search:ollama_fallback", h))
    BY DEF SearchQuery
  <1> QED BY <1>1 DEF R, WebNames

LEMMA WebHas ==
  ASSUME NEW w, NEW b \in WebSearch(w)
  PROVE  \E s \in b : s.tool \in WebNames
  <1>1. PICK s \in SearchQuery(w) : b \in {{s} \cup e : e \in Enrichment(w, s)}
    BY DEF WebSearch
  <1>2. s \in b
    BY <1>1
  <1> QED BY <1>2, QueryNames

LEMMA NewsHas ==
  ASSUME NEW w, NEW b \in NewsSearch(w)
  PROVE  \E s \in b : s.tool \in NewsNames
  <1>1. \A m \in NewsTier1(w) : m.tool \in NewsNames
    BY DEF NewsTier1, R, NewsNames
  <1> DEFINE told(m)  == {{m} \cup e : e \in Enrichment(w, m)}
             asked(m) == UNION {{{m, Retagged(s)} \cup e : e \in Enrichment(w, s)} :
                                    s \in SearchQuery(w)}
  <1>2. PICK n \in NewsTier1(w) : b \in IF Ok(n) THEN told(n) ELSE asked(n)
    BY DEF NewsSearch
  <1>3. n \in b
    BY <1>2
  <1> QED BY <1>1, <1>3

LEMMA RoundHas ==
  ASSUME NEW w, NEW q \in Round(w)
  PROVE  \E s \in q.results : s.tool \in WebNames
  <1>1. \E s \in SearchQuery(w) : s \in q.results
    <2>1. CASE q \in {[results |-> {s}, end |-> "failed"] : s \in {t \in SearchQuery(w) : ~Ok(t)}}
      BY <2>1
    <2>2. CASE \E s \in {t \in SearchQuery(w) : Ok(t)} :
                 \/ q = [results |-> {s}, end |-> "found"] \/ q = [results |-> {s}, end |-> "open"]
                 \/ q \in {[results |-> {s, f}, end |-> "found"] : f \in {g \in UrlFetch(w) : Ok(g)}}
                 \/ q \in {[results |-> {s, f}, end |-> "open"] : f \in UrlFetch(w)}
      BY <2>2
    <2> QED BY <2>1, <2>2 DEF Round
  <1> QED BY <1>1, QueryNames

\* What the loop of research returns begins with its first query.
LEMMA ResearchHas ==
  ASSUME NEW w, NEW b \in Research(w)
  PROVE  \E s \in b : s.tool \in WebNames
  <1> DEFINE closed == {r.results : r \in {q \in Round(w) : q.end # "open"}}
             open   == {r.results : r \in {q \in Round(w) : q.end = "open"}}
             Left(f, k) == IF k = 0 THEN {{NotFound}}
                           ELSE closed \cup {o \cup l : o \in open, l \in {{NotFound}} \cup f[k - 1]}
             N      == MaxResearch
  <1>1. N \in Nat /\ N # 0
    BY BoundsAssumption
  <1>2. Research(w) = (CHOOSE f : f = [k \in 0 .. N |-> Left(f, k)])[N]
    BY DEF Research
  <1>3. \A r \in closed \cup open : \E s \in r : s.tool \in WebNames
    BY RoundHas
  <1>4. \A f : Left(f, 0) = {{NotFound}}
    OBVIOUS
  <1>5. \A f, k : k # 0 => \A r \in Left(f, k) : r \in closed \/ \E o \in open : o \subseteq r
    OBVIOUS
  <1>6. \A f, g, k : k # 0 /\ f[k - 1] = g[k - 1] => Left(f, k) = Left(g, k)
    OBVIOUS
  <1> HIDE DEF N, Left, closed, open
  <1>7. \E f : f = [k \in 0 .. N |-> Left(f, k)]
    <2> DEFINE Built(n) == \E f : f = [k \in 0 .. n |-> Left(f, k)]
               without  == {n \in Nat : ~Built(n)}
    <2>1. SUFFICES without = {}
      BY <1>1
    <2>2. SUFFICES ASSUME without # {} PROVE FALSE
      OBVIOUS
    <2>3. PICK m \in without : \A n \in without : m =< n
      BY <2>2, LeastOf
    <2>4. CASE m = 0
      <3> DEFINE f == [k \in 0 .. 0 |-> {{NotFound}}]
      <3>1. \A k \in 0 .. 0 : Left(f, k) = {{NotFound}}
        BY <1>4
      <3>2. f = [k \in 0 .. 0 |-> Left(f, k)]
        <4>1. [k \in 0 .. 0 |-> Left(f, k)] = [k \in 0 .. 0 |-> {{NotFound}}]
          BY <3>1
        <4> QED BY <4>1
      <3> QED BY <2>3, <2>4, <3>2
    <2>5. CASE m # 0
      <3>1. m \in Nat /\ m - 1 \in Nat /\ m - 1 \notin without
        BY <2>3, <2>5
      <3>2. PICK f : f = [k \in 0 .. (m - 1) |-> Left(f, k)]
        BY <3>1
      <3> DEFINE g == [k \in 0 .. m |-> Left(f, k)]
      <3>3. \A k \in 0 .. m : Left(g, k) = Left(f, k)
        <4> SUFFICES ASSUME NEW k \in 0 .. m PROVE Left(g, k) = Left(f, k)
          OBVIOUS
        <4>1. CASE k = 0
          BY <1>4, <4>1
        <4>2. CASE k # 0
          <5>1. k - 1 \in 0 .. (m - 1) /\ k - 1 \in 0 .. m
            BY <3>1, <4>2
          <5>2. g[k - 1] = Left(f, k - 1)
            BY <5>1
          <5>3. f[k - 1] = Left(f, k - 1)
            BY <3>2, <5>1
          <5> QED BY <1>6, <4>2, <5>2, <5>3
        <4> QED BY <4>1, <4>2
      <3>4. g = [k \in 0 .. m |-> Left(g, k)]
        <4>1. [k \in 0 .. m |-> Left(g, k)] = [k \in 0 .. m |-> Left(f, k)]
          BY <3>3
        <4> QED BY <4>1
      <3> HIDE DEF g
      <3> QED BY <2>3, <3>4
    <2> QED BY <2>4, <2>5
  <1> DEFINE left == CHOOSE f : f = [k \in 0 .. N |-> Left(f, k)]
  <1>8. left = [k \in 0 .. N |-> Left(left, k)]
    BY <1>7
  <1> HIDE DEF left
  <1>9. left[N] = Left(left, N)
    BY <1>1, <1>8
  <1>10. b \in Left(left, N)
    BY <1>2, <1>9 DEF left
  <1>11. b \in closed \/ \E o \in open : o \subseteq b
    BY <1>1, <1>5, <1>10
  <1> QED BY <1>3, <1>11

\* What one run of a search returns: a result under a name of its own.
SearchNames == WebNames \cup NewsNames \cup {"research"}
LEMMA SearchHas ==
  ASSUME NEW tool \in Searches, NEW w, NEW named, NEW file, NEW b \in OutcomesOf(tool, w, named, file)
  PROVE  \E s \in b : s.tool \in SearchNames
  <1>1. CASE tool = "web_search"
    <2>1. b \in WebSearch(w)
      BY <1>1 DEF OutcomesOf
    <2> QED BY <2>1, WebHas DEF SearchNames
  <1>2. CASE tool = "news_search"
    <2>1. b \in NewsSearch(w)
      BY <1>2 DEF OutcomesOf
    <2> QED BY <2>1, NewsHas DEF SearchNames
  <1>3. CASE tool = "research"
    <2>1. b \in Research(w)
      BY <1>3 DEF OutcomesOf
    <2> QED BY <2>1, ResearchHas DEF SearchNames
  <1> QED BY <1>1, <1>2, <1>3 DEF Searches

\* A report keeps the names.
LEMMA ReportHas ==
  ASSUME NEW b, NEW s \in b
  PROVE  \E r \in Reported(b) : r.tool = s.tool
  <1> DEFINE how == IF s.how = "unreachable" THEN "error" ELSE s.how
             r   == R(s.tool, how)
  <1>1. r \in Reported(b)
    BY DEF Reported
  <1>2. r.tool = s.tool
    BY DEF R
  <1> QED BY <1>1, <1>2

\* The outcome of a list of tools holds one of every tool in it.
LEMMA OutcomesHave ==
  ASSUME NEW tools \in Seq(ToolNames), NEW w, NEW named, NEW file, NEW n \in 1 .. Len(tools),
         NEW rs \in Outcomes(tools, w, named, file)
  PROVE  \E b \in OutcomesOf(tools[n], w, named, file) : Reported(b) \subseteq rs
  <1> DEFINE N == Len(tools)
             Run(k)      == OutcomesOf(tools[k], w, named, file)
             After(f, k) == IF k = 0 THEN {{}}
                            ELSE {a \cup Reported(b) : a \in f[k - 1], b \in Run(k)}
  <1>1. N \in Nat /\ n \in 1 .. N
    OBVIOUS
  <1>2. Outcomes(tools, w, named, file) = (CHOOSE f : f = [k \in 0 .. N |-> After(f, k)])[N]
    BY DEF Outcomes
  <1>3. \A f : After(f, 0) = {{}}
    OBVIOUS
  <1>4. \A f, k : k # 0 => \A r \in After(f, k) :
           \E a \in f[k - 1], b \in Run(k) : r = a \cup Reported(b)
    OBVIOUS
  <1>5. \A f, g, k : k # 0 /\ f[k - 1] = g[k - 1] => After(f, k) = After(g, k)
    OBVIOUS
  <1> HIDE DEF N, Run, After
  <1>6. \E f : f = [k \in 0 .. N |-> After(f, k)]
    <2> DEFINE Built(i) == \E f : f = [k \in 0 .. i |-> After(f, k)]
               without  == {i \in Nat : ~Built(i)}
    <2>1. SUFFICES without = {}
      BY <1>1
    <2>2. SUFFICES ASSUME without # {} PROVE FALSE
      OBVIOUS
    <2>3. PICK m \in without : \A i \in without : m =< i
      BY <2>2, LeastOf
    <2>4. CASE m = 0
      <3> DEFINE f == [k \in 0 .. 0 |-> {{}}]
      <3>1. \A k \in 0 .. 0 : After(f, k) = {{}}
        BY <1>3
      <3>2. f = [k \in 0 .. 0 |-> After(f, k)]
        <4>1. [k \in 0 .. 0 |-> After(f, k)] = [k \in 0 .. 0 |-> {{}}]
          BY <3>1
        <4> QED BY <4>1
      <3> QED BY <2>3, <2>4, <3>2
    <2>5. CASE m # 0
      <3>1. m \in Nat /\ m - 1 \in Nat /\ m - 1 \notin without
        BY <2>3, <2>5
      <3>2. PICK f : f = [k \in 0 .. (m - 1) |-> After(f, k)]
        BY <3>1
      <3> DEFINE g == [k \in 0 .. m |-> After(f, k)]
      <3>3. \A k \in 0 .. m : After(g, k) = After(f, k)
        <4> SUFFICES ASSUME NEW k \in 0 .. m PROVE After(g, k) = After(f, k)
          OBVIOUS
        <4>1. CASE k = 0
          BY <1>3, <4>1
        <4>2. CASE k # 0
          <5>1. k - 1 \in 0 .. (m - 1) /\ k - 1 \in 0 .. m
            BY <3>1, <4>2
          <5>2. g[k - 1] = After(f, k - 1)
            BY <5>1
          <5>3. f[k - 1] = After(f, k - 1)
            BY <3>2, <5>1
          <5> QED BY <1>5, <4>2, <5>2, <5>3
        <4> QED BY <4>1, <4>2
      <3>4. g = [k \in 0 .. m |-> After(g, k)]
        <4>1. [k \in 0 .. m |-> After(g, k)] = [k \in 0 .. m |-> After(f, k)]
          BY <3>3
        <4> QED BY <4>1
      <3> HIDE DEF g
      <3> QED BY <2>3, <3>4
    <2> QED BY <2>4, <2>5
  <1> DEFINE of == CHOOSE f : f = [k \in 0 .. N |-> After(f, k)]
  <1>7. of = [k \in 0 .. N |-> After(of, k)]
    BY <1>6
  <1> HIDE DEF of
  <1>8. \A k \in 0 .. N : of[k] = After(of, k)
    BY <1>7
  <1> DEFINE Has(k)  == \A r \in of[k] : \E b \in Run(n) : Reported(b) \subseteq r
             lacking == {k \in n .. N : ~Has(k)}
  <1>9. lacking = {}
    <2> SUFFICES ASSUME lacking # {} PROVE FALSE
      OBVIOUS
    <2>1. lacking \in SUBSET Nat
      BY <1>1
    <2>2. PICK m \in lacking : \A k \in lacking : m =< k
      BY <2>1, LeastOf
    <2>3. m \in n .. N /\ m \in 0 .. N /\ m # 0
      BY <1>1, <2>2
    <2>4. PICK r \in of[m] : ~ \E b \in Run(n) : Reported(b) \subseteq r
      BY <2>2
    <2>5. PICK a \in of[m - 1], b \in Run(m) : r = a \cup Reported(b)
      BY <1>4, <1>8, <2>3, <2>4
    <2>6. m # n
      BY <2>4, <2>5
    <2>7. m - 1 \in n .. N /\ ~(m =< m - 1)
      BY <1>1, <2>3, <2>6
    <2>8. Has(m - 1)
      BY <2>2, <2>7
    <2>9. \E c \in Run(n) : Reported(c) \subseteq a
      BY <2>5, <2>8
    <2> QED BY <2>4, <2>5, <2>9
  <1>10. Has(N)
    BY <1>1, <1>9
  <1> QED BY <1>2, <1>10 DEF of, Run

\* Whatever the searches of a plan called themselves, their failure is seen.
LEMMA FruitlessFails ==
  ASSUME NEW tools \in Seq(ToolNames), NEW w, NEW named, NEW file,
         NEW rs \in Outcomes(tools, w, named, file), Fruitless(tools, rs)
  PROVE  SearchFailed(rs)
  <1>1. PICK n \in 1 .. Len(tools) : tools[n] \in Searches
    BY DEF Fruitless, ToSet
  <1>2. PICK b \in OutcomesOf(tools[n], w, named, file) : Reported(b) \subseteq rs
    BY OutcomesHave
  <1>3. PICK s \in b : s.tool \in SearchNames
    BY <1>1, <1>2, SearchHas
  <1>4. PICK r \in Reported(b) : r.tool = s.tool
    BY <1>3, ReportHas
  <1>5. r \in rs /\ r.tool \in SearchNames
    BY <1>2, <1>3, <1>4
  <1>6. CASE ~Ok(r)
    BY <1>5, <1>6 DEF SearchFailed, SearchNames
  <1>7. CASE Ok(r)
    <2>1. r.tool \in ToSet(tools) /\ r.tool \notin Searches
      BY <1>5, <1>7 DEF Fruitless
    <2>2. r.tool \in ToolNames
      BY <2>1 DEF ToSet
    <2> QED BY <1>5, <2>1, <2>2 DEF SearchNames, WebNames, NewsNames, Searches, ToolNames
  <1> QED BY <1>6, <1>7

\* The results of a turn that has called its tools, and of one that has not.
Grounded ==
    /\ Offered(found)
    /\ phase \in {"idle", "planned", "accepted"} => found = NothingFound
    /\ phase = "called" /\ Fruitless(turn.plan.tools, found.results) => SearchFailed(found.results)

LEMMA NothingFails == ASSUME NEW tools PROVE ~Fruitless(tools, NothingFound.results)
  BY DEF NothingFound, Fruitless

LEMMA GroundedKept ==
  ASSUME Inv, Grounded, Next
  PROVE  Grounded'
  <1>1. Offered(found')
    BY OfferedKept DEF Grounded
  <1>2. phase' \in {"idle", "planned", "accepted"} => found' = NothingFound
    <2>1. CASE Submit \/ Accept
      BY <2>1 DEF Submit, Accept, Grounded
    <2>2. CASE EndTurn \/ Restart
      BY <2>2 DEF EndTurn, Restart
    <2>3. CASE Rename \/ Invalidate \/ Upload \/ Detach
      BY <2>3 DEF Rename, Invalidate, Upload, Detach, Grounded
    <2>4. CASE CallTools \/ Gather \/ ReadPersona \/ FetchPersona \/ Build \/ Retry \/ Save \/ Ready
               \/ Hook \/ Finish
      BY <2>4 DEF CallTools, Gather, ReadPersona, FetchPersona, Build, Retry, Save, Ready, Hook, Finish
    <2>5. CASE Reply \/ Propose \/ Raise
      BY <2>5 DEF Reply, Propose, Raise, Settle
    <2> QED BY <2>1, <2>2, <2>3, <2>4, <2>5 DEF Next, Work, Around
  <1>3. ASSUME phase' = "called", Fruitless(turn'.plan.tools, found'.results)
        PROVE  SearchFailed(found'.results)
    <2>1. CASE CallTools
      <3>1. turn' = turn /\ phase = "accepted" /\ turn.plan.tools \in Seq(ToolNames)
        BY <2>1 DEF CallTools, Inv, Going, Turn, Plans
      <3>2. CASE found' = found
        BY <1>3, <3>1, <3>2, NothingFails DEF Grounded
      <3>3. CASE Dispatch(turn.plan.tools, FALSE)
        <4>1. PICK up \in BOOLEAN :
                 \E f : \E rs \in Outcomes(turn.plan.tools, [up |-> up, ollama |-> config.ollama],
                                          turn.url, f.how) :
                    found' = [found EXCEPT !.results = rs]
          BY <3>3 DEF Dispatch
        <4>2. PICK f : \E rs \in Outcomes(turn.plan.tools, [up |-> up, ollama |-> config.ollama],
                                          turn.url, f.how) :
                    found' = [found EXCEPT !.results = rs]
          BY <4>1
        <4>3. PICK rs \in Outcomes(turn.plan.tools, [up |-> up, ollama |-> config.ollama],
                                   turn.url, f.how) :
                    found' = [found EXCEPT !.results = rs]
          BY <4>2
        <4>4. found'.results = rs
          BY <4>3 DEF Grounded, Offered, Offers
        <4> QED BY <1>3, <3>1, <4>3, <4>4, FruitlessFails
      <3> QED BY <2>1, <3>2, <3>3 DEF CallTools
    <2>2. CASE Rename \/ Invalidate \/ Upload \/ Detach
      <3>1. phase' = phase /\ found' = found
        BY <2>2 DEF Rename, Invalidate, Upload, Detach
      <3>2. turn'.plan = turn.plan
        BY <2>2, Renames DEF Inv, Invalidate, Upload, Detach
      <3> QED BY <1>3, <3>1, <3>2 DEF Grounded
    <2>3. CASE Submit \/ Accept \/ Gather \/ ReadPersona \/ FetchPersona \/ Build \/ Retry \/ Save \/ Ready
               \/ Hook \/ Finish \/ EndTurn \/ Restart
      BY <1>3, <2>3 DEF Submit, Accept, Gather, ReadPersona, FetchPersona, Build, Retry, Save, Ready,
                        Hook, Finish, EndTurn, Restart
    <2>4. CASE Reply \/ Propose \/ Raise
      BY <1>3, <2>4 DEF Reply, Propose, Raise, Settle
    <2> QED BY <2>1, <2>2, <2>3, <2>4 DEF Next, Work, Around
  <1> QED BY <1>1, <1>2, <1>3 DEF Grounded

-----------------------------------------------------------------------------
(* The specification                                                       *)

LEMMA InitInv == Init => Inv
  <1> SUFFICES ASSUME Init PROVE Inv
    OBVIOUS
  <1>1. /\ scenario \in Scenarios /\ config \in Configs[scenario]
        /\ name = DefaultName /\ stale = FALSE /\ lastTools = FALSE /\ persona = NoText
        /\ files = <<>> /\ disk = NoFile /\ edits = 0 /\ phase = "idle" /\ turn = NoTurn(0)
        /\ prompt = NoPrompt /\ log = <<>> /\ answer = NoAnswer /\ early = NoAnswer /\ final = NoAnswer
    BY DEF Init
  <1>2. MaxEdits[scenario] \in Nat /\ MaxTurns[scenario] \in Nat /\ DefaultName \in Names
    BY <1>1, TurnAssumption
  <1>3. Settings
    <2>1. stale \in BOOLEAN /\ lastTools \in BOOLEAN
      BY <1>1
    <2>2. edits \in 0 .. MaxEdits[scenario]
      BY <1>1, <1>2
    <2>3. name \in Names /\ persona \in Names \cup {NoText}
      BY <1>1, <1>2
    <2> QED BY <1>1, <2>1, <2>2, <2>3 DEF Settings
  <1>4. Attached
    <2>1. <<>> \in Seq(Uploads) /\ Named(<<>>)
      BY DEF Named
    <2> QED BY <1>1, <2>1 DEF Attached
  <1>5. Stored(disk, turn.id)
    <2>1. turn.id = 0 /\ 0 \in Nat
      BY <1>1, NewTurn
    <2> QED BY <1>1, <2>1, StoredNothing
  <1>6. Going
    <2>1. turn \in Turn /\ turn.id = 0
      BY <1>1, NewTurn
    <2> QED BY <1>1, <1>2, <2>1 DEF Going, Phases
  <1>7. Answers
    BY <1>1, EmptyAnswer DEF Answers
  <1>8. Logged
    BY <1>1 DEF Logged, LoggedOnce
  <1>9. Voiced
    BY <1>1 DEF Voiced, PersonaNamed, NoPrompt
  <1>10. Answering
    BY <1>1, EmptyAnswer DEF Answering, NeverEmpty
  <1>11. FilesAndUrlsHonoured
    BY <1>1 DEF FilesAndUrlsHonoured
  <1> QED BY <1>3, <1>4, <1>5, <1>6, <1>7, <1>8, <1>9, <1>10, <1>11 DEF Inv

LEMMA StutterInv == Inv /\ UNCHANGED vars => Inv'
  <1> SUFFICES ASSUME Inv, UNCHANGED vars PROVE Inv'
    OBVIOUS
  <1>1. UNCHANGED <<scenario, config, lastTools, persona, files, name, stale, edits, disk, phase,
                    turn, prompt, log, answer, early, final>>
    BY DEF vars, process, settings, results
  <1>2. Settings' /\ Attached' /\ Stored(disk, turn.id)' /\ Going' /\ Answers'
    BY <1>1 DEF Inv, Settings, Attached, Going, Answers
  <1>3. Logged' /\ Voiced'
    BY <1>1 DEF Inv, Logged, LoggedOnce, Voiced, PersonaNamed
  <1>4. Answering' /\ FilesAndUrlsHonoured'
    BY <1>1 DEF Inv, Answering, NeverEmpty, Conversational, FilesAndUrlsHonoured
  <1> QED BY <1>2, <1>3, <1>4 DEF Inv

LEMMA NextInv == Inv /\ [Next]_vars => Inv'
  <1> SUFFICES ASSUME Inv, Next PROVE Inv'
    BY StutterInv
  <1> QED BY SettingsKept, AttachedKept, StoredKept, GoingKept, AnswersKept, LoggedKept, VoicedKept,
             AnsweringKept, HonouredKept DEF Inv

\* The inductive invariant: the types, the session files under their names,
\* the sidecar in step with the texts appended, the memory of the turn, the
\* name it reads, the answer it settles on and the plan it was given.
THEOREM Invariant == Spec => []Inv
  <1> QED BY InitInv, NextInv, PTL DEF Spec

\* Every variable has its type and every bound holds, whatever is asked,
\* uploaded, renamed, restarted or lost.
THEOREM TypeCorrect == Spec => []TypeOK
  <1>1. Inv => TypeOK
    <2> SUFFICES ASSUME Inv PROVE TypeOK
      OBVIOUS
    <2>1. Settings /\ Attached /\ Stored(disk, turn.id) /\ Going /\ Answers
      BY DEF Inv
    <2>2. \A k \in DOMAIN files : files[k] \in Uploads
      BY <2>1 DEF Attached
    <2>3. \A j, k \in DOMAIN files : files[j].name = files[k].name => j = k
      BY <2>1 DEF Attached, Named
    <2>4. Len(disk.versions) <= MaxVersions
      BY <2>1 DEF Stored
    <2>5. phase \in Phases /\ turn.id \in 0 .. MaxTurns[scenario] /\ turn.names \subseteq Names
      BY <2>1 DEF Going, Turn
    <2>6. {answer.status, early.status, final.status} \subseteq {"none", "complete", "failed"}
      BY <2>1 DEF Answers, Answer, Statuses
    <2> QED BY <2>1, <2>2, <2>3, <2>4, <2>5, <2>6 DEF Settings, TypeOK
  <1> QED BY <1>1, Invariant, PTL

\* An instruction that names a file or a URL gets its tool or a deferred
\* save, whatever feed it also names (Planner._route_impl).
THEOREM FilesAndUrlsFirst == Spec => []FilesAndUrlsHonoured
  <1>1. Inv => FilesAndUrlsHonoured
    BY DEF Inv
  <1> QED BY <1>1, Invariant, PTL

\* The persona of a prompt carries a name the assistant had during the turn,
\* although a rename and the invalidation of the cache are two steps
\* (_load_persona).
THEOREM PersonaOfTheTurn == Spec => []PersonaNamed
  <1>1. Inv => PersonaNamed
    BY DEF Inv, Voiced
  <1> QED BY <1>1, Invariant, PTL

\* The prompt of a local model whose window is larger than what is reserved
\* leaves room for the answer, however much history is kept and however many
\* files are attached, as long as the instruction and the project's line are
\* within what the headroom spares (profile_for, PromptBuilder's ceilings).
THEOREM PromptFitsWindow == Spec => []PromptFits
  <1>1. Init => Fitted
    BY NothingOffered, NoPromptFits DEF Init, Fitted, PromptFits
  <1>2. Inv /\ Fitted /\ [Next]_vars => Fitted'
    <2>1. ASSUME UNCHANGED vars, Fitted PROVE Fitted'
      BY <2>1 DEF vars, process, Fitted, PromptFits, Offered
    <2>2. ASSUME Inv, Fitted, Next PROVE Fitted'
      BY <2>2, OfferedKept, FitsKept DEF Inv, Fitted
    <2> QED BY <2>1, <2>2
  <1>3. Fitted => PromptFits
    BY DEF Fitted
  <1> QED BY <1>1, <1>2, <1>3, Invariant, PTL DEF Spec

\* A turn appends to a file at most once, however often its tools are called
\* and whichever replies are lost, while its sidecar can be written and read
\* (append_file).
THEOREM AppendsOnce == Spec => []AppendedOnce
  <1>1. Inv => AppendedOnce
    BY DEF Inv, Stored, Once, AppendedOnce
  <1> QED BY <1>1, Invariant, PTL

\* A completed conversational turn shows something, early and at the end
\* (the retry of an empty answer and the attribution filter).
THEOREM ShowsSomething == Spec => []NeverEmpty
  <1>1. Inv => NeverEmpty
    BY DEF Inv, Answering
  <1> QED BY <1>1, Invariant, PTL

\* The memory gains the instruction and the answer the turn went on with,
\* once each, however many attempts it took (handle_task_with_plan).
THEOREM RemembersOnce == Spec => []LoggedOnce
  <1>1. Inv => LoggedOnce
    BY DEF Inv, Logged
  <1> QED BY <1>1, Invariant, PTL

\* When the searches of a plan brought nothing, the vault is asked before the
\* first prompt, whichever provider, fallback or loop each went through
\* (step 3b, _web_search_failed against the names dispatch gives).
THEOREM SearchGrounded == Spec => FailedSearchGrounded
  <1>1. Init => Grounded
    <2> SUFFICES ASSUME Init PROVE Grounded
      OBVIOUS
    <2>1. found = NothingFound /\ phase = "idle"
      BY DEF Init
    <2> QED BY <2>1, NothingOffered DEF Grounded
  <1>2. Inv /\ Grounded /\ [Next]_vars => Grounded'
    <2>1. ASSUME UNCHANGED vars, Grounded PROVE Grounded'
      BY <2>1 DEF vars, process, Grounded, Offered
    <2> QED BY <2>1, GroundedKept
  <1>3. Inv /\ Grounded /\ [Next]_vars
        => [(/\ phase = "called" /\ phase' = "gathered" /\ config.memory
             /\ Fruitless(turn.plan.tools, found.results))
            => turn'.consulted]_vars
    <2> SUFFICES ASSUME Inv, Grounded, Next, phase = "called", phase' = "gathered", config.memory,
                        Fruitless(turn.plan.tools, found.results)
                 PROVE  turn'.consulted
      OBVIOUS
    <2>1. Gather
      <3>1. ~Around /\ ~Submit
        BY DEF Around, Rename, Invalidate, Upload, Detach, Restart, Submit
      <3>2. Work
        BY <3>1 DEF Next
      <3> QED BY <3>2 DEF Work, Accept, CallTools, ReadPersona, FetchPersona, Build, Reply, Propose,
                          Retry, Raise, Save, Ready, Hook, Finish, EndTurn
    <2>2. SearchFailed(found.results)
      BY DEF Grounded
    <2>3. Consulted = TRUE
      BY <2>2 DEF Consulted
    <2>4. turn' = [turn EXCEPT !.consulted = TRUE]
      BY <2>1, <2>3 DEF Gather
    <2>5. turn \in Turn
      BY DEF Inv, Going
    <2> QED BY <2>4, <2>5 DEF Turn
  <1> QED BY <1>1, <1>2, <1>3, Invariant, PTL DEF Spec, FailedSearchGrounded
===============================================================================
