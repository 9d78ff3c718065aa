------------------------ MODULE EmbeddingStoreProofs ------------------------
(***************************************************************************)
(* Proofs about EmbeddingStore, for every value of its constants.          *)
(***************************************************************************)
EXTENDS EmbeddingStore, TLAPS

-----------------------------------------------------------------------------
(* The inductive invariant behind VectorsCurrent                           *)

\* Rows that were never inserted do not exist.
FreshIds == \A s \in Stores, i \in Ids : i >= nextId[s] => text[s][i] = NoText

\* A write under way holds a vector of the very text it is about to store.
WriteInv ==
    \A w \in Writers :
        write[w].phase = "embedded" =>
            /\ write[w].store \in Stores
            /\ write[w].text \in Texts
            /\ write[w].vec # NoVec => write[w].vec.text = write[w].text

\* One request at most holds the lock, and the rows it embeds exist.
LockInv ==
    /\ \A q, r \in Requests :
          reembed[q].phase = "rows" /\ reembed[r].phase = "rows" => q = r
    /\ \A q \in Requests :
          reembed[q].phase = "rows" =>
              /\ reembed[q].store \in Stores
              /\ reembed[q].todo \subseteq Present(reembed[q].store)
              /\ \A i \in Ids : reembed[q].done[i] # NoModel =>
                                    i \in Present(reembed[q].store)

\* The provenance check of a switch runs for a model.
SwitchInv == switch.phase = "check" => switch.model \in Models

IInv == TypeOK /\ FreshIds /\ SwitchInv /\ WriteInv /\ LockInv /\ VectorsCurrent

-----------------------------------------------------------------------------
(* What the provenance check computes                                      *)

LEMMA NoVecNotVector == NoVec \notin Vector
  BY NullAssumption DEF NoVec, Vector

LEMMA SwapTypes ==
  ASSUME TypeOK, NEW s \in Stores, NEW m \in Models
  PROVE  /\ SwapArchive(s, m) \in [Ids -> [Models -> Vector \cup {NoVec}]]
         /\ SwapColumn(s, m) \in [Ids -> Vector \cup {NoVec}]
         /\ SwapComplete(s, m) \in BOOLEAN
  <1>1. SwapArchive(s, m) \in [Ids -> [Models -> Vector \cup {NoVec}]]
    BY DEF TypeOK, SwapArchive, Mismatch, HasProv
  <1>2. SwapColumn(s, m) \in [Ids -> Vector \cup {NoVec}]
    BY DEF TypeOK, SwapColumn
  <1>3. SwapComplete(s, m) \in BOOLEAN
    BY DEF TypeOK, SwapComplete
  <1> QED BY <1>1, <1>2, <1>3

\* The rows a check embeds itself are row ids.
LEMMA AutoFillIds ==
  ASSUME NEW m \in Models
  PROVE  UNION {AutoFill(s, m) : s \in Stores} \subseteq Ids
  BY DEF AutoFill, Present

LEMMA CheckTypes ==
  ASSUME TypeOK, NEW m \in Models, NEW old \in [Stores -> BOOLEAN],
         CheckProvenance(m, old)
  PROVE  /\ column'  \in [Stores -> [Ids -> Vector \cup {NoVec}]]
         /\ archive' \in [Stores -> [Ids -> [Models -> Vector \cup {NoVec}]]]
         /\ prov'    \in [Stores -> [model : Models \cup {NoModel}, complete : BOOLEAN]]
         /\ stale'   \in [Stores -> BOOLEAN]
         /\ text' = text /\ nextId' = nextId
  <1>1. PICK failed \in SUBSET Ids :
            /\ column'  = [s \in Stores |-> CheckColumn(s, m, failed)]
            /\ archive' = [s \in Stores |-> SwapArchive(s, m)]
            /\ prov'    = [s \in Stores |-> CheckProv(s, m, failed)]
            /\ stale'   = [s \in Stores |-> CheckStale(s, m, old[s])]
    BY AutoFillIds DEF CheckProvenance, PassFailures
  <1>2. ASSUME NEW s \in Stores
        PROVE  CheckColumn(s, m, failed) \in [Ids -> Vector \cup {NoVec}]
    <2>1. ASSUME NEW i \in AutoFill(s, m)
          PROVE  i \in Ids /\ text[s][i] \in Texts
      BY DEF AutoFill, Present, TypeOK
    <2> QED BY <2>1, SwapTypes DEF CheckColumn, Vector
  <1>3. ASSUME NEW s \in Stores
        PROVE  CheckProv(s, m, failed)
                  \in [model : Models \cup {NoModel}, complete : BOOLEAN]
    BY SwapTypes DEF CheckProv, TypeOK
  <1>4. ASSUME NEW s \in Stores
        PROVE  CheckStale(s, m, old[s]) \in BOOLEAN
    BY SwapTypes DEF CheckStale
  <1>5. text' = text /\ nextId' = nextId
    BY DEF CheckProvenance
  <1>6. \A s \in Stores : SwapArchive(s, m) \in [Ids -> [Models -> Vector \cup {NoVec}]]
    BY SwapTypes
  <1> QED BY <1>1, <1>2, <1>3, <1>4, <1>5, <1>6

\* The check moves vectors between column and archive of the same row, and
\* embeds the row's own text.
LEMMA CheckKeepsTexts ==
  ASSUME TypeOK, VectorsCurrent, NEW m \in Models, NEW old \in [Stores -> BOOLEAN],
         CheckProvenance(m, old)
  PROVE  VectorsCurrent'
  <1>1. PICK failed \in SUBSET Ids :
            /\ column'  = [s \in Stores |-> CheckColumn(s, m, failed)]
            /\ archive' = [s \in Stores |-> SwapArchive(s, m)]
            /\ text' = text
    BY AutoFillIds DEF CheckProvenance, PassFailures
  <1> SUFFICES ASSUME NEW s \in Stores, NEW i \in Ids
               PROVE  /\ column'[s][i] # NoVec => column'[s][i].text = text[s][i]
                      /\ \A n \in Models : archive'[s][i][n] # NoVec =>
                                              archive'[s][i][n].text = text[s][i]
    BY <1>1 DEF VectorsCurrent
  <1>2. /\ column[s][i] # NoVec => column[s][i].text = text[s][i]
        /\ \A n \in Models : archive[s][i][n] # NoVec =>
                                archive[s][i][n].text = text[s][i]
    BY DEF VectorsCurrent
  <1>3. SwapColumn(s, m)[i] # NoVec => SwapColumn(s, m)[i].text = text[s][i]
    BY <1>2 DEF SwapColumn
  <1>4. column'[s][i] # NoVec => column'[s][i].text = text[s][i]
    BY <1>1, <1>3 DEF CheckColumn
  <1>5. \A n \in Models : SwapArchive(s, m)[i][n] # NoVec =>
                             SwapArchive(s, m)[i][n].text = text[s][i]
    BY <1>2 DEF SwapArchive, Mismatch, HasProv, TypeOK
  <1> QED BY <1>1, <1>4, <1>5
-----------------------------------------------------------------------------
(* The initial states and the steps                                        *)

LEMMA InitIInv == Init => IInv
  <1> SUFFICES ASSUME Init PROVE IInv
    OBVIOUS
  <1>1. TypeOK
    BY BoundsAssumption, NullAssumption
    DEF Init, TypeOK, Ids, IdleSwitch, IdleWrite, IdleReembed
  <1>2. FreshIds /\ SwitchInv /\ WriteInv /\ LockInv /\ VectorsCurrent
    BY DEF Init, FreshIds, SwitchInv, IdleSwitch, WriteInv, LockInv, VectorsCurrent, IdleWrite, IdleReembed
  <1> QED BY <1>1, <1>2 DEF IInv

LEMMA RestartIInv ==
  ASSUME IInv, NEW m \in Models \cup {NoModel}, Restart(m)
  PROVE  IInv'
  <1> DEFINE clear == [s \in Stores |-> FALSE]
  <1>1. TypeOK /\ FreshIds /\ VectorsCurrent
    BY DEF IInv
  <1>2. /\ fn' = m /\ name' = m /\ heldFn' = m
        /\ switch'  = IdleSwitch
        /\ write'   = [w \in Writers |-> IdleWrite]
        /\ reembed' = [q \in Requests |-> IdleReembed]
    BY DEF Restart
  <1>3. SwitchInv' /\ WriteInv' /\ LockInv'
    BY <1>2 DEF SwitchInv, IdleSwitch, WriteInv, LockInv, IdleWrite, IdleReembed
  <1>4. /\ switch' \in [phase : {"idle", "name", "check", "build"},
                         model : Models \cup {NoModel}]
        /\ write' \in [Writers -> [phase : {"idle", "embedded"},
                                    store : Stores \cup {"none"},
                                    text  : Texts \cup {NoText},
                                    vec   : Vector \cup {NoVec}]]
        /\ reembed' \in [Requests -> [phase  : {"idle", "rows", "flag"},
                                       store  : Stores \cup {"none"},
                                       todo   : SUBSET Ids,
                                       done   : [Ids -> Models \cup {NoModel}],
                                       failed : SUBSET Ids,
                                       streak : Nat,
                                       flag   : BOOLEAN]]
    BY <1>2 DEF IdleSwitch, IdleWrite, IdleReembed
  <1>5. CASE m = NoModel
    <2>1. stale' = clear /\ UNCHANGED db
      BY <1>5 DEF Restart
    <2>2. TypeOK'
      BY <1>1, <1>2, <1>4, <2>1 DEF TypeOK, db
    <2>3. FreshIds' /\ VectorsCurrent'
      BY <1>1, <2>1 DEF FreshIds, VectorsCurrent, db
    <2> QED BY <1>3, <2>2, <2>3 DEF IInv
  <1>6. CASE m # NoModel
    <2>1. m \in Models /\ CheckProvenance(m, clear)
      BY <1>6 DEF Restart
    <2>2. clear \in [Stores -> BOOLEAN]
      OBVIOUS
    <2> HIDE DEF clear
    <2>3. TypeOK'
      BY <1>1, <1>2, <1>4, <2>1, <2>2, CheckTypes DEF TypeOK
    <2>4. FreshIds' /\ VectorsCurrent'
      BY <1>1, <2>1, <2>2, CheckTypes, CheckKeepsTexts DEF FreshIds
    <2> QED BY <1>3, <2>3, <2>4 DEF IInv
  <1> QED BY <1>5, <1>6

LEMMA SwitchIInv ==
  ASSUME IInv,
         \/ \E m \in Models \cup {NoModel} : SetEmbedFn(m)
         \/ SetModelName \/ SwitchCheck \/ BuildController
  PROVE  IInv'
  <1>1. ASSUME NEW m \in Models \cup {NoModel}, SetEmbedFn(m)
        PROVE  IInv'
    <2>1. UNCHANGED <<db, write, reembed>>
      BY <1>1 DEF SetEmbedFn
    <2>2. TypeOK' /\ SwitchInv'
      BY <1>1 DEF SetEmbedFn, IInv, TypeOK, SwitchInv, db
    <2> QED BY <2>1, <2>2
        DEF IInv, FreshIds, WriteInv, LockInv, VectorsCurrent, Present, db
  <1>2. CASE SetModelName
    <2>1. UNCHANGED <<db, write, reembed>>
      BY <1>2 DEF SetModelName
    <2>2. TypeOK' /\ SwitchInv'
      BY <1>2 DEF SetModelName, IInv, TypeOK, SwitchInv, db
    <2> QED BY <2>1, <2>2
        DEF IInv, FreshIds, WriteInv, LockInv, VectorsCurrent, Present, db
  <1>3. CASE BuildController
    <2>1. UNCHANGED <<db, write, reembed>>
      BY <1>3 DEF BuildController
    <2>2. TypeOK' /\ SwitchInv'
      BY <1>3 DEF BuildController, IInv, TypeOK, SwitchInv, db, IdleSwitch
    <2> QED BY <2>1, <2>2
        DEF IInv, FreshIds, WriteInv, LockInv, VectorsCurrent, Present, db
  <1>4. CASE SwitchCheck
    <2>0. TypeOK /\ VectorsCurrent /\ FreshIds /\ WriteInv /\ LockInv
      BY DEF IInv
    <2>1. \A q \in Requests : reembed[q].phase # "rows"
      BY <1>4 DEF SwitchCheck, LockFree
    <2>2. switch.model \in Models /\ CheckProvenance(switch.model, stale)
      BY <1>4 DEF SwitchCheck, IInv, SwitchInv
    <2>3. stale \in [Stores -> BOOLEAN]
      BY <2>0 DEF TypeOK
    <2>4. UNCHANGED <<write, reembed>> /\ switch'.phase = "build"
      BY <2>0, <1>4 DEF SwitchCheck, TypeOK
    <2>5. TypeOK'
      BY <2>0, <2>2, <2>3, <1>4, CheckTypes DEF SwitchCheck, TypeOK
    <2>6. FreshIds' /\ VectorsCurrent'
      BY <2>0, <2>2, <2>3, CheckTypes, CheckKeepsTexts DEF FreshIds
    <2>7. SwitchInv' /\ WriteInv' /\ LockInv'
      BY <2>0, <2>1, <2>4 DEF SwitchInv, WriteInv, LockInv
    <2> QED BY <2>5, <2>6, <2>7 DEF IInv
  <1> QED BY <1>1, <1>2, <1>3, <1>4

LEMMA ClearOneRow ==
  ASSUME TypeOK, NEW s \in Stores, NEW i \in Ids
  PROVE  [archive EXCEPT ![s] = ClearedArchive(s, {i})] =
            [archive EXCEPT ![s][i] = [m \in Models |-> NoVec]]
  <1>1. ClearedArchive(s, {i}) = [archive[s] EXCEPT ![i] = [m \in Models |-> NoVec]]
    BY DEF ClearedArchive, TypeOK
  <1> QED BY <1>1

LEMMA WriteStepIInv ==
  ASSUME IInv, NEW w \in Writers,
         \/ \E s \in Stores, t \in Texts : Embed(w, s, t)
         \/ Insert(w)
         \/ \E i \in Ids : Reindex(w, i)
  PROVE  IInv'
  <1>0. TypeOK /\ VectorsCurrent /\ FreshIds /\ SwitchInv /\ WriteInv /\ LockInv
    BY DEF IInv
  <1>1. ASSUME NEW s \in Stores, NEW t \in Texts, Embed(w, s, t)
        PROVE  IInv'
    <2>1. PICK v \in {NoVec} \cup {[model |-> m, text |-> t] : m \in {SourceOf(s)} \cap Models} :
            write' = [write EXCEPT ![w] =
                        [phase |-> "embedded", store |-> s, text |-> t, vec |-> v]]
      BY <1>1 DEF Embed
    <2>2. v \in Vector \cup {NoVec} /\ (v # NoVec => v.text = t)
      <3>1. CASE v = NoVec
        BY <3>1
      <3>2. CASE v # NoVec
        <4>1. PICK m \in Models : v = [model |-> m, text |-> t]
          BY <3>2
        <4> QED BY <4>1 DEF Vector
      <3> QED BY <3>1, <3>2
    <2>3. UNCHANGED <<text, nextId, column, archive, prov, fn, name, heldFn,
                      switch, stale, reembed>>
      BY <1>1 DEF Embed, db, source
    <2>4. TypeOK'
      BY <1>0, <2>1, <2>2, <2>3 DEF TypeOK
    <2>5. WriteInv'
      BY <1>0, <2>1, <2>2, <2>3 DEF WriteInv, TypeOK
    <2> QED BY <1>0, <2>3, <2>4, <2>5
        DEF IInv, FreshIds, SwitchInv, LockInv, VectorsCurrent, Present
  <1>2. CASE Insert(w)
    <2> DEFINE s == write[w].store
               i == nextId[s]
               v == write[w].vec
    <2>1. /\ s \in Stores /\ write[w].text \in Texts
          /\ i \in Ids /\ v \in Vector \cup {NoVec}
          /\ v # NoVec => v.text = write[w].text
      BY <1>0, <1>2 DEF Insert, TypeOK, WriteInv
    <2>2. /\ text'   = [text   EXCEPT ![s][i] = write[w].text]
          /\ column' = [column EXCEPT ![s][i] = v]
          /\ nextId' = [nextId EXCEPT ![s] = i + 1]
          /\ SeedProv(s, v)
          /\ write'  = [write EXCEPT ![w] = IdleWrite]
          /\ UNCHANGED <<archive, fn, name, heldFn, switch, stale, reembed>>
          /\ \A q \in Requests : reembed[q].phase # "rows"
      BY <1>2 DEF Insert, source, LockFree
    <2> HIDE DEF s, i, v
    <2>3. prov' \in [Stores -> [model : Models \cup {NoModel}, complete : BOOLEAN]]
      BY <1>0, <2>1, <2>2 DEF SeedProv, TypeOK
    <2>4. nextId' \in [Stores -> 1 .. MaxRow + 1]
      <3>1. i + 1 \in 1 .. MaxRow + 1
        BY <2>1, BoundsAssumption DEF Ids
      <3>2. nextId \in [Stores -> 1 .. MaxRow + 1]
        BY <1>0 DEF TypeOK
      <3> QED BY <2>1, <2>2, <3>1, <3>2
    <2>5. TypeOK'
      <3>1. /\ text'   \in [Stores -> [Ids -> Texts \cup {NoText}]]
            /\ column' \in [Stores -> [Ids -> Vector \cup {NoVec}]]
        BY <1>0, <2>1, <2>2 DEF TypeOK
      <3>2. write' \in [Writers -> [phase : {"idle", "embedded"},
                                    store : Stores \cup {"none"},
                                    text  : Texts \cup {NoText},
                                    vec   : Vector \cup {NoVec}]]
        BY <1>0, <2>2 DEF TypeOK, IdleWrite
      <3> QED BY <1>0, <2>2, <2>3, <2>4, <3>1, <3>2 DEF TypeOK
    <2>6. FreshIds'
      <3> SUFFICES ASSUME NEW r \in Stores, NEW k \in Ids, k >= nextId'[r]
                   PROVE  text'[r][k] = NoText
        BY DEF FreshIds
      <3>1. k >= nextId[r] /\ (r = s => k # i)
        BY <1>0, <2>1, <2>2, BoundsAssumption DEF TypeOK, Ids, i
      <3> QED BY <1>0, <2>1, <2>2, <3>1 DEF TypeOK, FreshIds
    <2>7. WriteInv'
      BY <1>0, <2>2 DEF WriteInv, IdleWrite, TypeOK
    <2>8. SwitchInv' /\ LockInv'
      BY <1>0, <2>2 DEF SwitchInv, LockInv
    <2>9. \A n \in Models : archive[s][i][n] = NoVec
      <3>1. text[s][i] = NoText
        BY <1>0, <2>1, BoundsAssumption DEF FreshIds, s, i, Ids, TypeOK
      <3> QED BY <1>0, <2>1, <3>1, NullAssumption DEF VectorsCurrent, TypeOK, Vector
    <2>10. VectorsCurrent'
      BY <1>0, <2>1, <2>2, <2>9 DEF VectorsCurrent, TypeOK
    <2> QED BY <2>5, <2>6, <2>7, <2>8, <2>10 DEF IInv
  <1>3. ASSUME NEW i \in Ids, Reindex(w, i)
        PROVE  IInv'
    <2> DEFINE s == write[w].store
               v == write[w].vec
    <2>1. /\ s \in Stores /\ write[w].text \in Texts
          /\ v \in Vector \cup {NoVec}
          /\ v # NoVec => v.text = write[w].text
          /\ text[s][i] # NoText
      BY <1>0, <1>3 DEF Reindex, ClearedArchive, TypeOK, WriteInv, Present
    <2>2. /\ write'  = [write EXCEPT ![w] = IdleWrite]
          /\ UNCHANGED <<nextId, fn, name, heldFn, switch, stale, reembed>>
          /\ \A q \in Requests : reembed[q].phase # "rows"
      BY <1>3 DEF Reindex, ClearedArchive, source, LockFree
    <2>3. \/ UNCHANGED <<text, column, archive, prov>>
          \/ /\ text'    = [text EXCEPT ![s][i] = write[w].text]
             /\ column'  = [column EXCEPT ![s][i] = v]
             /\ archive' = [archive EXCEPT ![s][i] = [m \in Models |-> NoVec]]
             /\ SeedProv(s, v)
      <3>1. i \in Ids /\ [archive EXCEPT ![s] = ClearedArchive(s, {i})] =
                           [archive EXCEPT ![s][i] = [m \in Models |-> NoVec]]
        BY <1>0, <2>1, ClearOneRow
      <3> QED BY <1>3, <3>1 DEF Reindex
    <2> HIDE DEF s, v
    <2>4. WriteInv' /\ SwitchInv' /\ LockInv' /\ write' \in [Writers ->
                [phase : {"idle", "embedded"}, store : Stores \cup {"none"},
                 text : Texts \cup {NoText}, vec : Vector \cup {NoVec}]]
      <3>1. \/ text' = text
            \/ \A q \in Requests : reembed'[q].phase # "rows"
        BY <2>2
      <3> QED BY <1>0, <2>2, <3>1
          DEF WriteInv, SwitchInv, LockInv, IdleWrite, TypeOK
    <2>5. CASE UNCHANGED <<text, column, archive, prov>>
      BY <1>0, <2>2, <2>4, <2>5
      DEF IInv, TypeOK, FreshIds, VectorsCurrent
    <2>6. CASE /\ text'    = [text EXCEPT ![s][i] = write[w].text]
               /\ column'  = [column EXCEPT ![s][i] = v]
               /\ archive' = [archive EXCEPT ![s][i] = [m \in Models |-> NoVec]]
               /\ SeedProv(s, v)
      <3>1. prov' \in [Stores -> [model : Models \cup {NoModel}, complete : BOOLEAN]]
        BY <1>0, <2>1, <2>6 DEF SeedProv, TypeOK
      <3>2. /\ text'   \in [Stores -> [Ids -> Texts \cup {NoText}]]
            /\ column' \in [Stores -> [Ids -> Vector \cup {NoVec}]]
        BY <1>0, <2>1, <2>6 DEF TypeOK
      <3>3. archive' \in [Stores -> [Ids -> [Models -> Vector \cup {NoVec}]]]
        BY <1>0, <2>1, <2>6 DEF TypeOK
      <3>4. TypeOK'
        BY <1>0, <2>2, <2>4, <3>1, <3>2, <3>3 DEF TypeOK
      <3>5. FreshIds'
        BY <1>0, <2>1, <2>2, <2>6 DEF TypeOK, FreshIds
      <3>6. VectorsCurrent'
        BY <1>0, <2>1, <2>6 DEF VectorsCurrent, TypeOK
      <3> QED BY <2>4, <3>4, <3>5, <3>6 DEF IInv
    <2> QED BY <2>3, <2>5, <2>6
  <1> QED BY <1>1, <1>2, <1>3

LEMMA DeleteIInv ==
  ASSUME IInv, NEW s \in Stores, NEW rows \in SUBSET Ids, Delete(s, rows)
  PROVE  IInv'
  <1>0. TypeOK /\ VectorsCurrent /\ FreshIds /\ SwitchInv /\ WriteInv /\ LockInv
    BY DEF IInv
  <1>1. /\ text'    = [text EXCEPT ![s] = [i \in Ids |-> IF i \in rows THEN NoText ELSE text[s][i]]]
        /\ column'  = [column EXCEPT ![s] = [i \in Ids |-> IF i \in rows THEN NoVec ELSE column[s][i]]]
        /\ archive' = [archive EXCEPT ![s] =
                         [i \in Ids |-> IF i \in rows THEN [m \in Models |-> NoVec] ELSE archive[s][i]]]
        /\ UNCHANGED <<nextId, prov, fn, name, heldFn, switch, stale, write, reembed>>
        /\ \A q \in Requests : reembed[q].phase # "rows"
    BY <1>0 DEF Delete, ClearedArchive, source, LockFree, TypeOK
  <1>2. TypeOK'
    <2>1. text' \in [Stores -> [Ids -> Texts \cup {NoText}]]
      BY <1>0, <1>1 DEF TypeOK
    <2>2. column' \in [Stores -> [Ids -> Vector \cup {NoVec}]]
      BY <1>0, <1>1 DEF TypeOK
    <2>3. archive' \in [Stores -> [Ids -> [Models -> Vector \cup {NoVec}]]]
      BY <1>0, <1>1 DEF TypeOK
    <2> QED BY <1>0, <1>1, <2>1, <2>2, <2>3 DEF TypeOK
  <1>3. FreshIds'
    BY <1>0, <1>1 DEF FreshIds, TypeOK
  <1>4. SwitchInv' /\ WriteInv' /\ LockInv'
    BY <1>0, <1>1 DEF SwitchInv, WriteInv, LockInv
  <1>5. VectorsCurrent'
    BY <1>0, <1>1 DEF VectorsCurrent, TypeOK
  <1> QED BY <1>2, <1>3, <1>4, <1>5 DEF IInv

\* The type of one re-embed request.
ReembedType == [phase  : {"idle", "rows", "flag"},
                store  : Stores \cup {"none"},
                todo   : SUBSET Ids,
                done   : [Ids -> Models \cup {NoModel}],
                failed : SUBSET Ids,
                streak : Nat,
                flag   : BOOLEAN]

\* A step that only moves request q's own record keeps the invariant when the
\* record keeps its type and its part of the lock invariant.
LEMMA ReembedFrame ==
  ASSUME IInv, NEW q \in Requests, NEW r \in ReembedType,
         UNCHANGED <<db, source, stale, write>>,
         reembed' = [reembed EXCEPT ![q] = r],
         r.phase = "rows" =>
            /\ r.store \in Stores
            /\ r.todo \subseteq Present(r.store)
            /\ \A i \in Ids : r.done[i] # NoModel => i \in Present(r.store)
            /\ reembed[q].phase = "rows" \/ LockFree
  PROVE  IInv'
  <1>0. TypeOK /\ VectorsCurrent /\ FreshIds /\ SwitchInv /\ WriteInv /\ LockInv
    BY DEF IInv
  <1>1. TypeOK'
    <2>1. reembed' \in [Requests -> ReembedType]
      BY <1>0 DEF TypeOK, ReembedType
    <2> QED BY <1>0, <2>1 DEF TypeOK, ReembedType, db, source
  <1>2. FreshIds' /\ SwitchInv' /\ WriteInv' /\ VectorsCurrent'
    BY <1>0 DEF FreshIds, SwitchInv, WriteInv, VectorsCurrent, db, source
  <1>3. LockInv'
    <2>1. \A p \in Requests : reembed'[p] = IF p = q THEN r ELSE reembed[p]
      BY <1>0 DEF TypeOK
    <2>2. \A s : Present(s)' = Present(s)
      BY DEF Present, db
    <2>3. ASSUME NEW p \in Requests, NEW o \in Requests,
                 reembed'[p].phase = "rows", reembed'[o].phase = "rows"
          PROVE  p = o
      BY <1>0, <2>1, <2>3 DEF LockInv, LockFree
    <2>4. ASSUME NEW p \in Requests, reembed'[p].phase = "rows"
          PROVE  /\ reembed'[p].store \in Stores
                 /\ reembed'[p].todo \subseteq Present(reembed'[p].store)
                 /\ \A i \in Ids : reembed'[p].done[i] # NoModel =>
                                       i \in Present(reembed'[p].store)
      BY <1>0, <2>1, <2>4 DEF LockInv
    <2> QED BY <2>2, <2>3, <2>4 DEF LockInv
  <1> QED BY <1>1, <1>2, <1>3 DEF IInv

LEMMA ReembedIInv ==
  ASSUME IInv, NEW q \in Requests,
         \/ \E s \in Stores : StartReembed(q, s)
         \/ \E i \in Ids : EmbedRow(q, i) \/ FailRow(q, i)
         \/ FinishReembed(q) \/ ReembedRaises(q) \/ SetStaleFlag(q)
  PROVE  IInv'
  <1>0. TypeOK /\ VectorsCurrent /\ FreshIds /\ SwitchInv /\ WriteInv /\ LockInv
    BY DEF IInv
  <1>a. reembed[q] \in ReembedType /\ reembed \in [Requests -> ReembedType]
    BY <1>0 DEF TypeOK, ReembedType
  <1>b. IdleReembed \in ReembedType /\ IdleReembed.phase = "idle"
    BY DEF IdleReembed, ReembedType
  <1>1. ASSUME NEW s \in Stores, StartReembed(q, s)
        PROVE  IInv'
    <2> DEFINE r == [IdleReembed EXCEPT !.phase = "rows", !.store = s,
                                        !.todo = Unfilled(s)]
    <2>1. r \in ReembedType /\ r.store = s /\ r.todo = Unfilled(s)
             /\ r.done = [i \in Ids |-> NoModel]
      BY DEF IdleReembed, ReembedType, Unfilled, Present
    <2>2. reembed' = [reembed EXCEPT ![q] = r] /\ LockFree
             /\ UNCHANGED <<db, source, stale, write>>
      BY <1>1 DEF StartReembed
    <2>3. Unfilled(s) \subseteq Present(s)
      BY DEF Unfilled
    <2> HIDE DEF r
    <2> QED BY <2>1, <2>2, <2>3, ReembedFrame
  <1>2. ASSUME NEW i \in Ids, EmbedRow(q, i)
        PROVE  IInv'
    <2> DEFINE r == [reembed[q] EXCEPT !.todo = @ \ {i}, !.streak = 0, !.done[i] = fn]
    <2>1. /\ reembed' = [reembed EXCEPT ![q] = r]
          /\ UNCHANGED <<db, source, stale, write>>
          /\ reembed[q].phase = "rows" /\ i \in reembed[q].todo
      BY <1>2, <1>a DEF EmbedRow, NextRow
    <2>2. /\ r \in ReembedType
          /\ r.store = reembed[q].store /\ r.todo = reembed[q].todo \ {i}
          /\ r.done = [reembed[q].done EXCEPT ![i] = fn]
      BY <1>0, <1>a DEF ReembedType, TypeOK
    <2>3. /\ r.store \in Stores
          /\ r.todo \subseteq Present(r.store)
          /\ \A k \in Ids : r.done[k] # NoModel => k \in Present(r.store)
      BY <1>0, <1>a, <2>1, <2>2 DEF LockInv, ReembedType
    <2> HIDE DEF r
    <2> QED BY <2>1, <2>2, <2>3, ReembedFrame
  <1>3. ASSUME NEW i \in Ids, FailRow(q, i)
        PROVE  IInv'
    <2> DEFINE aborts == reembed[q].streak + 1 >= AbortAfter
               todo == IF aborts THEN {} ELSE reembed[q].todo \ {i}
               more == IF aborts THEN reembed[q].todo ELSE {i}
               r == [reembed[q] EXCEPT !.todo = todo, !.failed = @ \cup more,
                                       !.streak = @ + 1]
    <2>0. todo \in SUBSET reembed[q].todo /\ more \in SUBSET Ids
      BY <1>a DEF ReembedType
    <2>1. /\ reembed' = [reembed EXCEPT ![q] = r]
          /\ UNCHANGED <<db, source, stale, write>>
          /\ reembed[q].phase = "rows"
      BY <1>3, <1>a DEF FailRow, NextRow
    <2>2. /\ r \in ReembedType
          /\ r.store = reembed[q].store /\ r.todo \subseteq reembed[q].todo
          /\ r.done = reembed[q].done
      <3> DEFINE failed == reembed[q].failed \cup more
                 streak == reembed[q].streak + 1
      <3>1. /\ todo \in SUBSET Ids /\ failed \in SUBSET Ids /\ streak \in Nat
        BY <1>a, <2>0 DEF ReembedType
      <3>2. r = [reembed[q] EXCEPT !.todo = todo, !.failed = failed, !.streak = streak]
        OBVIOUS
      <3> HIDE DEF todo, more, failed, streak, r
      <3> QED BY <1>a, <2>0, <3>1, <3>2 DEF ReembedType
    <2>3. /\ r.store \in Stores
          /\ r.todo \subseteq Present(r.store)
          /\ \A k \in Ids : r.done[k] # NoModel => k \in Present(r.store)
      BY <1>0, <2>1, <2>2 DEF LockInv
    <2> HIDE DEF r
    <2> QED BY <2>1, <2>2, <2>3, ReembedFrame
  <1>4. CASE ReembedRaises(q)
    <2>1. reembed' = [reembed EXCEPT ![q] = IdleReembed]
             /\ UNCHANGED <<db, source, stale, write>>
      BY <1>4 DEF ReembedRaises
    <2> QED BY <1>b, <2>1, ReembedFrame
  <1>5. CASE SetStaleFlag(q)
    <2>1. /\ reembed' = [reembed EXCEPT ![q] = IdleReembed]
          /\ stale' = [stale EXCEPT ![reembed[q].store] = reembed[q].flag]
          /\ UNCHANGED <<db, source, write>>
      BY <1>5 DEF SetStaleFlag
    <2>2. stale' \in [Stores -> BOOLEAN]
      BY <1>0, <1>a, <2>1 DEF TypeOK, ReembedType
    <2>3. reembed' \in [Requests -> ReembedType]
      BY <1>a, <1>b, <2>1
    <2>4. TypeOK'
      BY <1>0, <2>1, <2>2, <2>3 DEF TypeOK, ReembedType, db, source
    <2>5. FreshIds' /\ SwitchInv' /\ WriteInv' /\ VectorsCurrent'
      BY <1>0, <2>1 DEF FreshIds, SwitchInv, WriteInv, VectorsCurrent, db, source
    <2>6. LockInv'
      <3>1. \A p \in Requests : reembed'[p] = IF p = q THEN IdleReembed ELSE reembed[p]
        BY <1>a, <2>1
      <3> QED BY <1>0, <1>b, <2>1, <3>1 DEF LockInv, Present, db
    <2> QED BY <2>4, <2>5, <2>6 DEF IInv
  <1>6. CASE FinishReembed(q)
    <2> DEFINE s    == reembed[q].store
               done == reembed[q].done
    <2>1. s \in Stores /\ (\A i \in Ids : done[i] # NoModel => text[s][i] \in Texts)
      BY <1>0, <1>6 DEF FinishReembed, LockInv, Present, TypeOK
    <2>2. done \in [Ids -> Models \cup {NoModel}]
      BY <1>a DEF ReembedType
    <2>3. /\ column' = [column EXCEPT ![s] =
                          [i \in Ids |-> IF done[i] = NoModel THEN column[s][i]
                                         ELSE [model |-> done[i], text |-> text[s][i]]]]
          /\ UNCHANGED <<text, nextId, archive, fn, name, heldFn, switch, stale, write>>
      BY <1>0, <1>6, <2>1 DEF FinishReembed, source, TypeOK
    <2>4. prov' \in [Stores -> [model : Models \cup {NoModel}, complete : BOOLEAN]]
      <3>1. \/ prov' = [prov EXCEPT ![s] = [model |-> name, complete |-> TRUE]]
            \/ prov' = prov
        BY <1>6 DEF FinishReembed
      <3>2. /\ prov \in [Stores -> [model : Models \cup {NoModel}, complete : BOOLEAN]]
            /\ [model |-> name, complete |-> TRUE]
                  \in [model : Models \cup {NoModel}, complete : BOOLEAN]
        BY <1>0 DEF TypeOK
      <3> HIDE DEF s
      <3> QED BY <3>1, <3>2
    <2>5. PICK r \in ReembedType : /\ reembed' = [reembed EXCEPT ![q] = r]
                                   /\ r.phase # "rows"
      <3>1. StillStale(q) \in BOOLEAN
        BY DEF StillStale
      <3>2. [IdleReembed EXCEPT !.phase = "flag", !.store = s, !.flag = StillStale(q)]
               \in ReembedType
        BY <2>1, <3>1 DEF IdleReembed, ReembedType
      <3>3. [IdleReembed EXCEPT !.phase = "flag", !.store = s, !.flag = StillStale(q)].phase
               = "flag"
        BY DEF IdleReembed
      <3> QED BY <1>6, <1>b, <3>2, <3>3 DEF FinishReembed
    <2> HIDE DEF s, done
    <2>6. column' \in [Stores -> [Ids -> Vector \cup {NoVec}]]
      <3>1. \A i \in Ids : done[i] # NoModel =>
                [model |-> done[i], text |-> text[s][i]] \in Vector
        BY <2>1, <2>2 DEF Vector
      <3> QED BY <1>0, <2>1, <2>3, <3>1 DEF TypeOK
    <2>7. reembed' \in [Requests -> ReembedType]
      BY <1>a, <2>5
    <2>8. TypeOK'
      BY <1>0, <2>3, <2>4, <2>6, <2>7 DEF TypeOK, ReembedType
    <2>9. FreshIds' /\ SwitchInv' /\ WriteInv'
      BY <1>0, <2>3 DEF FreshIds, SwitchInv, WriteInv
    <2>10. VectorsCurrent'
      BY <1>0, <2>1, <2>3 DEF VectorsCurrent, TypeOK
    <2>11. LockInv'
      <3>1. \A p \in Requests : reembed'[p] = IF p = q THEN r ELSE reembed[p]
        BY <1>a, <2>5
      <3> QED BY <1>0, <2>3, <2>5, <3>1 DEF LockInv, Present
    <2> QED BY <2>8, <2>9, <2>10, <2>11 DEF IInv
  <1> QED BY <1>1, <1>2, <1>3, <1>4, <1>5, <1>6

LEMMA NextIInv == IInv /\ [Next]_vars => IInv'
  <1> SUFFICES ASSUME IInv, [Next]_vars PROVE IInv'
    OBVIOUS
  <1>1. CASE UNCHANGED vars
    BY <1>1 DEF vars, db, source, IInv, TypeOK, FreshIds, SwitchInv, WriteInv,
                LockInv, VectorsCurrent, Present
  <1>2. ASSUME NEW m \in Models \cup {NoModel}, Restart(m) PROVE IInv'
    BY <1>2, RestartIInv
  <1>3. CASE \/ \E m \in Models \cup {NoModel} : SetEmbedFn(m)
             \/ SetModelName \/ SwitchCheck \/ BuildController
    BY <1>3, SwitchIInv
  <1>4. ASSUME NEW w \in Writers,
               \/ \E s \in Stores, t \in Texts : Embed(w, s, t)
               \/ Insert(w)
               \/ \E i \in Ids : Reindex(w, i)
        PROVE  IInv'
    BY <1>4, WriteStepIInv
  <1>5. ASSUME NEW s \in Stores, NEW rows \in SUBSET Ids, Delete(s, rows)
        PROVE  IInv'
    BY <1>5, DeleteIInv
  <1>6. ASSUME NEW q \in Requests,
               \/ \E s \in Stores : StartReembed(q, s)
               \/ \E i \in Ids : EmbedRow(q, i) \/ FailRow(q, i)
               \/ FinishReembed(q) \/ ReembedRaises(q) \/ SetStaleFlag(q)
        PROVE  IInv'
    BY <1>6, ReembedIInv
  <1> QED BY <1>1, <1>2, <1>3, <1>4, <1>5, <1>6 DEF Next

\* Every reachable state is well typed, however writes, re-embeds, switches
\* and restarts overlap.
THEOREM TypeCorrect == Spec => []TypeOK
  <1>1. IInv => TypeOK
    BY DEF IInv
  <1> QED BY <1>1, InitIInv, NextIInv, PTL DEF Spec

\* However they overlap, no vector outlives the text it was computed from.
THEOREM VectorsStayCurrent == Spec => []VectorsCurrent
  <1>1. IInv => VectorsCurrent
    BY DEF IInv
  <1> QED BY <1>1, InitIInv, NextIInv, PTL DEF Spec

-----------------------------------------------------------------------------
(* Honest provenance and sound search, when no write or re-embed overlaps  *)
(* a switch and a table without a provenance row is filled whole or not.   *)

\* A switch runs alone, and its phases move fn, name and heldFn in order.
SwitchAlone ==
    /\ switch.phase # "idle" => Quiet
    /\ switch.phase = "idle"  => name = fn /\ heldFn = fn
    /\ switch.phase = "name"  => fn = switch.model
    /\ switch.phase = "check" => fn = switch.model /\ name = fn
    /\ switch.phase = "build" => name = fn

\* Every vector under way is of the active source, a pass over a table with
\* no provenance row has not both filled and failed rows, and a pending flag
\* that says fresh is right.
UnderWay ==
    /\ \A w \in Writers :
          write[w].phase = "embedded" /\ write[w].vec # NoVec => write[w].vec.model = fn
    /\ \A q \in Requests :
          reembed[q].phase = "rows" =>
              /\ fn # NoModel
              /\ \A i \in Ids : reembed[q].done[i] \in {NoModel, fn}
              /\ \/ HasProv(reembed[q].store)
                 \/ reembed[q].failed = {}
                 \/ \A i \in Ids : reembed[q].done[i] = NoModel
    /\ \A q \in Requests :
          reembed[q].phase = "flag" /\ ~reembed[q].flag =>
              /\ reembed[q].store \in Manual
              /\ HasProv(reembed[q].store) => prov[reembed[q].store].complete

\* With a source in place, the provenance rows name it, and a store not
\* flagged stale is complete.
Active ==
    (switch.phase \in {"idle", "build"} /\ fn # NoModel) =>
        \A s \in Seeded :
            HasProv(s) => prov[s].model = fn /\ (stale[s] \/ prov[s].complete)

QInv == IInv /\ SwitchAlone /\ UnderWay /\ Active /\ ProvenanceHonest

LEMMA CheckHonest ==
  ASSUME TypeOK, ProvenanceHonest, NEW m \in Models, NEW old \in [Stores -> BOOLEAN],
         CheckProvenance(m, old)
  PROVE  /\ ProvenanceHonest'
         /\ \A s \in Seeded : HasProv(s)' =>
                prov'[s].model = m /\ (stale'[s] \/ prov'[s].complete)
  <1>1. PICK failed \in SUBSET Ids :
            /\ column'  = [s \in Stores |-> CheckColumn(s, m, failed)]
            /\ archive' = [s \in Stores |-> SwapArchive(s, m)]
            /\ prov'    = [s \in Stores |-> CheckProv(s, m, failed)]
            /\ stale'   = [s \in Stores |-> CheckStale(s, m, old[s])]
    BY AutoFillIds DEF CheckProvenance, PassFailures
  <1> SUFFICES ASSUME NEW s \in Seeded
               PROVE  /\ \A i \in Ids :
                            /\ column'[s][i] # NoVec =>
                                  HasProv(s)' /\ column'[s][i].model = prov'[s].model
                            /\ \A n \in Models : archive'[s][i][n] # NoVec =>
                                                    archive'[s][i][n].model = n
                      /\ HasProv(s)' => prov'[s].model = m /\ (stale'[s] \/ prov'[s].complete)
    BY DEF ProvenanceHonest
  <1>2. /\ column'[s] = CheckColumn(s, m, failed)
        /\ archive'[s] = SwapArchive(s, m)
        /\ prov'[s] = CheckProv(s, m, failed)
        /\ stale'[s] = CheckStale(s, m, old[s])
        /\ s # "episodes" /\ s \in Stores /\ s \in Manual
    BY <1>1 DEF Seeded, Manual
  <1>3. \A i \in Ids :
            /\ column[s][i] # NoVec => HasProv(s) /\ column[s][i].model = prov[s].model
            /\ \A n \in Models : archive[s][i][n] # NoVec => archive[s][i][n].model = n
    BY DEF ProvenanceHonest
  <1>4. \A i \in Ids : column'[s][i] = SwapColumn(s, m)[i]
    BY <1>2 DEF CheckColumn, AutoFill
  <1>5. CASE HasProv(s)
    <2>1. /\ prov'[s] = [model |-> m, complete |-> SwapComplete(s, m)]
          /\ stale'[s] = ~SwapComplete(s, m)
      BY <1>2, <1>5, SwapTypes DEF CheckProv, CheckStale
    <2>2. HasProv(s)' /\ prov'[s].model = m /\ (stale'[s] \/ prov'[s].complete)
      <3>1. prov'[s].model = m /\ prov'[s].complete = SwapComplete(s, m)
        BY <2>1
      <3>2. stale'[s] \/ prov'[s].complete
        BY <2>1, <3>1, Zenon
      <3> QED BY <3>1, <3>2, NullAssumption DEF HasProv
    <2>3. ASSUME NEW i \in Ids
          PROVE  column'[s][i] # NoVec => column'[s][i].model = m
      BY <1>3, <1>4 DEF SwapColumn, Mismatch
    <2>4. ASSUME NEW i \in Ids, NEW n \in Models
          PROVE  archive'[s][i][n] # NoVec => archive'[s][i][n].model = n
      BY <1>2, <1>3 DEF SwapArchive, Mismatch, TypeOK
    <2> QED BY <2>2, <2>3, <2>4
  <1>6. CASE ~HasProv(s)
    <2>1. \A i \in Ids : column[s][i] = NoVec
      BY <1>3, <1>6
    <2>2. prov'[s] = prov[s]
      BY <1>2, <1>6, <2>1 DEF CheckProv
    <2>3. archive'[s] = archive[s] /\ \A i \in Ids : column'[s][i] = column[s][i]
      BY <1>2, <1>4, <1>6 DEF SwapColumn, SwapArchive, Mismatch
    <2> QED BY <1>3, <1>6, <2>1, <2>2, <2>3 DEF HasProv
  <1> QED BY <1>5, <1>6

\* A step that leaves the tables, the flags, writes and requests alone.
LEMMA QuietFrame ==
  ASSUME QInv, IInv', SwitchAlone', Active', UNCHANGED <<db, write, reembed>>, fn' = fn
  PROVE  QInv'
  BY DEF QInv, UnderWay, ProvenanceHonest, HasProv, db

LEMMA InitQInv == Init => QInv
  <1> SUFFICES ASSUME Init PROVE QInv
    OBVIOUS
  <1>1. IInv
    BY InitIInv
  <1>2. SwitchAlone /\ UnderWay /\ Active /\ ProvenanceHonest
    BY DEF Init, SwitchAlone, UnderWay, Active, ProvenanceHonest, HasProv, Seeded,
           IdleSwitch, IdleWrite, IdleReembed
  <1> QED BY <1>1, <1>2 DEF QInv

LEMMA SwitchQInv ==
  ASSUME QuiescentSwitch, QInv, IInv',
         \/ \E m \in Models \cup {NoModel} : SetEmbedFn(m) \/ Restart(m)
         \/ SetModelName \/ SwitchCheck \/ BuildController
  PROVE  QInv'
  <1>0. /\ TypeOK /\ SwitchAlone /\ UnderWay /\ Active /\ ProvenanceHonest
        /\ SwitchInv
    BY DEF QInv, IInv
  <1>1. ASSUME NEW m \in Models \cup {NoModel}, SetEmbedFn(m)
        PROVE  QInv'
    <2>1. /\ Quiet /\ fn' = m /\ switch' = [phase |-> "name", model |-> m]
          /\ UNCHANGED <<db, name, heldFn, stale, write, reembed>>
      BY <1>1 DEF SetEmbedFn
    <2>2. SwitchAlone' /\ Active'
      BY <2>1 DEF SwitchAlone, Active, Quiet
    <2>3. UnderWay' /\ ProvenanceHonest'
      BY <1>0, <2>1 DEF UnderWay, ProvenanceHonest, HasProv, db, Quiet
    <2> QED BY <2>2, <2>3 DEF QInv
  <1>2. ASSUME NEW m \in Models \cup {NoModel}, Restart(m)
        PROVE  QInv'
    <2> DEFINE clear == [s \in Stores |-> FALSE]
    <2>1. /\ fn' = m /\ name' = m /\ heldFn' = m /\ switch' = IdleSwitch
          /\ write' = [w \in Writers |-> IdleWrite]
          /\ reembed' = [q \in Requests |-> IdleReembed]
      BY <1>2 DEF Restart
    <2>2. SwitchAlone' /\ UnderWay'
      BY <2>1 DEF SwitchAlone, UnderWay, IdleSwitch, IdleWrite, IdleReembed
    <2>3. CASE m = NoModel
      <3>1. UNCHANGED db
        BY <1>2, <2>3 DEF Restart
      <3> QED BY <1>0, <2>1, <2>2, <2>3, <3>1 DEF QInv, Active, ProvenanceHonest, HasProv, db
    <2>4. CASE m # NoModel
      <3>1. m \in Models /\ CheckProvenance(m, clear)
        BY <1>2, <2>4 DEF Restart
      <3>2. clear \in [Stores -> BOOLEAN]
        OBVIOUS
      <3> HIDE DEF clear
      <3>3. ProvenanceHonest' /\ Active'
        BY <1>0, <2>1, <3>1, <3>2, CheckHonest DEF Active
      <3> QED BY <2>2, <3>3 DEF QInv
    <2> QED BY <2>3, <2>4
  <1>3. CASE SetModelName
    <2>1. /\ switch.phase = "name" /\ name' = switch.model /\ fn' = fn
          /\ switch' = [switch EXCEPT !.phase = IF switch.model = NoModel
                                                THEN "build" ELSE "check"]
          /\ UNCHANGED <<db, write, reembed>>
      BY <1>3 DEF SetModelName
    <2>2. /\ switch'.model = switch.model
          /\ switch'.phase = IF switch.model = NoModel THEN "build" ELSE "check"
      BY <1>0, <2>1 DEF TypeOK
    <2>3. SwitchAlone' /\ Active'
      BY <1>0, <2>1, <2>2 DEF SwitchAlone, Active, Quiet
    <2> QED BY <2>1, <2>3, QuietFrame
  <1>4. CASE BuildController
    <2>1. /\ switch.phase = "build" /\ heldFn' = fn /\ switch' = IdleSwitch
          /\ UNCHANGED <<db, fn, name, stale, write, reembed>>
      BY <1>4 DEF BuildController
    <2>2. SwitchAlone' /\ Active'
      BY <1>0, <2>1 DEF SwitchAlone, Active, HasProv, IdleSwitch, db
    <2> QED BY <2>1, <2>2, QuietFrame
  <1>5. CASE SwitchCheck
    <2>1. /\ switch.phase = "check" /\ CheckProvenance(switch.model, stale)
          /\ switch' = [switch EXCEPT !.phase = "build"]
          /\ UNCHANGED <<fn, name, heldFn, write, reembed>>
      BY <1>5 DEF SwitchCheck
    <2>2. switch'.phase = "build" /\ switch.model \in Models /\ fn = switch.model
             /\ stale \in [Stores -> BOOLEAN]
      BY <1>0, <2>1 DEF TypeOK, SwitchInv, SwitchAlone
    <2>3. ProvenanceHonest' /\ Active'
      BY <1>0, <2>1, <2>2, CheckHonest DEF Active
    <2>4. SwitchAlone' /\ UnderWay'
      BY <1>0, <2>1, <2>2 DEF SwitchAlone, UnderWay, Quiet
    <2> QED BY <2>3, <2>4 DEF QInv
  <1> QED BY <1>1, <1>2, <1>3, <1>4, <1>5

\* Storing a vector v of the active source in store s, seeding its provenance.
LEMMA SeedHonest ==
  ASSUME TypeOK, SwitchAlone, Active, switch.phase = "idle",
         NEW s \in Stores, NEW v \in Vector \cup {NoVec},
         v # NoVec => v.model = fn, SeedProv(s, v)
  PROVE  /\ \A r \in Stores : prov'[r] = prov[r] \/ (r = s /\ ~HasProv(r) /\ r \in Seeded)
         /\ s \in Seeded /\ v # NoVec =>
               prov'[s].model = v.model /\ v.model # NoModel
         /\ \A r \in Stores : prov'[r] # prov[r] =>
               prov'[r].model = fn /\ prov'[r].complete /\ fn # NoModel
  <1>1. v # NoVec => v.model \in Models /\ v.model = fn /\ name = fn
    BY DEF Vector, SwitchAlone
  <1>2. CASE s \in Seeded /\ v # NoVec /\ ~HasProv(s) /\ name # NoModel
    <2>1. prov' = [prov EXCEPT ![s] = [model |-> name, complete |-> TRUE]]
      BY <1>2 DEF SeedProv
    <2>2. prov \in [Stores -> [model : Models \cup {NoModel}, complete : BOOLEAN]]
      BY DEF TypeOK
    <2>3. \A r \in Stores : prov'[r] = IF r = s THEN [model |-> name, complete |-> TRUE]
                                       ELSE prov[r]
      BY <2>1, <2>2
    <2> QED BY <1>1, <1>2, <2>3
  <1>3. CASE ~(s \in Seeded /\ v # NoVec /\ ~HasProv(s) /\ name # NoModel)
    <2>1. prov' = prov
      BY <1>3 DEF SeedProv
    <2> QED BY <1>1, <1>3, <2>1, NullAssumption DEF Active, HasProv
  <1> QED BY <1>2, <1>3

LEMMA StoreVectorQInv ==
  ASSUME QInv, IInv', switch.phase = "idle",
         NEW w \in Writers, write[w].phase = "embedded",
         NEW s \in Stores, NEW i \in Ids, s = write[w].store,
         column' = [column EXCEPT ![s][i] = write[w].vec],
         \A r \in Stores, k \in Ids, m \in Models :
            archive'[r][k][m] \in {archive[r][k][m], NoVec},
         SeedProv(s, write[w].vec),
         write' = [write EXCEPT ![w] = IdleWrite],
         LockFree, UNCHANGED <<source, stale, reembed>>
  PROVE  QInv'
  <1> DEFINE v == write[w].vec
  <1>0. TypeOK /\ SwitchAlone /\ UnderWay /\ Active /\ ProvenanceHonest
    BY DEF QInv, IInv
  <1>1. v \in Vector \cup {NoVec} /\ (v # NoVec => v.model = fn)
    BY <1>0 DEF UnderWay, TypeOK
  <1> HIDE DEF v
  <1>2. /\ \A r \in Stores : prov'[r] = prov[r] \/ (r = s /\ ~HasProv(r) /\ r \in Seeded)
        /\ s \in Seeded /\ v # NoVec => prov'[s].model = v.model /\ v.model # NoModel
        /\ \A r \in Stores : prov'[r] # prov[r] =>
               prov'[r].model = fn /\ prov'[r].complete /\ fn # NoModel
    BY <1>0, <1>1, SeedHonest DEF v
  <1>3. SwitchAlone'
    BY <1>0 DEF SwitchAlone, source
  <1>4. Active'
    BY <1>0, <1>2 DEF Active, HasProv, Seeded, source
  <1>5. UnderWay'
    <2>1. \A q \in Requests : reembed[q].phase # "rows"
      BY DEF LockFree
    <2>2. \A x \in Writers : write'[x] = IF x = w THEN IdleWrite ELSE write[x]
      BY <1>0 DEF TypeOK
    <2>3. \A x \in Writers : write'[x].phase = "embedded" => write'[x] = write[x]
      BY <2>2 DEF IdleWrite
    <2>4. ASSUME NEW q \in Requests, reembed[q].phase = "flag", ~reembed[q].flag
          PROVE  /\ reembed[q].store \in Manual
                 /\ HasProv(reembed[q].store)' => prov'[reembed[q].store].complete
      BY <1>0, <1>2, <2>4 DEF UnderWay, Manual, HasProv
    <2> QED BY <1>0, <2>1, <2>3, <2>4 DEF UnderWay, source
  <1>6. ProvenanceHonest'
    <2> SUFFICES ASSUME NEW r \in Seeded, NEW k \in Ids
                 PROVE  /\ column'[r][k] # NoVec =>
                              HasProv(r)' /\ column'[r][k].model = prov'[r].model
                        /\ \A m \in Models : archive'[r][k][m] # NoVec =>
                              archive'[r][k][m].model = m
      BY DEF ProvenanceHonest
    <2>1. r \in Stores
      BY DEF Seeded
    <2>2. \A m \in Models : archive'[r][k][m] # NoVec => archive'[r][k][m].model = m
      BY <1>0, <2>1 DEF ProvenanceHonest
    <2>3. column'[r][k] = IF r = s /\ k = i THEN v ELSE column[r][k]
      BY <1>0, <2>1 DEF TypeOK, v
    <2>4. CASE r = s /\ k = i
      BY <1>2, <2>2, <2>3, <2>4 DEF HasProv
    <2>5. CASE ~(r = s /\ k = i)
      BY <1>0, <1>2, <2>1, <2>2, <2>3, <2>5 DEF ProvenanceHonest, HasProv
    <2> QED BY <2>4, <2>5
  <1> QED BY <1>3, <1>4, <1>5, <1>6 DEF QInv

LEMMA WriteStepQInv ==
  ASSUME QuiescentSwitch, QInv, IInv', NEW w \in Writers,
         \/ \E s \in Stores, t \in Texts : Embed(w, s, t)
         \/ Insert(w)
         \/ \E i \in Ids : Reindex(w, i)
  PROVE  QInv'
  <1>0. /\ TypeOK /\ SwitchAlone /\ UnderWay /\ Active /\ ProvenanceHonest
        /\ WriteInv
    BY DEF QInv, IInv
  <1>1. ASSUME NEW s \in Stores, NEW t \in Texts, Embed(w, s, t)
        PROVE  QInv'
    <2>1. PICK v \in {NoVec} \cup {[model |-> m, text |-> t] : m \in {SourceOf(s)} \cap Models} :
            write' = [write EXCEPT ![w] =
                        [phase |-> "embedded", store |-> s, text |-> t, vec |-> v]]
      BY <1>1 DEF Embed
    <2>2. UNCHANGED <<db, source, stale, reembed>> /\ switch.phase = "idle"
      BY <1>1 DEF Embed
    <2>3. v # NoVec => v.model = fn
      <3>1. SourceOf(s) = fn
        BY <1>0, <2>2 DEF SourceOf, SwitchAlone
      <3>2. CASE v # NoVec
        <4>1. PICK m \in {fn} \cap Models : v = [model |-> m, text |-> t]
          BY <3>1, <3>2
        <4> QED BY <4>1
      <3> QED BY <3>2
    <2>4. \A x \in Writers : write'[x].phase = "embedded" =>
             write'[x].vec = v \/ (write[x].phase = "embedded" /\ write'[x].vec = write[x].vec)
      BY <1>0, <2>1 DEF TypeOK
    <2>5. UnderWay'
      BY <1>0, <2>2, <2>3, <2>4 DEF UnderWay, HasProv, db, source
    <2>6. SwitchAlone' /\ Active' /\ ProvenanceHonest'
      BY <1>0, <2>2 DEF SwitchAlone, Active, ProvenanceHonest, HasProv, db, source
    <2> QED BY <2>5, <2>6 DEF QInv
  <1>2. CASE Insert(w)
    <2> DEFINE s == write[w].store
               i == nextId[s]
    <2>1. /\ write[w].phase = "embedded" /\ s \in Stores /\ i \in Ids
          /\ column' = [column EXCEPT ![s][i] = write[w].vec]
          /\ SeedProv(s, write[w].vec)
          /\ write' = [write EXCEPT ![w] = IdleWrite]
          /\ LockFree /\ UNCHANGED <<archive, source, stale, reembed>>
      BY <1>0, <1>2 DEF Insert, WriteInv
    <2>2. switch.phase = "idle"
      BY <1>0, <2>1 DEF SwitchAlone, Quiet
    <2> QED BY <2>1, <2>2, StoreVectorQInv
  <1>3. ASSUME NEW i \in Ids, Reindex(w, i)
        PROVE  QInv'
    <2> DEFINE s == write[w].store
    <2>1. /\ write[w].phase = "embedded" /\ s \in Stores
          /\ write' = [write EXCEPT ![w] = IdleWrite]
          /\ LockFree /\ UNCHANGED <<source, stale, reembed>>
      BY <1>0, <1>3 DEF Reindex, ClearedArchive, WriteInv
    <2>2. switch.phase = "idle"
      BY <1>0, <2>1 DEF SwitchAlone, Quiet
    <2>3. CASE UNCHANGED <<text, column, archive, prov>>
      <3>1. \A x \in Writers : write'[x].phase = "embedded" => write'[x] = write[x]
        BY <1>0, <2>1 DEF TypeOK, IdleWrite
      <3>2. UnderWay'
        BY <1>0, <2>1, <2>3, <3>1 DEF UnderWay, HasProv, source
      <3> QED BY <1>0, <2>1, <2>3, <3>2
          DEF QInv, SwitchAlone, Active, ProvenanceHonest, HasProv, source, LockFree, Quiet
    <2>4. CASE /\ column'  = [column EXCEPT ![s][i] = write[w].vec]
               /\ archive' = [archive EXCEPT ![s][i] = [m \in Models |-> NoVec]]
               /\ SeedProv(s, write[w].vec)
      <3>1. \A r \in Stores, k \in Ids, m \in Models :
               archive'[r][k][m] \in {archive[r][k][m], NoVec}
        BY <1>0, <2>1, <2>4 DEF TypeOK
      <3> HIDE DEF s
      <3> QED BY <2>1, <2>2, <2>4, <3>1, StoreVectorQInv DEF s
    <2>5. i \in Ids /\ [archive EXCEPT ![s] = ClearedArchive(s, {i})] =
                         [archive EXCEPT ![s][i] = [m \in Models |-> NoVec]]
      BY <1>0, <2>1, ClearOneRow
    <2> QED BY <1>3, <2>3, <2>4, <2>5 DEF Reindex
  <1> QED BY <1>1, <1>2, <1>3

LEMMA DeleteQInv ==
  ASSUME QInv, IInv', NEW s \in Stores, NEW rows \in SUBSET Ids, Delete(s, rows)
  PROVE  QInv'
  <1>0. TypeOK /\ SwitchAlone /\ UnderWay /\ Active /\ ProvenanceHonest
    BY DEF QInv, IInv
  <1>1. /\ column'  = [column EXCEPT ![s] = [i \in Ids |-> IF i \in rows THEN NoVec ELSE column[s][i]]]
        /\ archive' = [archive EXCEPT ![s] =
                         [i \in Ids |-> IF i \in rows THEN [m \in Models |-> NoVec] ELSE archive[s][i]]]
        /\ UNCHANGED <<nextId, prov, fn, name, heldFn, switch, stale, write, reembed>>
    BY <1>0 DEF Delete, ClearedArchive, source, TypeOK
  <1>2. SwitchAlone' /\ UnderWay' /\ Active'
    BY <1>0, <1>1 DEF SwitchAlone, UnderWay, Active, HasProv, Quiet
  <1>3. ProvenanceHonest'
    BY <1>0, <1>1 DEF ProvenanceHonest, HasProv, TypeOK, Seeded
  <1> QED BY <1>2, <1>3 DEF QInv

\* A step that moves only request q's record, with no switch under way.
LEMMA ReembedQuietFrame ==
  ASSUME QInv, IInv', switch.phase = "idle", NEW q \in Requests, NEW r \in ReembedType,
         UNCHANGED <<db, source, stale, write>>,
         reembed' = [reembed EXCEPT ![q] = r],
         r.phase # "flag",
         r.phase = "rows" =>
              /\ fn # NoModel
              /\ \A i \in Ids : r.done[i] \in {NoModel, fn}
              /\ \/ HasProv(r.store)
                 \/ r.failed = {}
                 \/ \A i \in Ids : r.done[i] = NoModel
  PROVE  QInv'
  <1>0. TypeOK /\ SwitchAlone /\ UnderWay /\ Active /\ ProvenanceHonest
    BY DEF QInv, IInv
  <1>1. \A p \in Requests : reembed'[p] = IF p = q THEN r ELSE reembed[p]
    BY <1>0 DEF TypeOK
  <1>2. UnderWay'
    BY <1>0, <1>1 DEF UnderWay, HasProv, db, source
  <1>3. SwitchAlone' /\ Active' /\ ProvenanceHonest'
    BY <1>0 DEF SwitchAlone, Active, ProvenanceHonest, HasProv, db, source
  <1> QED BY <1>2, <1>3 DEF QInv

LEMMA FinishQInv ==
  ASSUME QInv, IInv', NEW q \in Requests, FinishReembed(q)
  PROVE  QInv'
  <1> DEFINE s    == reembed[q].store
             done == reembed[q].done
  <1>0. /\ TypeOK /\ SwitchAlone /\ UnderWay /\ Active /\ ProvenanceHonest
        /\ LockInv
    BY DEF QInv, IInv
  <1>a. reembed \in [Requests -> ReembedType]
    BY <1>0 DEF TypeOK, ReembedType
  <1>1. /\ reembed[q].phase = "rows" /\ s \in Stores /\ fn # NoModel
        /\ \A i \in Ids : done[i] \in {NoModel, fn}
        /\ HasProv(s) \/ reembed[q].failed = {} \/ (\A i \in Ids : done[i] = NoModel)
    BY <1>0 DEF FinishReembed, UnderWay, LockInv
  <1>2. switch.phase = "idle" /\ name = fn /\ fn \in Models
    BY <1>0, <1>1 DEF SwitchAlone, Quiet, TypeOK
  <1>3. /\ column' = [column EXCEPT ![s] =
                        [i \in Ids |-> IF done[i] = NoModel THEN column[s][i]
                                       ELSE [model |-> done[i], text |-> text[s][i]]]]
        /\ UNCHANGED <<text, nextId, archive, fn, name, heldFn, switch, stale, write>>
    BY <1>0, <1>1 DEF FinishReembed, source, TypeOK
  <1>4. \A r \in Stores : prov'[r] = IF r = s /\ reembed[q].failed = {}
                                    THEN [model |-> fn, complete |-> TRUE]
                                    ELSE prov[r]
    BY <1>0, <1>1, <1>2 DEF FinishReembed, TypeOK
  <1>5. \A r \in Stores : HasProv(r)' <=>
             HasProv(r) \/ (r = s /\ reembed[q].failed = {})
    BY <1>2, <1>4, NullAssumption DEF HasProv
  <1>6. SwitchAlone'
    BY <1>0, <1>2, <1>3 DEF SwitchAlone
  <1>7. Active'
    BY <1>0, <1>3, <1>4, <1>5 DEF Active, Seeded
  <1>8. ProvenanceHonest'
    <2> SUFFICES ASSUME NEW r \in Seeded, NEW i \in Ids
                 PROVE  /\ column'[r][i] # NoVec =>
                              HasProv(r)' /\ column'[r][i].model = prov'[r].model
                        /\ \A m \in Models : archive'[r][i][m] # NoVec =>
                              archive'[r][i][m].model = m
      BY DEF ProvenanceHonest
    <2>1. r \in Stores
      BY DEF Seeded
    <2>2. \A m \in Models : archive'[r][i][m] # NoVec => archive'[r][i][m].model = m
      BY <1>0, <1>3 DEF ProvenanceHonest
    <2>3. column'[r][i] = IF r = s /\ done[i] # NoModel
                          THEN [model |-> done[i], text |-> text[s][i]]
                          ELSE column[r][i]
      BY <1>0, <1>3, <2>1 DEF TypeOK
    <2>4. HasProv(r) => prov[r].model = fn
      BY <1>0, <1>1, <1>2 DEF Active
    <2>5. CASE r = s /\ done[i] # NoModel
      BY <1>1, <1>4, <1>5, <2>1, <2>2, <2>3, <2>4, <2>5
    <2>6. CASE ~(r = s /\ done[i] # NoModel)
      BY <1>0, <1>4, <1>5, <2>1, <2>2, <2>3, <2>4, <2>6 DEF ProvenanceHonest
    <2> QED BY <2>5, <2>6
  <1>9. UnderWay'
    <2>1. PICK r : /\ reembed' = [reembed EXCEPT ![q] = r]
                   /\ r.phase # "rows"
                   /\ r.phase = "flag" =>
                         s \in Manual /\ r.store = s /\ (~r.flag => ~StillStale(q))
      <3>1. CASE s \in Manual
        <4> DEFINE x == [IdleReembed EXCEPT !.phase = "flag", !.store = s,
                                            !.flag = StillStale(q)]
        <4>1. x.phase = "flag" /\ x.store = s /\ x.flag = StillStale(q)
          BY DEF IdleReembed
        <4>2. reembed' = [reembed EXCEPT ![q] = x]
          BY <3>1 DEF FinishReembed
        <4>3. ~x.flag => ~StillStale(q)
          BY <4>1, Zenon
        <4>4. x.phase = "flag" /\ x.store = s
          BY <4>1
        <4> HIDE DEF x
        <4>5. /\ reembed' = [reembed EXCEPT ![q] = x]
              /\ x.phase # "rows"
              /\ x.phase = "flag" =>
                    s \in Manual /\ x.store = s /\ (~x.flag => ~StillStale(q))
          BY <3>1, <4>2, <4>3, <4>4
        <4> QED BY <4>5, Zenon
      <3>2. CASE s \notin Manual
        <4>1. reembed' = [reembed EXCEPT ![q] = IdleReembed]
          BY <3>2 DEF FinishReembed
        <4>2. IdleReembed.phase = "idle"
          BY DEF IdleReembed
        <4>3. /\ IdleReembed.phase # "rows"
              /\ IdleReembed.phase = "flag" =>
                    /\ s \in Manual /\ IdleReembed.store = s
                    /\ ~IdleReembed.flag => ~StillStale(q)
          BY <4>2
        <4> QED BY <4>1, <4>3, Zenon
      <3> QED BY <3>1, <3>2
    <2>2. \A p \in Requests : reembed'[p] = IF p = q THEN r ELSE reembed[p]
      BY <1>a, <2>1
    <2>3. ASSUME NEW p \in Requests, reembed'[p].phase = "rows"
          PROVE  FALSE
      BY <1>0, <1>1, <2>1, <2>2, <2>3 DEF LockInv
    <2>4. ASSUME NEW p \in Requests, reembed'[p].phase = "flag", ~reembed'[p].flag
          PROVE  /\ reembed'[p].store \in Manual
                 /\ prov'[reembed'[p].store].model # NoModel =>
                       prov'[reembed'[p].store].complete
      <3>1. CASE p = q
        <4>1. s \in Manual /\ reembed'[p].store = s /\ ~StillStale(q)
          <5>1. reembed'[p] = r
            BY <2>2, <3>1
          <5>2. r.phase = "flag" /\ ~r.flag
            BY <2>4, <5>1
          <5> QED BY <2>1, <5>1, <5>2
        <4>2. HasProv(s) => reembed[q].failed = {} \/ prov[s].complete
          BY <4>1 DEF StillStale
        <4> HIDE DEF s
        <4> QED BY <1>1, <1>4, <4>1, <4>2 DEF HasProv
      <3>2. CASE p # q
        <4>1. reembed'[p] = reembed[p]
          BY <2>2, <3>2
        <4>2. /\ reembed[p].store \in Manual
              /\ HasProv(reembed[p].store) => prov[reembed[p].store].complete
          BY <1>0, <2>4, <4>1 DEF UnderWay
        <4> QED BY <1>4, <4>1, <4>2 DEF Manual, HasProv
      <3> QED BY <3>1, <3>2
    <2>5. \A w \in Writers : write'[w].phase = "embedded" /\ write'[w].vec # NoVec =>
              write'[w].vec.model = fn'
      BY <1>0, <1>3 DEF UnderWay
    <2> QED BY <2>3, <2>4, <2>5 DEF UnderWay, HasProv
  <1> QED BY <1>6, <1>7, <1>8, <1>9 DEF QInv

LEMMA ReembedQInv ==
  ASSUME QuiescentSwitch, CleanReembed, QInv, IInv', NEW q \in Requests,
         \/ \E s \in Stores : StartReembed(q, s)
         \/ \E i \in Ids : EmbedRow(q, i) \/ FailRow(q, i)
         \/ FinishReembed(q) \/ ReembedRaises(q) \/ SetStaleFlag(q)
  PROVE  QInv'
  <1>0. TypeOK /\ SwitchAlone /\ UnderWay /\ Active /\ ProvenanceHonest
    BY DEF QInv, IInv
  <1>a. reembed[q] \in ReembedType /\ reembed \in [Requests -> ReembedType]
    BY <1>0 DEF TypeOK, ReembedType
  <1>b. IdleReembed \in ReembedType /\ IdleReembed.phase = "idle"
    BY DEF IdleReembed, ReembedType
  <1>c. reembed[q].phase # "idle" => switch.phase = "idle"
    BY <1>0 DEF SwitchAlone, Quiet
  <1>1. ASSUME NEW s \in Stores, StartReembed(q, s)
        PROVE  QInv'
    <2> DEFINE r == [IdleReembed EXCEPT !.phase = "rows", !.store = s,
                                        !.todo = Unfilled(s)]
    <2>1. /\ r \in ReembedType /\ r.phase = "rows" /\ r.failed = {}
          /\ \A i \in Ids : r.done[i] = NoModel
      BY DEF IdleReembed, ReembedType, Unfilled, Present
    <2>2. /\ reembed' = [reembed EXCEPT ![q] = r] /\ fn # NoModel
          /\ switch.phase = "idle"
          /\ UNCHANGED <<db, source, stale, write>>
      BY <1>1 DEF StartReembed
    <2> HIDE DEF r
    <2> QED BY <2>1, <2>2, ReembedQuietFrame
  <1>2. ASSUME NEW i \in Ids, EmbedRow(q, i)
        PROVE  QInv'
    <2> DEFINE r == [reembed[q] EXCEPT !.todo = @ \ {i}, !.streak = 0, !.done[i] = fn]
    <2>1. /\ reembed' = [reembed EXCEPT ![q] = r]
          /\ UNCHANGED <<db, source, stale, write>>
          /\ reembed[q].phase = "rows"
          /\ HasProv(reembed[q].store) \/ reembed[q].failed = {}
      BY <1>2, <1>a DEF EmbedRow, NextRow, SeedlessClean
    <2>2. /\ r \in ReembedType /\ r.phase = "rows"
          /\ r.store = reembed[q].store /\ r.failed = reembed[q].failed
          /\ r.done = [reembed[q].done EXCEPT ![i] = fn]
      BY <1>0, <1>a, <2>1 DEF ReembedType, TypeOK
    <2>3. fn # NoModel /\ \A k \in Ids : r.done[k] \in {NoModel, fn}
      BY <1>0, <1>a, <2>1, <2>2 DEF UnderWay, ReembedType
    <2> HIDE DEF r
    <2> QED BY <1>c, <2>1, <2>2, <2>3, ReembedQuietFrame
  <1>3. ASSUME NEW i \in Ids, FailRow(q, i)
        PROVE  QInv'
    <2> DEFINE aborts == reembed[q].streak + 1 >= AbortAfter
               todo == IF aborts THEN {} ELSE reembed[q].todo \ {i}
               more == IF aborts THEN reembed[q].todo ELSE {i}
               r == [reembed[q] EXCEPT !.todo = todo, !.failed = @ \cup more,
                                       !.streak = @ + 1]
    <2>0. todo \in SUBSET reembed[q].todo /\ more \in SUBSET Ids
      BY <1>a DEF ReembedType
    <2>1. /\ reembed' = [reembed EXCEPT ![q] = r]
          /\ UNCHANGED <<db, source, stale, write>>
          /\ reembed[q].phase = "rows"
      BY <1>3, <1>a DEF FailRow, NextRow
    <2>2. /\ r \in ReembedType /\ r.phase = "rows"
          /\ r.store = reembed[q].store /\ r.done = reembed[q].done
      <3> DEFINE failed == reembed[q].failed \cup more
                 streak == reembed[q].streak + 1
      <3>1. /\ todo \in SUBSET Ids /\ failed \in SUBSET Ids /\ streak \in Nat
        BY <1>a, <2>0 DEF ReembedType
      <3>2. r = [reembed[q] EXCEPT !.todo = todo, !.failed = failed, !.streak = streak]
        OBVIOUS
      <3> HIDE DEF todo, more, failed, streak, r
      <3> QED BY <1>a, <2>0, <2>1, <3>1, <3>2 DEF ReembedType
    <2>3. HasProv(reembed[q].store) \/ \A k \in Ids : reembed[q].done[k] = NoModel
      BY <1>3 DEF FailRow, SeedlessClean
    <2>4. fn # NoModel /\ \A k \in Ids : r.done[k] \in {NoModel, fn}
      BY <1>0, <2>1, <2>2 DEF UnderWay
    <2> HIDE DEF r
    <2> QED BY <1>c, <2>1, <2>2, <2>3, <2>4, ReembedQuietFrame
  <1>4. CASE ReembedRaises(q)
    <2>1. reembed' = [reembed EXCEPT ![q] = IdleReembed] /\ switch.phase = "idle"
             /\ UNCHANGED <<db, source, stale, write>>
      BY <1>4, <1>c DEF ReembedRaises
    <2> QED BY <1>b, <2>1, ReembedQuietFrame
  <1>5. CASE SetStaleFlag(q)
    <2>1. /\ reembed[q].phase = "flag"
          /\ reembed' = [reembed EXCEPT ![q] = IdleReembed]
          /\ stale' = [stale EXCEPT ![reembed[q].store] = reembed[q].flag]
          /\ UNCHANGED <<db, source, write>>
      BY <1>5 DEF SetStaleFlag
    <2>2. \A p \in Requests : reembed'[p] = IF p = q THEN IdleReembed ELSE reembed[p]
      BY <1>a, <2>1
    <2>3. UnderWay'
      BY <1>0, <1>b, <2>1, <2>2 DEF UnderWay, HasProv, db, source
    <2>4. Active'
      <3>1. \A s \in Stores : stale'[s] = IF s = reembed[q].store THEN reembed[q].flag
                                         ELSE stale[s]
        BY <1>0, <2>1 DEF TypeOK
      <3>2. ~reembed[q].flag /\ HasProv(reembed[q].store) => prov[reembed[q].store].complete
        BY <1>0, <2>1 DEF UnderWay
      <3> QED BY <1>0, <2>1, <3>1, <3>2 DEF Active, Seeded, HasProv, db, source
    <2>5. SwitchAlone' /\ ProvenanceHonest'
      BY <1>0, <1>b, <1>c, <2>1, <2>2 DEF SwitchAlone, ProvenanceHonest, HasProv, db, source
    <2> QED BY <2>3, <2>4, <2>5 DEF QInv
  <1>6. CASE FinishReembed(q)
    BY <1>6, FinishQInv
  <1> QED BY <1>1, <1>2, <1>3, <1>4, <1>5, <1>6

LEMMA NextQInv ==
  ASSUME QuiescentSwitch, CleanReembed, QInv, [Next]_vars
  PROVE  QInv'
  <1>0. IInv'
    BY NextIInv DEF QInv
  <1>1. CASE UNCHANGED vars
    BY <1>0, <1>1 DEF vars, db, source, QInv, SwitchAlone, UnderWay, Active,
                ProvenanceHonest, HasProv, Quiet
  <1>2. CASE \/ \E m \in Models \cup {NoModel} : SetEmbedFn(m) \/ Restart(m)
             \/ SetModelName \/ SwitchCheck \/ BuildController
    BY <1>0, <1>2, SwitchQInv
  <1>3. ASSUME NEW w \in Writers,
               \/ \E s \in Stores, t \in Texts : Embed(w, s, t)
               \/ Insert(w)
               \/ \E i \in Ids : Reindex(w, i)
        PROVE  QInv'
    BY <1>0, <1>3, WriteStepQInv
  <1>4. ASSUME NEW s \in Stores, NEW rows \in SUBSET Ids, Delete(s, rows)
        PROVE  QInv'
    BY <1>0, <1>4, DeleteQInv
  <1>5. ASSUME NEW q \in Requests,
               \/ \E s \in Stores : StartReembed(q, s)
               \/ \E i \in Ids : EmbedRow(q, i) \/ FailRow(q, i)
               \/ FinishReembed(q) \/ ReembedRaises(q) \/ SetStaleFlag(q)
        PROVE  QInv'
    BY <1>0, <1>5, ReembedQInv
  <1> QED BY <1>1, <1>2, <1>3, <1>4, <1>5 DEF Next

\* When nothing overlaps a switch and seedless tables are filled whole or not,
\* each seeded store's column holds the vectors of its provenance row's model
\* and the archive files every vector under the model that computed it.
THEOREM ProvenanceStaysHonest ==
  ASSUME QuiescentSwitch, CleanReembed
  PROVE  Spec => []ProvenanceHonest
  <1>1. QInv => ProvenanceHonest
    BY DEF QInv
  <1>2. QInv /\ [Next]_vars => QInv'
    BY NextQInv
  <1> QED BY <1>1, <1>2, InitQInv, PTL DEF Spec

\* Under the same assumptions a store searched semantically holds vectors of
\* the query's own model only, and has no gaps of a model change.
THEOREM SearchStaysSound ==
  ASSUME QuiescentSwitch, CleanReembed
  PROVE  Spec => []SearchSound
  <1>1. QInv => SearchSound
    <2> SUFFICES ASSUME QInv, NEW s \in Seeded, switch.phase = "idle", fn # NoModel,
                        ~stale[s]
                 PROVE  /\ \A i \in Ids : column[s][i] # NoVec => column[s][i].model = fn
                        /\ HasProv(s) => prov[s] = [model |-> fn, complete |-> TRUE]
      BY DEF SearchSound
    <2>1. HasProv(s) => prov[s].model = fn /\ prov[s].complete
      BY DEF QInv, Active
    <2>2. \A i \in Ids : column[s][i] # NoVec => column[s][i].model = fn
      BY <2>1 DEF QInv, ProvenanceHonest
    <2>3. prov[s] \in [model : Models \cup {NoModel}, complete : BOOLEAN]
      BY DEF QInv, IInv, TypeOK, Seeded
    <2> QED BY <2>1, <2>2, <2>3
  <1>2. QInv /\ [Next]_vars => QInv'
    BY NextQInv
  <1> QED BY <1>1, <1>2, InitQInv, PTL DEF Spec
=============================================================================
