---------------------- MODULE EmbeddingStoreRefinement ----------------------
(***************************************************************************)
(* EmbeddingStore implements ModelVectors when nothing overlaps a switch   *)
(* and a table without a provenance row is filled whole or not: every step *)
(* maps to a step of ModelVectors or to a stutter, for every value of the  *)
(* constants.                                                              *)
(***************************************************************************)
EXTENDS EmbeddingStoreProofs

-----------------------------------------------------------------------------
(* The inductive invariant                                                 *)

\* With a source in place, every provenance row names it, the episodes' too.
Named ==
    (switch.phase \in {"idle", "build"} /\ fn # NoModel) =>
        \A s \in Stores : HasProv(s) => prov[s].model = fn

\* Nothing is archived before there is a provenance row, and no row is empty
\* while the archive has its vector of the provenance row's model.
Unstranded ==
    \A s \in Stores, i \in Ids :
        /\ ~HasProv(s) => \A m \in Models : archive[s][i][m] = NoVec
        /\ HasProv(s) /\ column[s][i] = NoVec => archive[s][i][prov[s].model] = NoVec

RInv == QInv /\ Named /\ Unstranded

-----------------------------------------------------------------------------
(* Steps of ModelVectors, in terms of Kept                                 *)

\* Rows keep their texts and their models: a stutter.
LEMMA SameIsStutter ==
  ASSUME UNCHANGED text, \A r \in Stores, k \in Ids : Kept(r, k)' = Kept(r, k)
  PROVE  UNCHANGED Promise!vars
  BY DEF Promise!vars

\* Existing rows of one table gain one model: Fill.
LEMMA GainIsFill ==
  ASSUME UNCHANGED text, NEW s \in Stores, NEW m \in Models,
         \A r \in Stores, k \in Ids : r # s => Kept(r, k)' = Kept(r, k),
         \A k \in Ids : Kept(s, k)' \in {Kept(s, k), Kept(s, k) \cup {m}},
         \A k \in Ids \ Present(s) : Kept(s, k)' = Kept(s, k)
  PROVE  Promise!Next
  <1> DEFINE kept == [r \in Stores |-> [k \in Ids |-> Kept(r, k)]]
             rows == {k \in Present(s) : Kept(s, k)' # Kept(s, k)}
  <1>1. kept' = [kept EXCEPT ![s] = [k \in Ids |-> IF k \in rows THEN kept[s][k] \cup {m}
                                                  ELSE kept[s][k]]]
    <2> DEFINE new == [k \in Ids |-> IF k \in rows THEN kept[s][k] \cup {m} ELSE kept[s][k]]
    <2>1. [k \in Ids |-> Kept(s, k)'] = new
      OBVIOUS
    <2>2. \A r \in Stores : kept'[r] = IF r = s THEN new ELSE kept[r]
      BY <2>1
    <2> QED BY <2>2
  <1>2. rows \in SUBSET {k \in Ids : text[s][k] # NoText}
    BY DEF Present
  <1>3. Promise!Fill(s)
    BY <1>1, <1>2 DEF Promise!Fill
  <1> QED BY <1>3 DEF Promise!Next

-----------------------------------------------------------------------------
(* Where the vectors of a row are found                                    *)

\* The vector found under model m for row i of table s, as Kept looks it up.
Found(s, i, m) == IF prov[s].model = m THEN column[s][i] ELSE archive[s][i][m]

LEMMA KeptIsFound ==
  \A s \in Stores, i \in Ids :
      Kept(s, i) = {m \in Models : Found(s, i, m) = [model |-> m, text |-> text[s][i]]}
  BY DEF Kept, Found

\* A row that does not exist has no vector anywhere.
LEMMA AbsentRows ==
  ASSUME TypeOK, VectorsCurrent, NEW s \in Stores, NEW i \in Ids \ Present(s)
  PROVE  column[s][i] = NoVec /\ \A m \in Models : archive[s][i][m] = NoVec
  <1>1. text[s][i] \notin Texts
    BY NullAssumption DEF Present
  <1> QED BY <1>1 DEF TypeOK, VectorsCurrent, Vector

\* Without a provenance row nothing is found.
LEMMA UnnamedKeepsNone ==
  ASSUME TypeOK, Unstranded, NEW s \in Stores, NEW i \in Ids, ~HasProv(s)
  PROVE  Kept(s, i) = {}
  BY NullAssumption DEF Unstranded, HasProv, Kept, NoVec

-----------------------------------------------------------------------------
(* The provenance check                                                    *)

\* A table with a provenance row keeps what it has; only an episodes row that
\* the check fills gains the active model.
LEMMA CheckKeeps ==
  ASSUME TypeOK, VectorsCurrent, Unstranded, NEW m \in Models,
         NEW old \in [Stores -> BOOLEAN], NEW failed \in SUBSET Ids,
         NEW s \in Stores, HasProv(s), NEW i \in Ids,
         column'[s] = CheckColumn(s, m, failed), archive'[s] = SwapArchive(s, m),
         prov'[s] = CheckProv(s, m, failed), text' = text
  PROVE  /\ Kept(s, i)' \in {Kept(s, i), Kept(s, i) \cup {m}}
         /\ s # "episodes" \/ i \notin Present(s) => Kept(s, i)' = Kept(s, i)
         /\ column'[s][i] = NoVec => archive'[s][i][m] = NoVec
         /\ prov'[s].model = m
  <1>1. prov'[s].model = m
    BY DEF CheckProv
  <1>2. \A n \in Models : n # m => archive'[s][i][n] =
            IF Mismatch(s, m) /\ n = prov[s].model /\ column[s][i] # NoVec THEN column[s][i]
            ELSE archive[s][i][n]
    BY DEF SwapArchive, TypeOK, Mismatch
  <1>3. archive'[s][i][m] = archive[s][i][m]
    BY DEF SwapArchive, TypeOK, Mismatch
  <1>4. ASSUME NEW n \in Models, n # m
        PROVE  Found(s, i, n)' = Found(s, i, n)
    BY <1>1, <1>2, <1>4 DEF Found, Mismatch, Unstranded
  <1>5. SwapColumn(s, m)[i] = Found(s, i, m)
    BY AbsentRows DEF SwapColumn, Found, Mismatch
  <1>6. Found(s, i, m)' = IF i \in AutoFill(s, m) \ failed THEN [model |-> m, text |-> text[s][i]]
                         ELSE Found(s, i, m)
    BY <1>1, <1>5 DEF Found, CheckColumn
  <1>7. i \in AutoFill(s, m) => s = "episodes" /\ i \in Present(s)
    BY DEF AutoFill
  <1>8. column'[s][i] = NoVec => archive'[s][i][m] = NoVec
    <2>1. CASE i \in AutoFill(s, m) \ failed
      BY <2>1, NullAssumption DEF CheckColumn, NoVec
    <2>2. CASE i \notin AutoFill(s, m) \ failed
      BY <1>3, <1>5, <2>2 DEF CheckColumn, Found, Mismatch, Unstranded
    <2> QED BY <2>1, <2>2
  <1>9. CASE i \in AutoFill(s, m) \ failed
    BY <1>1, <1>4, <1>6, <1>7, <1>8, <1>9, KeptIsFound DEF Kept, Found
  <1>10. CASE i \notin AutoFill(s, m) \ failed
    BY <1>1, <1>4, <1>6, <1>8, <1>10, KeptIsFound DEF Kept, Found
  <1> QED BY <1>9, <1>10

\* A table without one is taken to be the active model's if it has vectors.
LEMMA CheckNames ==
  ASSUME TypeOK, VectorsCurrent, Unstranded, ProvenanceHonest, NEW m \in Models,
         NEW failed \in SUBSET Ids, NEW s \in Stores, ~HasProv(s), NEW i \in Ids,
         column'[s] = CheckColumn(s, m, failed), archive'[s] = SwapArchive(s, m),
         prov'[s] = CheckProv(s, m, failed), text' = text
  PROVE  /\ Kept(s, i)' \in {Kept(s, i), Kept(s, i) \cup {m}}
         /\ s # "episodes" \/ i \notin Present(s) => Kept(s, i)' = Kept(s, i)
         /\ \A n \in Models : archive'[s][i][n] = NoVec
         /\ HasProv(s)' => prov'[s].model = m
  <1>1. /\ column'[s][i] = column[s][i] /\ archive'[s] = archive[s]
        /\ \A n \in Models : archive'[s][i][n] = NoVec
    BY DEF CheckColumn, AutoFill, SwapColumn, SwapArchive, Mismatch, Unstranded
  <1>2. CASE \A k \in Ids : column[s][k] = NoVec
    BY <1>1, <1>2 DEF CheckProv, Kept, HasProv
  <1>3. CASE ~ \A k \in Ids : column[s][k] = NoVec
    <2>1. prov'[s].model = m /\ Kept(s, i) = {}
      BY <1>3, UnnamedKeepsNone DEF CheckProv
    <2>2. s = "episodes"
      BY <1>3 DEF ProvenanceHonest, Seeded
    <2>3. Kept(s, i)' \subseteq {m}
      BY <1>1, <2>1, NullAssumption DEF Kept, NoVec
    <2>4. i \notin Present(s) => Kept(s, i)' = {}
      BY <1>1, <2>1, AbsentRows, NullAssumption DEF Kept, NoVec
    <2> QED BY <1>1, <2>1, <2>2, <2>3, <2>4
  <1> QED BY <1>2, <1>3

LEMMA CheckRefines ==
  ASSUME QInv, Unstranded, NEW m \in Models, NEW old \in [Stores -> BOOLEAN],
         CheckProvenance(m, old)
  PROVE  /\ [Promise!Next]_(Promise!vars)
         /\ Unstranded'
         /\ \A s \in Stores : HasProv(s)' => prov'[s].model = m
  <1>0. TypeOK /\ VectorsCurrent /\ ProvenanceHonest
    BY DEF QInv, IInv
  <1>1. PICK failed \in SUBSET Ids :
            /\ column'  = [s \in Stores |-> CheckColumn(s, m, failed)]
            /\ archive' = [s \in Stores |-> SwapArchive(s, m)]
            /\ prov'    = [s \in Stores |-> CheckProv(s, m, failed)]
            /\ text' = text
    BY AutoFillIds DEF CheckProvenance, PassFailures
  <1>2. ASSUME NEW s \in Stores
        PROVE  /\ column'[s] = CheckColumn(s, m, failed)
               /\ archive'[s] = SwapArchive(s, m)
               /\ prov'[s] = CheckProv(s, m, failed)
    BY <1>1
  <1>3. ASSUME NEW s \in Stores, NEW i \in Ids
        PROVE  /\ Kept(s, i)' \in {Kept(s, i), Kept(s, i) \cup {m}}
               /\ s # "episodes" \/ i \notin Present(s) => Kept(s, i)' = Kept(s, i)
    <2>1. CASE HasProv(s)
      BY <1>0, <1>1, <1>2, <2>1, CheckKeeps
    <2>2. CASE ~HasProv(s)
      <3>1. /\ column'[s] = CheckColumn(s, m, failed)
            /\ archive'[s] = SwapArchive(s, m)
            /\ prov'[s] = CheckProv(s, m, failed)
            /\ text' = text
        BY <1>1, <1>2
      <3>2. Kept(s, i)' \in {Kept(s, i), Kept(s, i) \cup {m}}
        BY <1>0, <2>2, <3>1, CheckNames
      <3>3. s # "episodes" \/ i \notin Present(s) => Kept(s, i)' = Kept(s, i)
        BY <1>0, <2>2, <3>1, CheckNames
      <3> QED BY <3>2, <3>3
    <2> QED BY <2>1, <2>2
  <1>4. [Promise!Next]_(Promise!vars)
    <2>1. CASE "episodes" \in Stores
      BY <1>1, <1>3, <2>1, GainIsFill
    <2>2. CASE "episodes" \notin Stores
      BY <1>1, <1>3, <2>2, SameIsStutter
    <2> QED BY <2>1, <2>2
  <1>5. ASSUME NEW s \in Stores
        PROVE  /\ HasProv(s)' => prov'[s].model = m
               /\ \A i \in Ids :
                     /\ ~HasProv(s)' => \A n \in Models : archive'[s][i][n] = NoVec
                     /\ HasProv(s)' /\ column'[s][i] = NoVec =>
                           archive'[s][i][prov'[s].model] = NoVec
    <2>1. CASE HasProv(s)
      <3>1. ASSUME NEW i \in Ids
            PROVE  prov'[s].model = m /\ (column'[s][i] = NoVec => archive'[s][i][m] = NoVec)
        BY <1>0, <1>1, <1>2, <2>1, CheckKeeps
      <3>2. prov'[s].model = m
        <4>1. prov'[s] = CheckProv(s, m, failed)
          BY <1>2
        <4> QED BY <2>1, <4>1 DEF CheckProv
      <3>3. HasProv(s)'
        BY <3>2, NullAssumption DEF HasProv
      <3> QED BY <3>1, <3>2, <3>3
    <2>2. CASE ~HasProv(s)
      <3>1. ASSUME NEW i \in Ids
            PROVE  /\ \A n \in Models : archive'[s][i][n] = NoVec
                   /\ HasProv(s)' => prov'[s].model = m
        BY <1>0, <1>1, <1>2, <2>2, CheckNames
      <3>2. HasProv(s)' => prov'[s].model = m
        <4>1. prov'[s] = CheckProv(s, m, failed)
          BY <1>2
        <4> QED BY <2>2, <4>1 DEF CheckProv, HasProv
      <3> QED BY <3>1, <3>2
    <2> QED BY <2>1, <2>2
  <1> QED BY <1>4, <1>5 DEF Unstranded

-----------------------------------------------------------------------------
(* Steps that leave the tables alone, and the steps of a switch            *)

\* Without a change to the tables nothing is lost or found.
LEMMA TablesFrame ==
  ASSUME UNCHANGED db
  PROVE  UNCHANGED Promise!vars /\ (Unstranded => Unstranded')
  <1>1. \A r \in Stores, k \in Ids : Kept(r, k)' = Kept(r, k)
    BY DEF Kept, db
  <1>2. UNCHANGED Promise!vars
    BY <1>1, SameIsStutter DEF db
  <1>3. Unstranded => Unstranded'
    BY DEF Unstranded, HasProv, db
  <1> QED BY <1>2, <1>3

LEMMA InitRefines == Init => Named /\ Unstranded /\ Promise!Init
  <1> SUFFICES ASSUME Init PROVE Named /\ Unstranded /\ Promise!Init
    OBVIOUS
  <1>1. Named /\ Unstranded
    BY DEF Init, Named, Unstranded, HasProv
  <1>2. \A s \in Stores, i \in Ids : Kept(s, i) = {}
    BY <1>1, InitIInv, UnnamedKeepsNone DEF IInv, Init, HasProv
  <1>3. Promise!Init
    BY <1>2 DEF Promise!Init, Init
  <1> QED BY <1>1, <1>3

LEMMA SwitchRefines ==
  ASSUME RInv,
         \/ \E m \in Models \cup {NoModel} : SetEmbedFn(m) \/ Restart(m)
         \/ SetModelName \/ SwitchCheck \/ BuildController
  PROVE  [Promise!Next]_(Promise!vars) /\ Named' /\ Unstranded'
  <1>0. TypeOK /\ SwitchInv /\ SwitchAlone /\ QInv /\ Named /\ Unstranded
    BY DEF RInv, QInv, IInv
  <1>1. ASSUME NEW m \in Models \cup {NoModel}, SetEmbedFn(m)
        PROVE  [Promise!Next]_(Promise!vars) /\ Named' /\ Unstranded'
    <2>1. UNCHANGED db /\ switch'.phase = "name"
      BY <1>1 DEF SetEmbedFn
    <2> QED BY <1>0, <2>1, TablesFrame DEF Named
  <1>2. CASE SetModelName
    <2>1. UNCHANGED db /\ fn' = fn
      BY <1>2 DEF SetModelName
    <2>2. switch'.phase = "check" \/ fn' = NoModel
      BY <1>0, <1>2 DEF SetModelName, SwitchAlone, TypeOK
    <2> QED BY <1>0, <2>1, <2>2, TablesFrame DEF Named
  <1>3. CASE BuildController
    <2>1. UNCHANGED <<db, fn>> /\ switch.phase = "build"
      BY <1>3 DEF BuildController
    <2>2. Named'
      BY <1>0, <2>1 DEF Named, HasProv, db
    <2> QED BY <1>0, <2>1, <2>2, TablesFrame
  <1>4. CASE SwitchCheck
    <2>1. /\ switch.model \in Models /\ fn' = switch.model
          /\ CheckProvenance(switch.model, stale)
          /\ stale \in [Stores -> BOOLEAN]
      BY <1>0, <1>4 DEF SwitchCheck, SwitchInv, SwitchAlone, TypeOK
    <2>2. /\ [Promise!Next]_(Promise!vars) /\ Unstranded'
          /\ \A s \in Stores : HasProv(s)' => prov'[s].model = switch.model
      BY <1>0, <2>1, CheckRefines
    <2> QED BY <2>1, <2>2 DEF Named
  <1>5. ASSUME NEW m \in Models \cup {NoModel}, Restart(m)
        PROVE  [Promise!Next]_(Promise!vars) /\ Named' /\ Unstranded'
    <2> DEFINE clear == [s \in Stores |-> FALSE]
    <2>1. fn' = m
      BY <1>5 DEF Restart
    <2>2. CASE m = NoModel
      <3>1. UNCHANGED db
        BY <1>5, <2>2 DEF Restart
      <3> QED BY <1>0, <2>1, <2>2, <3>1, TablesFrame DEF Named
    <2>3. CASE m # NoModel
      <3>1. m \in Models /\ CheckProvenance(m, clear) /\ clear \in [Stores -> BOOLEAN]
        BY <1>5, <2>3 DEF Restart
      <3> HIDE DEF clear
      <3>2. /\ [Promise!Next]_(Promise!vars) /\ Unstranded'
            /\ \A s \in Stores : HasProv(s)' => prov'[s].model = m
        BY <1>0, <3>1, CheckRefines
      <3> QED BY <2>1, <3>2 DEF Named
    <2> QED BY <2>2, <2>3
  <1> QED BY <1>1, <1>2, <1>3, <1>4, <1>5

\* An embed call, a row of a re-embed and its abandonment touch no table.
LEMMA UntouchedRefines ==
  ASSUME RInv, UNCHANGED <<db, source>>
  PROVE  [Promise!Next]_(Promise!vars) /\ Named' /\ Unstranded'
  <1>1. Named'
    BY DEF RInv, Named, HasProv, db, source
  <1> QED BY <1>1, TablesFrame DEF RInv

-----------------------------------------------------------------------------
(* Writes                                                                  *)

\* Storing a text and its vector in one row is Write.
LEMMA StoreRefines ==
  ASSUME RInv, switch.phase = "idle", UNCHANGED source,
         NEW s \in Stores, NEW i \in Ids, NEW t \in Texts, t # text[s][i],
         NEW v \in Vector \cup {NoVec}, v # NoVec => v.model = fn,
         text' = [text EXCEPT ![s][i] = t], column' = [column EXCEPT ![s][i] = v],
         \A m \in Models : archive'[s][i][m] = NoVec,
         \A r \in Stores, k \in Ids : r # s \/ k # i => archive'[r][k] = archive[r][k],
         SeedProv(s, v)
  PROVE  Promise!Next /\ Named' /\ Unstranded'
  <1>0. /\ TypeOK /\ SwitchAlone /\ Active /\ ProvenanceHonest /\ VectorsCurrent
        /\ Named /\ Unstranded
    BY DEF RInv, QInv, IInv
  <1>1. /\ \A r \in Stores : prov'[r] = prov[r] \/ (r = s /\ ~HasProv(r) /\ r \in Seeded)
        /\ \A r \in Stores : prov'[r] # prov[r] => prov'[r].model = fn
    BY <1>0, SeedHonest
  <1>2. \A r \in Stores, k \in Ids :
            /\ text'[r][k] = IF r = s /\ k = i THEN t ELSE text[r][k]
            /\ column'[r][k] = IF r = s /\ k = i THEN v ELSE column[r][k]
    BY <1>0 DEF TypeOK
  <1>3. ASSUME NEW r \in Stores, NEW k \in Ids, r # s \/ k # i
        PROVE  Kept(r, k)' = Kept(r, k)
    <2>1. CASE prov'[r] = prov[r]
      BY <1>2, <1>3, <2>1 DEF Kept
    <2>2. CASE prov'[r] # prov[r]
      <3>1. r = s /\ ~HasProv(r) /\ r \in Seeded
        BY <1>1, <2>2
      <3>2. column[r][k] = NoVec /\ \A m \in Models : archive[r][k][m] = NoVec
        BY <1>0, <3>1 DEF ProvenanceHonest, Unstranded
      <3>3. column'[r][k] = NoVec /\ \A m \in Models : archive'[r][k][m] = NoVec
        BY <1>2, <1>3, <3>2
      <3> QED BY <3>2, <3>3, NullAssumption DEF Kept, NoVec
    <2> QED BY <2>1, <2>2
  <1>4. Kept(s, i)' \in {{}} \cup {{m} : m \in Models}
    <2>1. Kept(s, i)' \subseteq Models \cap {prov'[s].model}
      BY NullAssumption DEF Kept, NoVec
    <2> QED BY <2>1
  <1>5. Promise!Write(s, i)
    <2> DEFINE kept == [r \in Stores |-> [k \in Ids |-> Kept(r, k)]]
    <2>1. kept' = [kept EXCEPT ![s][i] = Kept(s, i)']
      <3> DEFINE new == [kept EXCEPT ![s][i] = Kept(s, i)']
      <3>1. \A r \in Stores : kept'[r] = new[r]
        BY <1>3
      <3> QED BY <3>1
    <2> QED BY <1>4, <2>1 DEF Promise!Write
  <1>6. Named'
    BY <1>0, <1>1 DEF Named, HasProv, source
  <1>7. Unstranded'
    <2> SUFFICES ASSUME NEW r \in Stores, NEW k \in Ids
                 PROVE  /\ ~HasProv(r)' => \A m \in Models : archive'[r][k][m] = NoVec
                        /\ HasProv(r)' /\ column'[r][k] = NoVec =>
                              archive'[r][k][prov'[r].model] = NoVec
      BY DEF Unstranded
    <2>1. prov'[r].model \in Models \/ ~HasProv(r)'
      <3>1. prov[r].model \in Models \cup {NoModel} /\ fn \in Models \cup {NoModel}
        BY <1>0 DEF TypeOK
      <3>2. prov'[r].model \in Models \cup {NoModel}
        BY <1>1, <3>1
      <3> QED BY <3>2 DEF HasProv
    <2>2. CASE r = s /\ k = i
      BY <2>1, <2>2
    <2>3. CASE (r # s \/ k # i) /\ prov'[r] = prov[r]
      BY <1>0, <1>2, <2>3 DEF Unstranded, HasProv
    <2>4. CASE (r # s \/ k # i) /\ prov'[r] # prov[r]
      BY <1>0, <1>1, <2>1, <2>4 DEF Unstranded
    <2> QED BY <2>2, <2>3, <2>4
  <1> QED BY <1>5, <1>6, <1>7 DEF Promise!Next

LEMMA WriteRefines ==
  ASSUME RInv, NEW w \in Writers,
         \/ \E s \in Stores, u \in Texts : Embed(w, s, u)
         \/ Insert(w)
         \/ \E i \in Ids : Reindex(w, i)
  PROVE  [Promise!Next]_(Promise!vars) /\ Named' /\ Unstranded'
  <1>0. /\ TypeOK /\ SwitchAlone /\ UnderWay /\ VectorsCurrent /\ FreshIds /\ WriteInv
    BY DEF RInv, QInv, IInv
  <1>1. ASSUME NEW s \in Stores, NEW u \in Texts, Embed(w, s, u)
        PROVE  UNCHANGED <<db, source>>
    BY <1>1 DEF Embed
  <1> DEFINE s == write[w].store
             t == write[w].text
             v == write[w].vec
  <1>2. ASSUME write[w].phase = "embedded"
        PROVE  /\ switch.phase = "idle" /\ s \in Stores /\ t \in Texts
               /\ v \in Vector \cup {NoVec} /\ (v # NoVec => v.model = fn)
    BY <1>0, <1>2 DEF TypeOK, SwitchAlone, Quiet, WriteInv, UnderWay
  <1>3. ASSUME Insert(w)
        PROVE  Promise!Next /\ Named' /\ Unstranded'
    <2> DEFINE i == nextId[s]
    <2>1. /\ write[w].phase = "embedded" /\ i \in Ids
          /\ text' = [text EXCEPT ![s][i] = t] /\ column' = [column EXCEPT ![s][i] = v]
          /\ SeedProv(s, v) /\ UNCHANGED <<archive, source>>
      BY <1>3 DEF Insert
    <2>2. i \notin Present(s) /\ text[s][i] = NoText
      BY <1>0, <1>2, <2>1, BoundsAssumption DEF FreshIds, Present, Ids
    <2>3. \A m \in Models : archive'[s][i][m] = NoVec
      BY <1>0, <1>2, <2>1, <2>2, AbsentRows
    <2> HIDE DEF s, t, v, i
    <2> QED BY <1>2, <2>1, <2>2, <2>3, StoreRefines, NullAssumption
  <1>4. ASSUME NEW i \in Ids, Reindex(w, i)
        PROVE  [Promise!Next]_(Promise!vars) /\ Named' /\ Unstranded'
    <2>1. write[w].phase = "embedded" /\ UNCHANGED source
      BY <1>4 DEF Reindex
    <2>2. CASE t = text[s][i]
      <3>1. UNCHANGED <<db, source>>
        BY <1>4, <2>1, <2>2 DEF Reindex, db
      <3> QED BY <3>1, UntouchedRefines
    <2>3. CASE t # text[s][i]
      <3>1. /\ text' = [text EXCEPT ![s][i] = t] /\ column' = [column EXCEPT ![s][i] = v]
            /\ archive' = [archive EXCEPT ![s] = ClearedArchive(s, {i})] /\ SeedProv(s, v)
        BY <1>4, <2>3 DEF Reindex
      <3>2. /\ \A m \in Models : archive'[s][i][m] = NoVec
            /\ \A r \in Stores, k \in Ids : r # s \/ k # i => archive'[r][k] = archive[r][k]
        BY <1>0, <1>2, <2>1, <3>1 DEF ClearedArchive, TypeOK
      <3> HIDE DEF s, t, v
      <3> QED BY <1>2, <2>1, <2>3, <3>1, <3>2, StoreRefines
    <2> QED BY <2>2, <2>3
  <1> QED BY <1>1, <1>3, <1>4, UntouchedRefines

-----------------------------------------------------------------------------
(* Deletes and re-embeds                                                   *)

LEMMA DeleteRefines ==
  ASSUME RInv, NEW s \in Stores, NEW rows \in SUBSET Ids, Delete(s, rows)
  PROVE  [Promise!Next]_(Promise!vars) /\ Named' /\ Unstranded'
  <1>0. TypeOK /\ Named /\ Unstranded
    BY DEF RInv, QInv, IInv
  <1>1. /\ rows # {} /\ UNCHANGED <<prov, source>>
        /\ text' = [text EXCEPT ![s] = [i \in Ids |-> IF i \in rows THEN NoText ELSE @[i]]]
        /\ column' = [column EXCEPT ![s] = [i \in Ids |-> IF i \in rows THEN NoVec ELSE @[i]]]
        /\ archive' = [archive EXCEPT ![s] = ClearedArchive(s, rows)]
    BY DEF Delete
  <1>2. \A r \in Stores, k \in Ids :
            IF r = s /\ k \in rows
            THEN column'[r][k] = NoVec /\ \A m \in Models : archive'[r][k][m] = NoVec
            ELSE /\ text'[r][k] = text[r][k] /\ column'[r][k] = column[r][k]
                 /\ archive'[r][k] = archive[r][k]
    BY <1>0, <1>1 DEF TypeOK, ClearedArchive
  <1>3. \A r \in Stores, k \in Ids :
            Kept(r, k)' = IF r = s /\ k \in rows THEN {} ELSE Kept(r, k)
    <2>1. ASSUME NEW r \in Stores, NEW k \in Ids, r = s /\ k \in rows
          PROVE  Kept(r, k)' = {}
      BY <1>2, <2>1, NullAssumption DEF Kept, NoVec
    <2>2. ASSUME NEW r \in Stores, NEW k \in Ids, ~(r = s /\ k \in rows)
          PROVE  Kept(r, k)' = Kept(r, k)
      BY <1>1, <1>2, <2>2 DEF Kept
    <2> QED BY <2>1, <2>2
  <1>4. Promise!Remove(s, rows)
    BY <1>1, <1>3 DEF Promise!Remove
  <1>5. Named'
    BY <1>0, <1>1 DEF Named, HasProv, source
  <1>6. Unstranded'
    BY <1>0, <1>1, <1>2 DEF Unstranded, HasProv, TypeOK
  <1> QED BY <1>1, <1>4, <1>5, <1>6 DEF Promise!Next

LEMMA FinishRefines ==
  ASSUME RInv, NEW q \in Requests, FinishReembed(q)
  PROVE  Promise!Next /\ Named' /\ Unstranded'
  <1>0. /\ TypeOK /\ SwitchAlone /\ UnderWay /\ LockInv /\ VectorsCurrent /\ ProvenanceHonest
        /\ Named /\ Unstranded
    BY DEF RInv, QInv, IInv
  <1>b. PICK s \in Stores, done \in [Ids -> Models \cup {NoModel}] :
            s = reembed[q].store /\ done = reembed[q].done
    BY <1>0 DEF FinishReembed, TypeOK, LockInv
  <1>1. /\ reembed[q].phase = "rows" /\ UNCHANGED <<text, archive, source>>
        /\ column' = [column EXCEPT ![s] =
                        [i \in Ids |-> IF done[i] = NoModel THEN @[i]
                                       ELSE [model |-> done[i], text |-> text[s][i]]]]
        /\ prov' = IF reembed[q].failed = {}
                   THEN [prov EXCEPT ![s] = [model |-> name, complete |-> TRUE]] ELSE prov
    BY <1>b DEF FinishReembed
  <1>2. /\ s \in Stores /\ switch.phase = "idle" /\ name = fn /\ fn \in Models
        /\ \A i \in Ids : done[i] \in {NoModel, fn} /\ (done[i] # NoModel => i \in Present(s))
        /\ HasProv(s) => prov[s].model = fn
    BY <1>0, <1>1, <1>b DEF TypeOK, SwitchAlone, Quiet, UnderWay, LockInv, Named
  <1>3. /\ \A r \in Stores : prov'[r] = IF r = s /\ reembed[q].failed = {}
                                        THEN [model |-> fn, complete |-> TRUE] ELSE prov[r]
        /\ \A r \in Stores : r # s => column'[r] = column[r]
        /\ \A i \in Ids : column'[s][i] = IF done[i] = NoModel THEN column[s][i]
                                          ELSE [model |-> fn, text |-> text[s][i]]
    BY <1>0, <1>1, <1>2 DEF TypeOK
  <1>a. \A r \in Stores : prov'[r].model = IF r = s /\ reembed[q].failed = {} THEN fn
                                            ELSE prov[r].model
    BY <1>3
  <1>4. \A r \in Stores, k \in Ids : r # s => Kept(r, k)' = Kept(r, k)
    BY <1>1, <1>3 DEF Kept
  <1>5. ASSUME NEW k \in Ids
        PROVE  /\ Kept(s, k)' \in {Kept(s, k), Kept(s, k) \cup {fn}}
               /\ k \notin Present(s) => Kept(s, k)' = Kept(s, k)
    <2>1. CASE HasProv(s)
      <3>1. prov[s].model = fn /\ prov'[s].model = fn
        BY <1>2, <1>3, <2>1
      <3>2. CASE done[k] = NoModel
        BY <1>1, <1>2, <1>3, <3>1, <3>2 DEF Kept
      <3>3. CASE done[k] # NoModel
        <4>1. \A m \in Models : m \in Kept(s, k)' <=> m \in Kept(s, k) \/ m = fn
          BY <1>1, <1>2, <1>3, <3>1, <3>3 DEF Kept
        <4>2. Kept(s, k)' = Kept(s, k) \cup {fn}
          BY <1>2, <4>1 DEF Kept
        <4> QED BY <1>2, <3>3, <4>2
      <3> QED BY <3>2, <3>3
    <2>2. CASE ~HasProv(s)
      <3>1. /\ Kept(s, k) = {} /\ \A m \in Models : archive'[s][k][m] = NoVec
            /\ k \notin Present(s) => column'[s][k] = NoVec
        BY <1>0, <1>1, <1>2, <1>3, <2>2, UnnamedKeepsNone, AbsentRows DEF Unstranded
      <3>2. prov'[s].model \in {fn, NoModel}
        BY <1>3, <2>2 DEF HasProv
      <3>3. Kept(s, k)' \subseteq {fn} /\ (k \notin Present(s) => Kept(s, k)' = {})
        BY <3>1, <3>2, NullAssumption DEF Kept, NoVec
      <3> QED BY <3>1, <3>3
    <2> QED BY <2>1, <2>2
  <1>6. Promise!Next
    BY <1>1, <1>2, <1>4, <1>5, GainIsFill
  <1>7. Named'
    BY <1>0, <1>1, <1>a DEF Named, HasProv, source
  <1>8. Unstranded'
    <2> SUFFICES ASSUME NEW r \in Stores, NEW k \in Ids
                 PROVE  /\ ~HasProv(r)' => \A m \in Models : archive[r][k][m] = NoVec
                        /\ HasProv(r)' /\ column'[r][k] = NoVec =>
                              archive[r][k][prov'[r].model] = NoVec
      BY <1>1 DEF Unstranded
    <2>1. CASE r # s
      BY <1>0, <1>3, <2>1 DEF Unstranded, HasProv
    <2>2. CASE r = s
      <3>1. HasProv(s) => HasProv(s)' /\ prov'[s].model = prov[s].model
        BY <1>2, <1>a, NullAssumption DEF HasProv
      <3>2. column'[s][k] = NoVec => column[s][k] = NoVec
        <4>1. [model |-> fn, text |-> text[s][k]] # NoVec
          BY <1>2, NullAssumption DEF NoVec
        <4> QED BY <1>2, <1>3, <4>1
      <3>3. prov'[s].model \in {fn, prov[s].model}
        BY <1>2, <1>a
      <3> QED BY <1>0, <1>2, <2>2, <3>1, <3>2, <3>3 DEF Unstranded, HasProv
    <2> QED BY <2>1, <2>2
  <1> QED BY <1>6, <1>7, <1>8

LEMMA NextRefines ==
  ASSUME QuiescentSwitch, CleanReembed, RInv, [Next]_vars
  PROVE  [Promise!Next]_(Promise!vars) /\ RInv'
  <1>0. QInv'
    BY NextQInv DEF RInv
  <1> SUFFICES [Promise!Next]_(Promise!vars) /\ Named' /\ Unstranded'
    BY <1>0 DEF RInv
  <1>1. CASE UNCHANGED vars
    BY <1>1, UntouchedRefines DEF vars
  <1>2. CASE \/ \E m \in Models \cup {NoModel} : SetEmbedFn(m) \/ Restart(m)
             \/ SetModelName \/ SwitchCheck \/ BuildController
    BY <1>2, SwitchRefines
  <1>3. ASSUME NEW w \in Writers,
               \/ \E s \in Stores, t \in Texts : Embed(w, s, t)
               \/ Insert(w)
               \/ \E i \in Ids : Reindex(w, i)
        PROVE  [Promise!Next]_(Promise!vars) /\ Named' /\ Unstranded'
    BY <1>3, WriteRefines
  <1>4. ASSUME NEW s \in Stores, NEW rows \in SUBSET Ids, Delete(s, rows)
        PROVE  [Promise!Next]_(Promise!vars) /\ Named' /\ Unstranded'
    BY <1>4, DeleteRefines
  <1>5. ASSUME NEW q \in Requests,
               \/ \E s \in Stores : StartReembed(q, s)
               \/ \E i \in Ids : EmbedRow(q, i) \/ FailRow(q, i)
               \/ ReembedRaises(q) \/ SetStaleFlag(q)
        PROVE  [Promise!Next]_(Promise!vars) /\ Named' /\ Unstranded'
    BY <1>5, UntouchedRefines DEF StartReembed, EmbedRow, FailRow, ReembedRaises, SetStaleFlag
  <1>6. ASSUME NEW q \in Requests, FinishReembed(q)
        PROVE  [Promise!Next]_(Promise!vars) /\ Named' /\ Unstranded'
    BY <1>6, FinishRefines
  <1> QED BY <1>1, <1>2, <1>3, <1>4, <1>5, <1>6 DEF Next

\* When nothing overlaps a switch, the columns, archives and provenance rows
\* together keep every vector of a row's text to be found under its model:
\* each step of the store is a step of ModelVectors or changes nothing there.
THEOREM VectorsAreKept ==
  ASSUME QuiescentSwitch, CleanReembed
  PROVE  Spec => NoVectorLost
  <1>1. Init => RInv /\ Promise!Init
    BY InitQInv, InitRefines DEF RInv
  <1>2. RInv /\ [Next]_vars => RInv' /\ [Promise!Next]_(Promise!vars)
    BY NextRefines
  <1> QED BY <1>1, <1>2, PTL DEF Spec, NoVectorLost, Promise!Spec

\* A row is never left empty while the archive holds its vector of the model
\* in the provenance row, and the provenance row names the active source.
THEOREM RowsStayNamed ==
  ASSUME QuiescentSwitch, CleanReembed
  PROVE  Spec => [](Named /\ Unstranded)
  <1>1. Init => RInv
    BY InitQInv, InitRefines DEF RInv
  <1>2. RInv /\ [Next]_vars => RInv'
    BY NextRefines
  <1>3. RInv => Named /\ Unstranded
    BY DEF RInv
  <1> QED BY <1>1, <1>2, <1>3, PTL DEF Spec

-----------------------------------------------------------------------------
(* Gaps are recorded                                                       *)

\* What a pass has not embedded yet is to do, or has failed.
Covered ==
    \A q \in Requests :
        reembed[q].phase = "rows" =>
            \A i \in Unfilled(reembed[q].store) :
                \/ i \in reembed[q].todo \cup reembed[q].failed
                \/ reembed[q].done[i] # NoModel

\* A check that takes a row's vector has found none to put in its place, so it
\* is a gap; under the model it had, only the episodes fill completes a store.
LEMMA CheckRecordsGaps ==
  ASSUME TypeOK, NEW m \in Models, NEW old \in [Stores -> BOOLEAN],
         CheckProvenance(m, old)
  PROVE  GapStep
  <1>1. PICK failed \in SUBSET Ids :
            /\ column'  = [s \in Stores |-> CheckColumn(s, m, failed)]
            /\ prov'    = [s \in Stores |-> CheckProv(s, m, failed)]
            /\ text' = text
    BY AutoFillIds DEF CheckProvenance, PassFailures
  <1> SUFFICES ASSUME NEW s \in Stores
               PROVE  /\ (\E i \in Ids : Loses(s, i)) => ~prov'[s].complete
                      /\ Completed(s) => Unfilled(s)' = {}
    BY DEF GapStep
  <1>2. column'[s] = CheckColumn(s, m, failed) /\ prov'[s] = CheckProv(s, m, failed)
    BY <1>1
  <1>3. \A i \in Ids : column'[s][i] = NoVec =>
            i \notin AutoFill(s, m) \ failed /\ SwapColumn(s, m)[i] = NoVec
    BY <1>2, NoVecNotVector, NullAssumption DEF CheckColumn, NoVec
  <1>4. HasProv(s) => /\ prov'[s].model = m
                      /\ prov'[s].complete = (SwapComplete(s, m) \/ (s = "episodes" /\ failed = {}))
    BY <1>2 DEF CheckProv
  <1>5. ASSUME NEW i \in Ids, Loses(s, i) PROVE ~prov'[s].complete
    <2>1. /\ i \in Present(s) /\ column[s][i] # NoVec
          /\ i \notin AutoFill(s, m) \ failed /\ SwapColumn(s, m)[i] = NoVec
      BY <1>3, <1>5 DEF Loses, Present
    <2>2. Mismatch(s, m) /\ archive[s][i][m] = NoVec
      BY <2>1 DEF SwapColumn
    <2>3. ~SwapComplete(s, m)
      BY <2>1, <2>2 DEF SwapComplete, Gaps
    <2>4. s = "episodes" => failed # {}
      BY <2>1, <2>2, <2>3 DEF AutoFill, Mismatch
    <2> QED BY <1>4, <2>2, <2>3, <2>4 DEF Mismatch
  <1>6. ASSUME Completed(s), NEW i \in Ids, text'[s][i] # NoText, column'[s][i] = NoVec
        PROVE  FALSE
    <2>1. HasProv(s) /\ ~Mismatch(s, m) /\ ~SwapComplete(s, m)
      BY <1>4, <1>6 DEF Completed, Mismatch, SwapComplete
    <2>2. s = "episodes" /\ failed = {}
      BY <1>4, <1>6, <2>1 DEF Completed
    <2>3. i \in Present(s) /\ SwapColumn(s, m)[i] = NoVec
      BY <1>1, <1>3, <1>6 DEF Present
    <2> QED BY <1>3, <1>6, <2>1, <2>2, <2>3 DEF AutoFill
  <1> QED BY <1>5, <1>6 DEF Unfilled, Present

\* A pass takes no vector, and one that failed nowhere leaves no row empty.
LEMMA FinishRecordsGaps ==
  ASSUME TypeOK, LockInv, Covered, NEW q \in Requests, FinishReembed(q)
  PROVE  GapStep
  <1> DEFINE s    == reembed[q].store
             done == reembed[q].done
  <1>1. /\ reembed[q].phase = "rows" /\ reembed[q].todo = {} /\ s \in Stores
        /\ UNCHANGED <<text, archive>>
        /\ prov' = IF reembed[q].failed = {}
                   THEN [prov EXCEPT ![s] = [model |-> name, complete |-> TRUE]] ELSE prov
    BY DEF FinishReembed, LockInv
  <1>2. /\ \A r \in Stores : r # s => column'[r] = column[r]
        /\ \A i \in Ids : column'[s][i] = IF done[i] = NoModel THEN column[s][i]
                                          ELSE [model |-> done[i], text |-> text[s][i]]
    BY <1>1 DEF FinishReembed, TypeOK
  <1>3. \A r \in Stores, i \in Ids :
            column'[r][i] = NoVec => /\ column[r][i] = NoVec
                                     /\ r = s => done[i] = NoModel
    <2>1. \A i \in Ids : [model |-> done[i], text |-> text[s][i]] = NoVec => done[i] = NoModel
      BY DEF NoVec
    <2> QED BY <1>2, <2>1
  <1>4. ASSUME NEW r \in Stores, Completed(r), NEW i \in Ids,
               text'[r][i] # NoText, column'[r][i] = NoVec
        PROVE  FALSE
    <2>1. r = s /\ reembed[q].failed = {}
      BY <1>1, <1>4 DEF Completed, TypeOK
    <2>2. i \in Unfilled(s) /\ done[i] = NoModel
      BY <1>1, <1>3, <1>4, <2>1 DEF Unfilled, Present
    <2> QED BY <1>1, <2>1, <2>2 DEF Covered
  <1> QED BY <1>3, <1>4 DEF GapStep, Loses, Unfilled, Present

\* No other step takes a vector of a row whose text stays, or completes a store
\* that has a provenance row.
LEMMA NextRecordsGaps ==
  ASSUME IInv, Covered, [Next]_vars
  PROVE  GapStep
  <1>0. TypeOK /\ FreshIds /\ SwitchInv /\ WriteInv /\ LockInv
    BY DEF IInv
  <1>1. ASSUME UNCHANGED db PROVE GapStep
    BY <1>1 DEF GapStep, Loses, Completed, db
  <1>2. ASSUME NEW m \in Models \cup {NoModel}, Restart(m) PROVE GapStep
    <2> DEFINE clear == [s \in Stores |-> FALSE]
    <2>1. CASE m = NoModel
      BY <1>1, <1>2, <2>1 DEF Restart
    <2>2. CASE m # NoModel
      <3>1. m \in Models /\ CheckProvenance(m, clear) /\ clear \in [Stores -> BOOLEAN]
        BY <1>2, <2>2 DEF Restart
      <3> HIDE DEF clear
      <3> QED BY <1>0, <3>1, CheckRecordsGaps
    <2> QED BY <2>1, <2>2
  <1>3. CASE SwitchCheck
    <2>1. /\ switch.model \in Models /\ stale \in [Stores -> BOOLEAN]
          /\ CheckProvenance(switch.model, stale)
      BY <1>0, <1>3 DEF SwitchCheck, SwitchInv, TypeOK
    <2> QED BY <1>0, <2>1, CheckRecordsGaps
  <1>4. ASSUME NEW s \in Stores, NEW i \in Ids, NEW t, NEW v, t # text[s][i] \/ text[s][i] = NoText,
               text' = [text EXCEPT ![s][i] = t], column' = [column EXCEPT ![s][i] = v],
               SeedProv(s, v)
        PROVE  GapStep
    <2>1. \A r \in Stores, k \in Ids :
              r # s \/ k # i => text'[r][k] = text[r][k] /\ column'[r][k] = column[r][k]
      BY <1>0, <1>4 DEF TypeOK
    <2>2. text'[s][i] = t
      BY <1>0, <1>4 DEF TypeOK
    <2>3. \A r \in Stores, k \in Ids : ~Loses(r, k)
      BY <1>4, <2>1, <2>2 DEF Loses
    <2>4. \A r \in Stores : ~Completed(r)
      BY <1>0, <1>4 DEF SeedProv, Completed, HasProv, TypeOK
    <2> QED BY <2>3, <2>4 DEF GapStep
  <1>5. ASSUME NEW w \in Writers, Insert(w) PROVE GapStep
    <2> DEFINE s == write[w].store
               i == nextId[s]
    <2>1. /\ s \in Stores /\ i \in Ids
          /\ text' = [text EXCEPT ![s][i] = write[w].text]
          /\ column' = [column EXCEPT ![s][i] = write[w].vec]
          /\ SeedProv(s, write[w].vec)
      BY <1>0, <1>5 DEF Insert, WriteInv
    <2>2. text[s][i] = NoText
      BY <1>0, <2>1, BoundsAssumption DEF FreshIds, Ids
    <2> HIDE DEF s, i
    <2> QED BY <1>4, <2>1, <2>2
  <1>6. ASSUME NEW w \in Writers, NEW i \in Ids, Reindex(w, i) PROVE GapStep
    <2> DEFINE s == write[w].store
    <2>1. CASE write[w].text = text[s][i]
      BY <1>1, <1>6, <2>1 DEF Reindex, db
    <2>2. CASE write[w].text # text[s][i]
      <3>1. /\ s \in Stores
            /\ text' = [text EXCEPT ![s][i] = write[w].text]
            /\ column' = [column EXCEPT ![s][i] = write[w].vec]
            /\ SeedProv(s, write[w].vec)
        BY <1>0, <1>6, <2>2 DEF Reindex, WriteInv
      <3> HIDE DEF s
      <3> QED BY <1>4, <2>2, <3>1
    <2> QED BY <2>1, <2>2
  <1>7. ASSUME NEW s \in Stores, NEW rows \in SUBSET Ids, Delete(s, rows) PROVE GapStep
    <2>1. /\ UNCHANGED prov
          /\ \A r \in Stores, k \in Ids :
                \/ text'[r][k] = NoText
                \/ column'[r][k] = column[r][k]
      BY <1>0, <1>7 DEF Delete, TypeOK
    <2>2. \A r \in Stores, k \in Ids : ~Loses(r, k)
      BY <2>1 DEF Loses
    <2> QED BY <2>1, <2>2 DEF GapStep, Completed
  <1>8. CASE \E q \in Requests : FinishReembed(q)
    BY <1>0, <1>8, FinishRecordsGaps
  <1>9. CASE \/ UNCHANGED vars
             \/ \E m \in Models \cup {NoModel} : SetEmbedFn(m)
             \/ SetModelName \/ BuildController
             \/ \E w \in Writers, s \in Stores, t \in Texts : Embed(w, s, t)
             \/ \E q \in Requests :
                   \/ \E s \in Stores : StartReembed(q, s)
                   \/ \E i \in Ids : EmbedRow(q, i) \/ FailRow(q, i)
                   \/ ReembedRaises(q) \/ SetStaleFlag(q)
    BY <1>1, <1>9 DEF SetEmbedFn, SetModelName, BuildController, Embed, StartReembed,
                      EmbedRow, FailRow, ReembedRaises, SetStaleFlag, vars
  <1> QED BY <1>2, <1>3, <1>5, <1>6, <1>7, <1>8, <1>9 DEF Next

-----------------------------------------------------------------------------
(* The lock keeps the pass covered                                         *)

\* While a pass runs, the lock keeps its rows; it is the pass that moves them
\* from what is to do to what is done or failed.
LEMMA NextCovers ==
  ASSUME IInv, Covered, [Next]_vars
  PROVE  Covered'
  <1>0. TypeOK /\ LockInv
    BY DEF IInv
  <1>1. ASSUME UNCHANGED <<db, reembed>> PROVE Covered'
    BY <1>1 DEF Covered, Unfilled, Present, db
  <1>2. ASSUME LockFree, UNCHANGED reembed PROVE Covered'
    BY <1>2 DEF Covered, LockFree
  <1>3. CASE UNCHANGED vars
    BY <1>1, <1>3 DEF vars
  <1>4. ASSUME NEW m \in Models \cup {NoModel}, Restart(m) PROVE Covered'
    BY <1>4 DEF Restart, Covered, IdleReembed
  <1>5. CASE \/ \E m \in Models \cup {NoModel} : SetEmbedFn(m)
             \/ SetModelName \/ BuildController
             \/ \E w \in Writers, s \in Stores, t \in Texts : Embed(w, s, t)
    BY <1>1, <1>5 DEF SetEmbedFn, SetModelName, BuildController, Embed
  <1>6. CASE \/ SwitchCheck
             \/ \E w \in Writers : Insert(w) \/ \E i \in Ids : Reindex(w, i)
             \/ \E s \in Stores, rows \in SUBSET Ids : Delete(s, rows)
    BY <1>2, <1>6 DEF SwitchCheck, Insert, Reindex, Delete
  <1>7. ASSUME NEW q \in Requests, NEW r, UNCHANGED db,
               reembed' = [reembed EXCEPT ![q] = r],
               r.phase = "rows" => \A i \in Unfilled(r.store) :
                                      i \in r.todo \cup r.failed \/ r.done[i] # NoModel
        PROVE  Covered'
    <2>1. \A p \in Requests : reembed'[p] = IF p = q THEN r ELSE reembed[p]
      BY <1>0, <1>7 DEF TypeOK
    <2>2. \A s : Unfilled(s)' = Unfilled(s)
      BY <1>7 DEF Unfilled, Present, db
    <2> QED BY <1>7, <2>1, <2>2 DEF Covered
  <1>8. ASSUME NEW q \in Requests, NEW s \in Stores, StartReembed(q, s) PROVE Covered'
    <2> DEFINE r == [IdleReembed EXCEPT !.phase = "rows", !.store = s, !.todo = Unfilled(s)]
    <2>1. UNCHANGED db /\ reembed' = [reembed EXCEPT ![q] = r]
      BY <1>8 DEF StartReembed
    <2>2. r.store = s /\ r.todo = Unfilled(s)
      BY DEF IdleReembed
    <2> HIDE DEF r
    <2> QED BY <1>7, <2>1, <2>2
  <1>9. ASSUME NEW q \in Requests, NEW i \in Ids, EmbedRow(q, i) PROVE Covered'
    <2> DEFINE r == [reembed[q] EXCEPT !.todo = @ \ {i}, !.streak = 0, !.done[i] = fn]
    <2>1. /\ UNCHANGED db /\ reembed' = [reembed EXCEPT ![q] = r] /\ fn # NoModel
          /\ reembed[q].phase = "rows"
      BY <1>9 DEF EmbedRow, NextRow
    <2>2. /\ r.store = reembed[q].store /\ r.todo = reembed[q].todo \ {i}
          /\ r.failed = reembed[q].failed /\ r.done = [reembed[q].done EXCEPT ![i] = fn]
      BY <1>0 DEF TypeOK
    <2>3. \A k \in Ids : r.done[k] = IF k = i THEN fn ELSE reembed[q].done[k]
      BY <1>0, <2>2 DEF TypeOK
    <2> HIDE DEF r
    <2>4. \A k \in Unfilled(r.store) : k \in r.todo \cup r.failed \/ r.done[k] # NoModel
      BY <2>1, <2>2, <2>3 DEF Covered, Unfilled, Present
    <2> QED BY <1>7, <2>1, <2>4
  <1>10. ASSUME NEW q \in Requests, NEW i \in Ids, FailRow(q, i) PROVE Covered'
    <2> DEFINE aborts == reembed[q].streak + 1 >= AbortAfter
               r == [reembed[q] EXCEPT !.todo   = IF aborts THEN {} ELSE @ \ {i},
                                       !.failed = @ \cup IF aborts THEN reembed[q].todo ELSE {i},
                                       !.streak = @ + 1]
    <2>1. UNCHANGED db /\ reembed' = [reembed EXCEPT ![q] = r] /\ reembed[q].phase = "rows"
      BY <1>10 DEF FailRow, NextRow
    <2>2. /\ r.store = reembed[q].store /\ r.done = reembed[q].done
          /\ reembed[q].todo \cup reembed[q].failed \subseteq r.todo \cup r.failed
      <3>1. CASE aborts
        BY <1>0, <3>1 DEF TypeOK
      <3>2. CASE ~aborts
        BY <1>0, <3>2 DEF TypeOK
      <3> QED BY <3>1, <3>2
    <2> HIDE DEF r
    <2>3. \A k \in Unfilled(r.store) : k \in r.todo \cup r.failed \/ r.done[k] # NoModel
      BY <2>1, <2>2 DEF Covered
    <2> QED BY <1>7, <2>1, <2>3
  <1>11. ASSUME NEW q \in Requests, FinishReembed(q) \/ ReembedRaises(q) \/ SetStaleFlag(q)
         PROVE  Covered'
    <2>1. CASE SetStaleFlag(q) \/ ReembedRaises(q)
      <3>1. UNCHANGED db /\ reembed' = [reembed EXCEPT ![q] = IdleReembed]
        BY <2>1 DEF SetStaleFlag, ReembedRaises
      <3>2. IdleReembed.phase # "rows"
        BY DEF IdleReembed
      <3> QED BY <1>7, <3>1, <3>2
    <2>2. CASE FinishReembed(q)
      <3>1. reembed[q].phase = "rows" /\ reembed'[q].phase # "rows"
        BY <1>0, <2>2 DEF FinishReembed, IdleReembed, TypeOK
      <3>2. \A p \in Requests : p # q => reembed'[p] = reembed[p]
        BY <1>0, <2>2 DEF FinishReembed, TypeOK
      <3>3. \A p \in Requests : p # q => reembed[p].phase # "rows"
        BY <1>0, <3>1 DEF LockInv
      <3> QED BY <3>1, <3>2, <3>3 DEF Covered
    <2> QED BY <1>11, <2>1, <2>2
  <1> QED BY <1>3, <1>4, <1>5, <1>6, <1>8, <1>9, <1>10, <1>11 DEF Next

\* Whatever overlaps whatever and for any number of models, a step that takes
\* the vector of a row leaves its store recorded incomplete, and a store is
\* recorded complete under the model it has only when no row is empty.
THEOREM GapsAreRecorded == Spec => GapsRecorded
  <1>1. Init => IInv /\ Covered
    <2>1. Init => Covered
      BY DEF Init, Covered, IdleReembed
    <2> QED BY <2>1, InitIInv
  <1>2. IInv /\ Covered /\ [Next]_vars => IInv' /\ Covered'
    BY NextIInv, NextCovers
  <1>3. IInv /\ Covered /\ [Next]_vars => [GapStep]_vars
    BY NextRecordsGaps
  <1> QED BY <1>1, <1>2, <1>3, PTL DEF Spec, GapsRecorded
=============================================================================
