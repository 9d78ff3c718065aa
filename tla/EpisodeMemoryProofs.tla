------------------------- MODULE EpisodeMemoryProofs -------------------------
(***************************************************************************)
(* Proofs about EpisodeMemory, for every value of its constants.           *)
(***************************************************************************)
EXTENDS EpisodeMemory, SequenceTheorems, FiniteSetTheorems, TLAPS

-----------------------------------------------------------------------------
(* The inductive invariants                                                *)

Row == [subject : Subjects, type : Types, status : Statuses]

\* A job on a table of n rows.
JobOf(n) == [todo : Seq(Steps), id : 0 .. n, subject : Subjects \cup {"none"},
             types : SUBSET Types, ids : SUBSET (1 .. n), raced : BOOLEAN]

In(p, step) == \E n \in 1 .. Len(p) : p[n] = step

\* The rewrite of MEMORY.md comes first and whole, a retraction clears the
\* cache, an extraction comes last, a reactivation is alone, and what
\* by_recency returned is stored at once.
Shape(p) ==
    /\ p \in Seq(Steps)
    /\ \A n \in 1 .. Len(p) :
          /\ p[n] = "select" => n = 1 /\ Len(p) >= 2 /\ p[2] = "file"
          /\ p[n] = "file" => n = 1 \/ (n = 2 /\ p[1] = "select")
          /\ p[n] = "retract" => \E k \in n + 1 .. Len(p) : p[k] = "clear"
          /\ p[n] = "extract" => n = Len(p)
          /\ p[n] = "reactivate" => Len(p) = 1
          /\ p[n] = "store" => n = 1

Shaped == \A t \in Threads : Shape(job[t].todo)

\* What by_recency returned is within the LIMIT, and is what it would return
\* now unless the active rows changed since.
StoreRead ==
    \A t \in Threads :
        At(t, "store") => /\ Cardinality(job[t].ids) <= RecencyLimit
                          /\ ~job[t].raced => job[t].ids \in ByRecency

\* A valid cache is what by_recency would return, or it is about to be cleared.
CacheRead ==
    cache.valid /\ ~late => (cache.ids \in ByRecency \/ \E t \in Threads : Has(t, "clear"))

\* A reactivation is about a row.
Found == \A t \in Threads : At(t, "reactivate") => job[t].id # 0

IInv == TypeOK /\ Shaped /\ Found /\ StoreRead /\ CacheRead

\* Unless torn, one rewrite of MEMORY.md at most is under way, on the rows as
\* they are, and without one the file lists the active rows.
OneRewrite ==
    ~torn =>
        /\ \A t, u \in Threads : RewritesMd(t) /\ RewritesMd(u) => t = u
        /\ \A t \in Threads : At(t, "file") => job[t].ids = Active
        /\ (\A t \in Threads : ~RewritesMd(t)) => memoryMd = Active

SInv == IInv /\ OneRewrite

-----------------------------------------------------------------------------
(* Sequences of steps                                                      *)

\* Shape survives dropping the head, and only the head is dropped.
LEMMA ShapeRest ==
  ASSUME NEW p, Shape(p), NEW q \in Seq(Steps), Len(p) = Len(q) + 1,
         \A n \in 1 .. Len(q) : q[n] = p[n + 1]
  PROVE  /\ Shape(q)
         /\ \A step : In(p, step) <=> p[1] = step \/ In(q, step)
         /\ p[1] = "select" => Len(q) # 0 /\ q[1] = "file"
         /\ p[1] # "select" => ~In(q, "file")
         /\ ~In(q, "select") /\ ~In(q, "store") /\ ~In(q, "reactivate")
         /\ p[1] = "retract" => In(q, "clear")
         /\ p[1] = "extract" \/ p[1] = "reactivate" => Len(q) = 0
  <1>1. p \in Seq(Steps) /\ Len(q) \in Nat /\ 1 \in 1 .. Len(p)
    BY DEF Shape
  <1>2. ASSUME NEW n \in 1 .. Len(q)
        PROVE  n + 1 \in 2 .. Len(p) /\ q[n] = p[n + 1]
    BY <1>1
  <1>3. ASSUME NEW k \in 2 .. Len(p)
        PROVE  \E n \in 1 .. Len(q) : n + 1 = k /\ q[n] = p[k]
    <2>1. k - 1 \in 1 .. Len(q)
      BY <1>1
    <2> QED BY <2>1
  <1>4. \A k \in 1 .. Len(p) : k = 1 \/ k \in 2 .. Len(p)
    BY <1>1
  <1>5. ASSUME NEW step
        PROVE  In(p, step) <=> p[1] = step \/ In(q, step)
    <2>1. ASSUME NEW k \in 2 .. Len(p), p[k] = step
          PROVE  In(q, step)
      BY <1>3, <2>1 DEF In
    <2>2. ASSUME NEW n \in 1 .. Len(q), q[n] = step
          PROVE  In(p, step)
      BY <1>1, <1>2, <2>2 DEF In
    <2> QED BY <1>1, <1>4, <2>1, <2>2 DEF In
  <1>6. ASSUME NEW n \in 1 .. Len(q), NEW o \in 2 .. Len(p), o = n + 1
        PROVE  /\ q[n] # "select" /\ q[n] # "store" /\ q[n] # "reactivate"
               /\ q[n] = "file" => n = 1 /\ p[1] = "select"
               /\ q[n] = "extract" => n = Len(q)
               /\ q[n] = "retract" => \E k \in n + 1 .. Len(q) : q[k] = "clear"
    <2>1. o \in 1 .. Len(p) /\ o # 1 /\ q[n] = p[o] /\ Len(p) # 1
      BY <1>1, <1>6
    <2>2. /\ q[n] # "select" /\ q[n] # "store" /\ q[n] # "reactivate"
          /\ q[n] = "file" => o = 2 /\ p[1] = "select"
          /\ q[n] = "extract" => o = Len(p)
          /\ q[n] = "retract" => \E k \in o + 1 .. Len(p) : p[k] = "clear"
      BY <2>1 DEF Shape
    <2>3. ASSUME NEW k \in o + 1 .. Len(p), p[k] = "clear"
          PROVE  \E j \in n + 1 .. Len(q) : q[j] = "clear"
      <3>1. k - 1 \in n + 1 .. Len(q) /\ k - 1 \in 1 .. Len(q) /\ k - 1 + 1 = k
        BY <1>1, <1>6
      <3> QED BY <2>3, <3>1
    <2> QED BY <1>1, <1>6, <2>2, <2>3
  <1>7. \A n \in 1 .. Len(q) :
            /\ q[n] # "select" /\ q[n] # "store" /\ q[n] # "reactivate"
            /\ q[n] = "file" => n = 1 /\ p[1] = "select"
            /\ q[n] = "extract" => n = Len(q)
            /\ q[n] = "retract" => \E k \in n + 1 .. Len(q) : q[k] = "clear"
    BY <1>2, <1>6
  <1>8. Shape(q)
    BY <1>7 DEF Shape
  <1>9. /\ ~In(q, "select") /\ ~In(q, "store") /\ ~In(q, "reactivate")
        /\ p[1] # "select" => ~In(q, "file")
    BY <1>7 DEF In
  <1>10. p[1] = "select" => Len(q) # 0 /\ q[1] = "file"
    BY <1>1 DEF Shape
  <1>11. p[1] = "extract" \/ p[1] = "reactivate" => Len(q) = 0
    BY <1>1 DEF Shape
  <1>12. p[1] = "retract" => In(q, "clear")
    <2>1. p[1] = "retract" => \E k \in 1 + 1 .. Len(p) : p[k] = "clear"
      BY <1>1 DEF Shape
    <2> QED BY <1>3, <2>1 DEF In
  <1> QED BY <1>5, <1>8, <1>9, <1>10, <1>11, <1>12

LEMMA ShapeTail ==
  ASSUME NEW p, Shape(p), p # <<>>
  PROVE  /\ Shape(Tail(p)) /\ Tail(p) \in Seq(Steps) /\ Head(p) \in Steps
         /\ \A step : In(p, step) <=> Head(p) = step \/ In(Tail(p), step)
         /\ Head(p) = "select" => Tail(p) # <<>> /\ Head(Tail(p)) = "file"
         /\ Head(p) # "select" => ~In(Tail(p), "file")
         /\ ~In(Tail(p), "select") /\ ~In(Tail(p), "store") /\ ~In(Tail(p), "reactivate")
         /\ Head(p) = "retract" => In(Tail(p), "clear")
         /\ Head(p) = "extract" \/ Head(p) = "reactivate" => Tail(p) = <<>>
  <1>1. p \in Seq(Steps)
    BY DEF Shape
  <1>2. PICK q \in Seq(Steps) : q = Tail(p) /\ Len(q) = Len(p) - 1
                                /\ \A n \in 1 .. Len(q) : q[n] = p[n + 1]
    BY <1>1, HeadTailProperties
  <1>3. Len(p) = Len(q) + 1 /\ Head(p) = p[1] /\ Head(p) \in Steps
    BY <1>1, <1>2, HeadTailProperties
  <1>4. (q = <<>> <=> Len(q) = 0) /\ (q # <<>> => Head(q) = q[1])
    <2>1. q = <<>> <=> Len(q) = 0
      BY <1>2, EmptySeq
    <2>2. q # <<>> => Head(q) = q[1]
      BY <1>2
    <2> QED BY <2>1, <2>2
  <1> QED BY <1>2, <1>3, <1>4, ShapeRest

\* Steps of a rewrite or of a recall put in front.
LEMMA ShapePrefix ==
  ASSUME NEW h, Shape(h), h # <<>>, \A n \in 1 .. Len(h) : h[n] \in {"select", "file", "store"},
         NEW r, Shape(r), ~In(r, "select"), ~In(r, "file"), ~In(r, "store"),
         ~In(r, "reactivate")
  PROVE  /\ Shape(h \o r) /\ Head(h \o r) = h[1] /\ h \o r # <<>> /\ h \o r \in Seq(Steps)
         /\ \A step : In(h \o r, step) <=> In(h, step) \/ In(r, step)
  <1>1. /\ r \in Seq(Steps) /\ h \in Seq(Steps) /\ Len(r) \in Nat /\ Len(h) \in Nat \ {0}
    BY EmptySeq DEF Shape
  <1> DEFINE p == h \o r
  <1>2. /\ p \in Seq(Steps) /\ Len(p) = Len(h) + Len(r)
        /\ \A n \in 1 .. Len(h) + Len(r) : p[n] = IF n <= Len(h) THEN h[n] ELSE r[n - Len(h)]
    BY <1>1, ConcatProperties
  <1> HIDE DEF p
  <1>3. ASSUME NEW n \in 1 .. Len(p)
        PROVE  \/ n \in 1 .. Len(h) /\ p[n] = h[n]
               \/ \E m \in 1 .. Len(r) : n = Len(h) + m /\ p[n] = r[m]
    <2>1. CASE n <= Len(h)
      BY <1>1, <1>2, <2>1
    <2>2. CASE ~(n <= Len(h))
      <3>1. n - Len(h) \in 1 .. Len(r) /\ n = Len(h) + (n - Len(h)) /\ p[n] = r[n - Len(h)]
        BY <1>1, <1>2, <2>2
      <3> QED BY <3>1
    <2> QED BY <2>1, <2>2
  <1>4. ASSUME NEW n \in 1 .. Len(h)
        PROVE  n \in 1 .. Len(p) /\ p[n] = h[n]
    BY <1>1, <1>2
  <1>5. ASSUME NEW m \in 1 .. Len(r)
        PROVE  Len(h) + m \in 1 .. Len(p) /\ p[Len(h) + m] = r[m]
    <2>1. Len(h) + m \in 1 .. Len(h) + Len(r) /\ ~(Len(h) + m <= Len(h)) /\ Len(h) + m - Len(h) = m
      BY <1>1
    <2> QED BY <1>2, <2>1
  <1>6. ASSUME NEW step
        PROVE  In(p, step) <=> In(h, step) \/ In(r, step)
    <2>1. ASSUME NEW n \in 1 .. Len(p), p[n] = step
          PROVE  In(h, step) \/ In(r, step)
      BY <1>3, <2>1 DEF In
    <2>2. ASSUME NEW n \in 1 .. Len(h), h[n] = step
          PROVE  In(p, step)
      BY <1>4, <2>2 DEF In
    <2>3. ASSUME NEW m \in 1 .. Len(r), r[m] = step
          PROVE  In(p, step)
      BY <1>5, <2>3 DEF In
    <2> QED BY <2>1, <2>2, <2>3 DEF In
  <1>7. ASSUME NEW m \in 1 .. Len(r)
        PROVE  /\ r[m] # "select" /\ r[m] # "file" /\ r[m] # "store" /\ r[m] # "reactivate"
               /\ r[m] = "extract" => Len(h) + m = Len(p)
               /\ r[m] = "retract" => \E k \in Len(h) + m + 1 .. Len(p) : p[k] = "clear"
    <2>1. /\ r[m] # "select" /\ r[m] # "file" /\ r[m] # "store" /\ r[m] # "reactivate"
          /\ r[m] = "extract" => m = Len(r)
          /\ r[m] = "retract" => \E k \in m + 1 .. Len(r) : r[k] = "clear"
      BY DEF Shape, In
    <2>2. ASSUME NEW k \in m + 1 .. Len(r), r[k] = "clear"
          PROVE  \E j \in Len(h) + m + 1 .. Len(p) : p[j] = "clear"
      <3>1. Len(h) + k \in Len(h) + m + 1 .. Len(p) /\ k \in 1 .. Len(r)
        BY <1>1, <1>2
      <3> QED BY <1>5, <2>2, <3>1
    <2> QED BY <1>2, <2>1, <2>2
  <1>8. ASSUME NEW n \in 1 .. Len(h)
        PROVE  /\ h[n] = "select" => n = 1 /\ Len(p) >= 2 /\ p[2] = "file"
               /\ h[n] = "file" => n = 1 \/ (n = 2 /\ p[1] = "select")
               /\ h[n] = "store" => n = 1
               /\ h[n] \notin {"retract", "extract", "reactivate"}
    <2>1. /\ h[n] = "select" => n = 1 /\ Len(h) >= 2 /\ h[2] = "file"
          /\ h[n] = "file" => n = 1 \/ (n = 2 /\ h[1] = "select")
          /\ h[n] = "store" => n = 1
          /\ h[n] \in {"select", "file", "store"}
      BY DEF Shape
    <2>2. 1 \in 1 .. Len(h) /\ (Len(h) >= 2 => 2 \in 1 .. Len(h) /\ Len(p) >= 2)
      BY <1>1, <1>2
    <2> QED BY <1>4, <2>1, <2>2
  <1>9. Shape(p)
    <2> SUFFICES ASSUME NEW n \in 1 .. Len(p)
                 PROVE  /\ p[n] = "select" => n = 1 /\ Len(p) >= 2 /\ p[2] = "file"
                        /\ p[n] = "file" => n = 1 \/ (n = 2 /\ p[1] = "select")
                        /\ p[n] = "retract" => \E k \in n + 1 .. Len(p) : p[k] = "clear"
                        /\ p[n] = "extract" => n = Len(p)
                        /\ p[n] = "reactivate" => Len(p) = 1
                        /\ p[n] = "store" => n = 1
      BY <1>2 DEF Shape
    <2>1. CASE n \in 1 .. Len(h) /\ p[n] = h[n]
      BY <1>8, <2>1
    <2>2. CASE \E m \in 1 .. Len(r) : n = Len(h) + m /\ p[n] = r[m]
      BY <1>7, <2>2
    <2> QED BY <1>3, <2>1, <2>2
  <1>10. p # <<>> /\ Head(p) = h[1]
    <2>1. 1 \in 1 .. Len(h) /\ Len(p) # 0
      BY <1>1, <1>2
    <2> QED BY <1>4, <2>1, EmptySeq
  <1> QED BY <1>2, <1>6, <1>9, <1>10 DEF p

\* A rewrite of MEMORY.md put in front.
LEMMA ShapeMd ==
  ASSUME NEW r, Shape(r), ~In(r, "select"), ~In(r, "file"), ~In(r, "store"),
         ~In(r, "reactivate")
  PROVE  /\ Shape(MdSteps \o r) /\ Head(MdSteps \o r) = "select" /\ MdSteps \o r # <<>>
         /\ MdSteps \o r \in Seq(Steps)
         /\ \A step : In(MdSteps \o r, step) <=>
                          step = "select" \/ step = "file" \/ In(r, step)
  <1> DEFINE h == MdSteps
  <1>1. h \in Seq(Steps) /\ Len(h) = 2 /\ h[1] = "select" /\ h[2] = "file"
    BY DEF MdSteps, Steps
  <1> HIDE DEF h
  <1>2. Shape(h) /\ h # <<>> /\ \A n \in 1 .. Len(h) : h[n] \in {"select", "file", "store"}
    <2>1. \A n \in 1 .. Len(h) : n = 1 \/ n = 2
      BY <1>1
    <2>2. h # <<>>
      <3>1. Len(<<>>) = 0
        BY EmptySeq
      <3> QED BY <1>1, <3>1
    <2> QED BY <1>1, <2>1, <2>2 DEF Shape
  <1>3. \A step : In(h, step) <=> step = "select" \/ step = "file"
    BY <1>1 DEF In
  <1> QED BY <1>1, <1>2, <1>3, ShapePrefix DEF h

\* What by_recency returned is stored first.
LEMMA ShapeStore ==
  ASSUME NEW r, Shape(r), ~In(r, "select"), ~In(r, "file"), ~In(r, "store"),
         ~In(r, "reactivate")
  PROVE  /\ Shape(<<"store">> \o r) /\ Head(<<"store">> \o r) = "store"
         /\ <<"store">> \o r # <<>> /\ <<"store">> \o r \in Seq(Steps)
         /\ \A step : In(<<"store">> \o r, step) <=> step = "store" \/ In(r, step)
  <1> DEFINE h == <<"store">>
  <1>1. h \in Seq(Steps) /\ Len(h) = 1 /\ h[1] = "store"
    BY DEF Steps
  <1> HIDE DEF h
  <1>2. Shape(h) /\ h # <<>> /\ \A n \in 1 .. Len(h) : h[n] \in {"select", "file", "store"}
    <2>1. \A n \in 1 .. Len(h) : n = 1
      BY <1>1
    <2>2. h # <<>>
      BY <1>1, EmptySeq
    <2> QED BY <1>1, <2>1, <2>2 DEF Shape
  <1>3. \A step : In(h, step) <=> step = "store"
    BY <1>1 DEF In
  <1>4. /\ Shape(h \o r) /\ Head(h \o r) = "store" /\ h \o r # <<>>
        /\ h \o r \in Seq(Steps) /\ \A step : In(h \o r, step) <=> step = "store" \/ In(r, step)
    BY <1>1, <1>2, <1>3, ShapePrefix
  <1> QED BY <1>4 DEF h

\* The steps a turn or a request starts with.
LEMMA ShapeEmpty == Shape(<<>>) /\ \A step : ~In(<<>>, step)
  <1> DEFINE p == <<>>
  <1>1. p \in Seq(Steps) /\ Len(p) = 0
    OBVIOUS
  <1> HIDE DEF p
  <1>2. Shape(p) /\ \A step : ~In(p, step)
    BY <1>1 DEF Shape, In
  <1> QED BY <1>2 DEF p

LEMMA ShapeOne ==
  ASSUME NEW a \in {"link", "clear", "reactivate"}
  PROVE  Shape(<<a>>) /\ Head(<<a>>) = a /\ <<a>> # <<>> /\ \A step : In(<<a>>, step) <=> step = a
  <1> DEFINE p == <<a>>
  <1>1. p \in Seq(Steps) /\ Len(p) = 1 /\ p[1] = a
    BY DEF Steps
  <1> HIDE DEF p
  <1>2. Shape(p) /\ \A step : In(p, step) <=> step = a
    BY <1>1 DEF Shape, In
  <1>3. Head(p) = p[1] /\ p # <<>>
    BY <1>1, EmptySeq
  <1> QED BY <1>1, <1>2, <1>3 DEF p

LEMMA ShapeTwo ==
  ASSUME NEW a \in {"clear", "recall"}, NEW b \in {"link", "recall", "extract"}
  PROVE  /\ Shape(<<a, b>>) /\ Head(<<a, b>>) = a /\ <<a, b>> # <<>>
         /\ \A step : In(<<a, b>>, step) <=> step = a \/ step = b
  <1> DEFINE p == <<a, b>>
  <1>1. p \in Seq(Steps) /\ Len(p) = 2 /\ p[1] = a /\ p[2] = b
    BY DEF Steps
  <1> HIDE DEF p
  <1>2. Shape(p) /\ \A step : In(p, step) <=> step = a \/ step = b
    BY <1>1 DEF Shape, In
  <1>3. Head(p) = p[1] /\ p # <<>>
    BY <1>1, EmptySeq
  <1> QED BY <1>1, <1>2, <1>3 DEF p

LEMMA ShapeThree ==
  ASSUME NEW p, p = <<"clear", "link", "recall">> \/ p = <<"retract", "clear", "recall">>
  PROVE  /\ Shape(p) /\ p # <<>>
         /\ \A step : In(p, step) <=> step = p[1] \/ step = p[2] \/ step = p[3]
         /\ Head(p) = p[1]
         /\ p[1] \in {"clear", "retract"} /\ p[2] \in {"link", "clear"} /\ p[3] = "recall"
         /\ "clear" \in {p[1], p[2]}
  <1>1. /\ p \in Seq(Steps) /\ Len(p) = 3
        /\ \/ p[1] = "clear" /\ p[2] = "link" /\ p[3] = "recall"
           \/ p[1] = "retract" /\ p[2] = "clear" /\ p[3] = "recall"
    <2>1. CASE p = <<"clear", "link", "recall">>
      BY <2>1 DEF Steps
    <2>2. CASE p = <<"retract", "clear", "recall">>
      BY <2>2 DEF Steps
    <2> QED BY <2>1, <2>2
  <1>2. Shape(p) /\ \A step : In(p, step) <=> step = p[1] \/ step = p[2] \/ step = p[3]
    BY <1>1 DEF Shape, In
  <1> QED BY <1>1, <1>2, EmptySeq

-----------------------------------------------------------------------------
(* Rows                                                                    *)

\* Rows changed one by one are rows again.
LEMMA RowsMapped ==
  ASSUME NEW rows \in Seq(Row), NEW new, new = [i \in DOMAIN rows |-> new[i]],
         \A i \in 1 .. Len(rows) : new[i] \in Row
  PROVE  new \in Seq(Row) /\ Len(new) = Len(rows)
  <1>1. Len(rows) \in Nat /\ DOMAIN rows = 1 .. Len(rows)
    BY LenProperties
  <1>2. new \in [1 .. Len(rows) -> Row]
    BY <1>1
  <1> QED BY <1>1, <1>2

LEMMA RestatusRows ==
  ASSUME NEW rows \in Seq(Row), NEW ids, NEW status \in Statuses
  PROVE  /\ Restatus(rows, ids, status) \in Seq(Row)
         /\ Len(Restatus(rows, ids, status)) = Len(rows)
         /\ \A i \in 1 .. Len(rows) :
               /\ Restatus(rows, ids, status)[i].subject = rows[i].subject
               /\ Restatus(rows, ids, status)[i].type = rows[i].type
               /\ Restatus(rows, ids, status)[i].status =
                     IF i \in ids THEN status ELSE rows[i].status
  <1> DEFINE new == Restatus(rows, ids, status)
  <1>1. Len(rows) \in Nat /\ DOMAIN rows = 1 .. Len(rows)
    BY LenProperties
  <1>2. new = [i \in DOMAIN rows |-> new[i]]
    BY DEF Restatus
  <1>3. \A i \in 1 .. Len(rows) :
            new[i] = IF i \in ids THEN [rows[i] EXCEPT !.status = status] ELSE rows[i]
    BY <1>1 DEF Restatus
  <1> HIDE DEF new
  <1>4. ASSUME NEW i \in 1 .. Len(rows)
        PROVE  /\ new[i] \in Row
               /\ new[i].subject = rows[i].subject /\ new[i].type = rows[i].type
               /\ new[i].status = IF i \in ids THEN status ELSE rows[i].status
    <2>1. rows[i] \in Row
      BY ElementOfSeq
    <2> QED BY <1>3, <2>1 DEF Row
  <1> QED BY <1>2, <1>4, RowsMapped DEF new

LEMMA SupersededRows ==
  ASSUME NEW rows \in Seq(Row), NEW s, NEW ty
  PROVE  /\ Superseded(rows, s, ty) \in Seq(Row)
         /\ Len(Superseded(rows, s, ty)) = Len(rows)
         /\ \A i \in 1 .. Len(rows) :
               /\ Superseded(rows, s, ty)[i].subject = rows[i].subject
               /\ Superseded(rows, s, ty)[i].type = rows[i].type
               /\ Superseded(rows, s, ty)[i].status =
                     IF rows[i].subject = s /\ rows[i].type = ty /\ rows[i].status = "active"
                     THEN "superseded" ELSE rows[i].status
  <1> DEFINE ids == {i \in 1 .. Len(rows) : /\ rows[i].subject = s /\ rows[i].type = ty
                                            /\ rows[i].status = "active"}
  <1>1. Superseded(rows, s, ty) = Restatus(rows, ids, "superseded")
    BY LenProperties DEF Superseded, Restatus
  <1>2. "superseded" \in Statuses
    BY DEF Statuses
  <1> QED BY <1>1, <1>2, RestatusRows

LEMMA InsertedRows ==
  ASSUME episode \in Seq(Row), NEW s \in Subjects, NEW ty \in Types,
         NEW status \in {"active", "pending"}
  PROVE  LET new == Inserted(s, ty, status)
             n   == Len(episode)
         IN  /\ new \in Seq(Row) /\ Len(new) = n + 1
             /\ new[n + 1].subject = s /\ new[n + 1].type = ty /\ new[n + 1].status = status
             /\ \A i \in 1 .. n :
                   /\ new[i].subject = episode[i].subject /\ new[i].type = episode[i].type
                   /\ new[i].status =
                         IF status = "active" /\ episode[i].subject = s /\ episode[i].type = ty
                            /\ episode[i].status = "active"
                         THEN "superseded" ELSE episode[i].status
  <1> DEFINE old == IF status = "active" THEN Superseded(episode, s, ty) ELSE episode
             row == [subject |-> s, type |-> ty, status |-> status]
  <1>1. /\ old \in Seq(Row) /\ Len(old) = Len(episode)
        /\ \A i \in 1 .. Len(episode) :
              /\ old[i].subject = episode[i].subject /\ old[i].type = episode[i].type
              /\ old[i].status =
                    IF status = "active" /\ episode[i].subject = s /\ episode[i].type = ty
                       /\ episode[i].status = "active"
                    THEN "superseded" ELSE episode[i].status
    BY SupersededRows
  <1>2. row \in Row /\ row.subject = s /\ row.type = ty /\ row.status = status
    BY DEF Row, Statuses
  <1>3. Inserted(s, ty, status) = Append(old, row)
    BY DEF Inserted
  <1> HIDE DEF old, row
  <1>4. /\ Append(old, row) \in Seq(Row) /\ Len(Append(old, row)) = Len(old) + 1
        /\ \A i \in 1 .. Len(old) : Append(old, row)[i] = old[i]
        /\ Append(old, row)[Len(old) + 1] = row
    BY <1>1, <1>2, AppendProperties
  <1> QED BY <1>1, <1>2, <1>3, <1>4

LEMMA ReactivatedRows ==
  ASSUME episode \in Seq(Row), NEW i \in Ids
  PROVE  /\ Reactivated(i) \in Seq(Row) /\ Len(Reactivated(i)) = Len(episode)
         /\ \A k \in 1 .. Len(episode) :
               /\ Reactivated(i)[k].subject = episode[k].subject
               /\ Reactivated(i)[k].type = episode[k].type
               /\ Reactivated(i)[k].status =
                     IF k = i /\ episode[i].status = "retracted" THEN "active"
                     ELSE IF Key(k) = Key(i) /\ episode[k].status = "active" THEN "superseded"
                     ELSE episode[k].status
  <1> DEFINE rows == Superseded(episode, episode[i].subject, episode[i].type)
  <1>1. /\ rows \in Seq(Row) /\ Len(rows) = Len(episode)
        /\ \A k \in 1 .. Len(episode) :
              /\ rows[k].subject = episode[k].subject /\ rows[k].type = episode[k].type
              /\ rows[k].status =
                    IF Key(k) = Key(i) /\ episode[k].status = "active"
                    THEN "superseded" ELSE episode[k].status
    BY SupersededRows DEF Key
  <1>2. "active" \in Statuses
    BY DEF Statuses
  <1> HIDE DEF rows
  <1>3. CASE episode[i].status = "retracted"
    <2>1. Reactivated(i) = Restatus(rows, {i}, "active")
      BY <1>3 DEF Reactivated, rows
    <2> QED BY <1>1, <1>2, <1>3, <2>1, RestatusRows
  <1>4. CASE episode[i].status # "retracted"
    <2>1. Reactivated(i) = rows
      BY <1>4 DEF Reactivated, rows
    <2> QED BY <1>1, <1>4, <2>1
  <1> QED BY <1>3, <1>4

-----------------------------------------------------------------------------
(* Jobs                                                                    *)

LEMMA TypeOKDef ==
  TypeOK <=> /\ episode \in Seq(Row) /\ Len(episode) <= MaxRow
             /\ memoryMd \subseteq Ids
             /\ cache \in [valid : BOOLEAN, ids : SUBSET Ids]
             /\ Cardinality(cache.ids) <= RecencyLimit
             /\ doubled \subseteq Subjects \X Types
             /\ torn \in BOOLEAN /\ late \in BOOLEAN
             /\ job \in [Threads -> JobOf(Len(episode))]
  <1>1. ASSUME episode \in Seq(Row)
        PROVE  Ids \cup {0} = 0 .. Len(episode)
    BY <1>1, LenProperties DEF Ids
  <1>2. ASSUME episode \in Seq(Row)
        PROVE  JobOf(Len(episode)) =
                 [todo : Seq(Steps), id : Ids \cup {0}, subject : Subjects \cup {"none"},
                  types : SUBSET Types, ids : SUBSET Ids, raced : BOOLEAN]
    BY <1>1, <1>2 DEF JobOf, Ids
  <1> QED BY <1>2 DEF TypeOK, Row

LEMMA IdleJobType == \A n \in Nat : IdleJob \in JobOf(n) /\ IdleJob.todo = <<>>
  BY EmptySeq DEF IdleJob, JobOf

\* A job whose remaining steps, episode, retraction or rows change.
LEMMA JobTodo ==
  ASSUME NEW n \in Nat, NEW r \in JobOf(n), NEW todo \in Seq(Steps)
  PROVE  [r EXCEPT !.todo = todo] \in JobOf(n) /\ [r EXCEPT !.todo = todo].todo = todo
  BY DEF JobOf

LEMMA JobId ==
  ASSUME NEW n \in Nat, NEW r \in JobOf(n), NEW id \in 0 .. n
  PROVE  /\ [r EXCEPT !.id = id] \in JobOf(n) /\ [r EXCEPT !.id = id].todo = r.todo
         /\ [r EXCEPT !.id = id].id = id
  BY DEF JobOf

LEMMA JobIds ==
  ASSUME NEW n \in Nat, NEW r \in JobOf(n), NEW ids \in SUBSET (1 .. n)
  PROVE  /\ [r EXCEPT !.ids = ids] \in JobOf(n) /\ [r EXCEPT !.ids = ids].todo = r.todo
         /\ [r EXCEPT !.ids = ids].ids = ids
  BY DEF JobOf

LEMMA JobSubject ==
  ASSUME NEW n \in Nat, NEW r \in JobOf(n), NEW s \in Subjects, NEW todo \in Seq(Steps)
  PROVE  /\ [r EXCEPT !.subject = s, !.types = Types, !.todo = todo] \in JobOf(n)
         /\ [r EXCEPT !.subject = s, !.types = Types, !.todo = todo].todo = todo
  BY DEF JobOf

LEMMA JobAbout ==
  ASSUME NEW n \in Nat, NEW r \in JobOf(n), NEW id \in 0 .. n, NEW todo \in Seq(Steps)
  PROVE  /\ [r EXCEPT !.id = id, !.todo = todo] \in JobOf(n)
         /\ [r EXCEPT !.id = id, !.todo = todo].todo = todo
         /\ [r EXCEPT !.id = id, !.todo = todo].id = id
  BY DEF JobOf

\* The job that is left when a step is done.
LEMMA DoneJob ==
  ASSUME IInv, NEW t \in Threads, ~Idle(t)
  PROVE  LET p == job[t].todo
             q == Tail(job[t].todo)
         IN  /\ Done(t) \in JobOf(Len(episode)) /\ Done(t).todo = q /\ Shape(q)
             /\ Head(p) = "select" => Done(t) = [job[t] EXCEPT !.todo = q]
             /\ q # <<>> => /\ Head(q) \notin {"select", "store", "reactivate"}
                            /\ Head(q) = "file" => Head(p) = "select"
             /\ In(p, "file") => Head(p) = "select" \/ Head(p) = "file"
             /\ \A step : In(p, step) <=> Head(p) = step \/ In(q, step)
             /\ Head(p) = "retract" => In(q, "clear")
             /\ Head(p) \in {"extract", "reactivate"} => q = <<>>
             /\ ~In(q, "select") /\ ~In(q, "store") /\ ~In(q, "reactivate")
             /\ Head(p) # "select" => ~In(q, "file")
  <1> DEFINE p == job[t].todo
             q == Tail(p)
  <1>1. /\ p \in Seq(Steps) /\ p # <<>> /\ Shape(p) /\ job[t] \in JobOf(Len(episode))
        /\ Len(episode) \in Nat
    BY LenProperties, TypeOKDef DEF IInv, Idle, Shaped, Shape
  <1>2. /\ Shape(q) /\ q \in Seq(Steps)
        /\ \A step : In(p, step) <=> Head(p) = step \/ In(q, step)
        /\ Head(p) = "select" => q # <<>> /\ Head(q) = "file"
        /\ Head(p) # "select" => ~In(q, "file")
        /\ ~In(q, "select") /\ ~In(q, "store") /\ ~In(q, "reactivate")
        /\ Head(p) = "retract" => In(q, "clear")
        /\ Head(p) = "extract" \/ Head(p) = "reactivate" => q = <<>>
    BY <1>1, ShapeTail
  <1>4. q # <<>> => In(q, Head(q))
    BY <1>2, ShapeTail
  <1>a. Len(p) \in Nat \ {0}
    BY <1>1, EmptySeq
  <1>b. Len(q) = Len(p) - 1
    BY <1>1, HeadTailProperties
  <1> HIDE DEF q
  <1>3. (Len(p) = 1 => q = <<>>) /\ (q = <<>> => Len(p) = 1)
    <2>1. Len(p) = 1 => Len(q) = 0
      BY <1>b
    <2>2. Len(p) # 1 => Len(q) # 0
      BY <1>a, <1>b
    <2>3. q = <<>> <=> Len(q) = 0
      BY <1>2, EmptySeq
    <2> HIDE DEF p
    <2> QED BY <2>1, <2>2, <2>3
  <1>5. CASE Len(p) = 1
    <2>1. Done(t) = IdleJob
      BY <1>5 DEF Done
    <2> QED BY <1>1, <1>2, <1>3, <1>4, <1>5, <2>1, IdleJobType DEF q
  <1>6. CASE Len(p) # 1
    <2>1. Done(t) = [job[t] EXCEPT !.todo = q]
      BY <1>6 DEF Done, q
    <2>2. Done(t) \in JobOf(Len(episode)) /\ Done(t).todo = q
      BY <1>1, <1>2, <2>1 DEF JobOf
    <2> QED BY <1>1, <1>2, <1>3, <1>4, <1>6, <2>1, <2>2 DEF q
  <1> QED BY <1>5, <1>6

-----------------------------------------------------------------------------
(* Steps that only move a job                                              *)

\* Thread t goes on as r: a rewrite is neither begun nor ended, a clearing of
\* the cache is not forgotten, and what r is about to use was just read.
Move(t, r) ==
    /\ r \in JobOf(Len(episode)) /\ Shape(r.todo)
    /\ In(job[t].todo, "clear") => In(r.todo, "clear")
    /\ In(r.todo, "file") <=> In(job[t].todo, "file")
    /\ r.todo # <<>> =>
          /\ Head(r.todo) = "file" => r.ids = Active
          /\ Head(r.todo) = "store" => r.ids \in ByRecency
          /\ Head(r.todo) = "reactivate" => r.id \in Ids

Quiet(t) ==
    \/ SelectActive(t) \/ LinkNode(t)
    \/ t \in Turns /\ \/ \E i \in Ids : Match(t, i)
                      \/ RetractById(t) /\ job[t].id \notin Active
                      \/ \E s \in Subjects : MatchNothing(t, s)
                      \/ Ask(t) \/ SkipRecall(t) \/ RecallCached(t) \/ ExtractNothing(t)
                      \/ \E rows \in ByRecency : RecallRows(t, rows)
                      \/ \E ty \in Types : RetractType(t, ty)
                            /\ {i \in Active : Key(i) = <<job[t].subject, ty>>} = {}
    \/ \E i \in Ids : FindRetracted(t, i)

LEMMA QuietMoves ==
  ASSUME IInv, NEW t \in Threads, Quiet(t)
  PROVE  /\ UNCHANGED <<episode, memoryMd, cache, history>>
         /\ \E r : Move(t, r) /\ job' = [job EXCEPT ![t] = r]
  <1> DEFINE p == job[t].todo
             q == Tail(job[t].todo)
             G == \E r : Move(t, r) /\ job' = [job EXCEPT ![t] = r]
  <1>1. /\ Len(episode) \in Nat /\ Ids = 1 .. Len(episode) /\ Active \subseteq Ids
        /\ job[t] \in JobOf(Len(episode)) /\ Shape(p)
    BY TypeOKDef, LenProperties DEF IInv, Ids, Active, ActiveIn, Shaped
  <1>2. Idle(t) => p = <<>> /\ \A step : ~In(p, step)
    BY ShapeEmpty DEF Idle
  <1>3. ASSUME NEW step, At(t, step)
        PROVE  ~Idle(t) /\ Head(p) = step
    BY <1>3 DEF At
  <1>4. ~Idle(t) =>
          /\ Done(t) \in JobOf(Len(episode)) /\ Done(t).todo = q /\ Shape(q)
          /\ Head(p) = "select" => Done(t) = [job[t] EXCEPT !.todo = q]
          /\ q # <<>> => /\ Head(q) \notin {"select", "store", "reactivate"}
                         /\ Head(q) = "file" => Head(p) = "select"
          /\ \A step : In(p, step) <=> Head(p) = step \/ In(q, step)
          /\ Head(p) \in {"extract", "reactivate"} => q = <<>>
          /\ ~In(q, "select") /\ ~In(q, "store") /\ ~In(q, "reactivate")
          /\ Head(p) # "select" => ~In(q, "file")
    BY DoneJob
  <1> HIDE DEF p, q
  <1>b. IdleJob \in JobOf(Len(episode)) /\ 0 \in 0 .. Len(episode)
           /\ \A i \in Ids : i \in 0 .. Len(episode)
    BY <1>1, IdleJobType
  <1>5. ASSUME ~Idle(t), Head(p) \notin {"select", "file", "clear"},
               NEW r \in JobOf(Len(episode)), r.todo = q
        PROVE  Move(t, r)
    BY <1>4, <1>5 DEF Move, p
  <1>a. ASSUME Idle(t), NEW r \in JobOf(Len(episode)), Shape(r.todo), ~In(r.todo, "file"),
               r.todo # <<>>, Head(r.todo) \notin {"file", "store", "reactivate"}
        PROVE  Move(t, r)
    BY <1>2, <1>a DEF Move, p
  <1>6. ASSUME SelectActive(t) PROVE G
    <2>1. /\ ~Idle(t) /\ Head(p) = "select"
          /\ job' = [job EXCEPT ![t] = [Done(t) EXCEPT !.ids = Active]]
      BY <1>3, <1>6 DEF SelectActive, MdRows
    <2> DEFINE r == [Done(t) EXCEPT !.ids = Active]
    <2>2. r \in JobOf(Len(episode)) /\ r.todo = q /\ r.ids = Active
      BY <1>1, <1>4, <2>1 DEF JobOf
    <2> HIDE DEF r
    <2>3. Move(t, r)
      <3>1. q # <<>> /\ Head(q) = "file" /\ In(q, "file")
        <4>1. p # <<>> /\ q = Tail(p)
          BY <2>1 DEF p, q, Idle
        <4>2. q # <<>> /\ Head(q) = "file" /\ Shape(q)
          BY <1>1, <2>1, <4>1, ShapeTail
        <4> QED BY <4>2, ShapeTail
      <3> QED BY <1>4, <2>1, <2>2, <3>1 DEF Move, p
    <2> QED BY <2>1, <2>3 DEF r
  <1>7. ASSUME LinkNode(t) \/ SkipRecall(t) \/ RecallCached(t) PROVE G
    <2>1. /\ ~Idle(t) /\ Head(p) \in {"link", "recall"} /\ job' = [job EXCEPT ![t] = Done(t)]
      BY <1>3, <1>7 DEF LinkNode, SkipRecall, RecallCached
    <2> QED BY <1>4, <1>5, <2>1
  <1>8. ASSUME NEW i \in Ids, Match(t, i) PROVE G
    <2> DEFINE todo == <<"retract", "clear", "recall">>
               r == [IdleJob EXCEPT !.id = i, !.todo = todo]
    <2>1. Idle(t) /\ job' = [job EXCEPT ![t] = r]
      BY <1>8 DEF Match
    <2>2. Shape(todo) /\ ~In(todo, "file") /\ todo # <<>> /\ Head(todo) = "retract"
      BY ShapeThree
    <2> HIDE DEF todo
    <2>a. todo \in Seq(Steps) /\ i \in 0 .. Len(episode)
      BY <1>b, <2>2 DEF Shape
    <2>3. r \in JobOf(Len(episode)) /\ r.todo = todo
      BY <1>1, <1>b, <2>a DEF JobOf
    <2> HIDE DEF r
    <2>4. Move(t, r)
      BY <1>a, <2>1, <2>2, <2>3
    <2> QED BY <2>1, <2>4
  <1>9. ASSUME RetractById(t), job[t].id \notin Active PROVE G
    <2>1. /\ ~Idle(t) /\ Head(p) = "retract"
          /\ job' = [job EXCEPT ![t] = [Done(t) EXCEPT !.id = 0]]
      BY <1>3, <1>9 DEF RetractById
    <2>2. [Done(t) EXCEPT !.id = 0] \in JobOf(Len(episode))
             /\ [Done(t) EXCEPT !.id = 0].todo = q
      BY <1>1, <1>4, <1>b, <2>1, JobId
    <2> QED BY <1>5, <2>1, <2>2
  <1>10. ASSUME NEW s \in Subjects, MatchNothing(t, s) PROVE G
    <2> DEFINE todo == <<"retract", "clear", "recall">>
               r == [IdleJob EXCEPT !.subject = s, !.types = Types, !.todo = todo]
    <2>1. Idle(t) /\ job' = [job EXCEPT ![t] = r]
      BY <1>10 DEF MatchNothing
    <2>2. Shape(todo) /\ ~In(todo, "file") /\ todo # <<>> /\ Head(todo) = "retract"
      BY ShapeThree
    <2> HIDE DEF todo
    <2>a. todo \in Seq(Steps)
      BY <2>2 DEF Shape
    <2>3. r \in JobOf(Len(episode)) /\ r.todo = todo
      BY <1>1, <1>b, <2>a DEF JobOf
    <2> HIDE DEF r
    <2>4. Move(t, r)
      BY <1>a, <2>1, <2>2, <2>3
    <2> QED BY <2>1, <2>4
  <1>11. ASSUME Ask(t) PROVE G
    <2> DEFINE todo == <<"recall", "extract">>
               r == [IdleJob EXCEPT !.todo = todo]
    <2>1. Idle(t) /\ job' = [job EXCEPT ![t] = r]
      BY <1>11 DEF Ask
    <2>2. Shape(todo) /\ ~In(todo, "file") /\ todo # <<>> /\ Head(todo) = "recall"
      BY ShapeTwo
    <2> HIDE DEF todo
    <2>3. r \in JobOf(Len(episode)) /\ r.todo = todo
      BY <1>1, <1>b, <2>2, JobTodo DEF Shape
    <2> HIDE DEF r
    <2>4. Move(t, r)
      BY <1>a, <2>1, <2>2, <2>3
    <2> QED BY <2>1, <2>4
  <1>12. ASSUME ExtractNothing(t) PROVE G
    <2>1. ~Idle(t) /\ Head(p) = "extract" /\ job' = [job EXCEPT ![t] = IdleJob]
      BY <1>3, <1>12 DEF ExtractNothing
    <2>2. IdleJob \in JobOf(Len(episode)) /\ IdleJob.todo = q
      BY <1>1, <1>4, <2>1, IdleJobType
    <2> QED BY <1>5, <2>1, <2>2
  <1>13. ASSUME NEW rows \in ByRecency, RecallRows(t, rows) PROVE G
    <2> DEFINE r == [Done(t) EXCEPT !.todo = <<"store">> \o @, !.ids = rows, !.raced = FALSE]
    <2>1. ~Idle(t) /\ Head(p) = "recall" /\ job' = [job EXCEPT ![t] = r]
      BY <1>3, <1>13 DEF RecallRows
    <2>2. /\ Shape(<<"store">> \o q) /\ Head(<<"store">> \o q) = "store"
          /\ <<"store">> \o q \in Seq(Steps)
          /\ \A step : In(<<"store">> \o q, step) <=> step = "store" \/ In(q, step)
      BY <1>4, <2>1, ShapeStore
    <2>3. rows \in SUBSET (1 .. Len(episode))
      BY <1>1 DEF ByRecency, Recent
    <2>4. r \in JobOf(Len(episode)) /\ r.todo = <<"store">> \o q /\ r.ids = rows
      BY <1>1, <1>4, <2>1, <2>2, <2>3 DEF JobOf
    <2> HIDE DEF r
    <2>5. Move(t, r)
      BY <1>4, <1>13, <2>1, <2>2, <2>4 DEF Move, p
    <2> QED BY <2>1, <2>5
  <1>14. ASSUME NEW ty \in Types, RetractType(t, ty),
                {i \in Active : Key(i) = <<job[t].subject, ty>>} = {}
         PROVE  G
    <2> DEFINE left == job[t].types \ {ty}
               rest == IF left = {} THEN q ELSE p
               r == [job[t] EXCEPT !.types = left, !.todo = rest]
    <2>1. ~Idle(t) /\ Head(p) = "retract" /\ job' = [job EXCEPT ![t] = r]
      BY <1>3, <1>14 DEF RetractType, p, q
    <2>2. r \in JobOf(Len(episode)) /\ r.todo = rest
      BY <1>1, <1>4, <2>1 DEF JobOf, Shape
    <2> HIDE DEF r
    <2>3. CASE rest = q
      BY <1>5, <2>1, <2>2, <2>3
    <2>4. CASE rest = p
      BY <1>1, <2>1, <2>2, <2>4 DEF Move, p
    <2> QED BY <2>1, <2>3, <2>4
  <1>15. ASSUME NEW i \in Ids, FindRetracted(t, i) PROVE G
    <2> DEFINE todo == <<"reactivate">>
               r == [IdleJob EXCEPT !.id = i, !.todo = todo]
    <2>1. Idle(t) /\ job' = [job EXCEPT ![t] = r]
      BY <1>15 DEF FindRetracted
    <2>2. Shape(todo) /\ ~In(todo, "file") /\ todo # <<>> /\ Head(todo) = "reactivate"
      BY ShapeOne
    <2> HIDE DEF todo
    <2>a. todo \in Seq(Steps) /\ i \in 0 .. Len(episode)
      BY <1>b, <2>2 DEF Shape
    <2>3. r \in JobOf(Len(episode)) /\ r.todo = todo /\ r.id = i
      BY <1>1, <1>b, <2>a DEF JobOf
    <2> HIDE DEF r
    <2>4. Move(t, r)
      BY <1>2, <2>1, <2>2, <2>3 DEF Move, p
    <2> QED BY <2>1, <2>4
  <1>16. UNCHANGED <<episode, memoryMd, cache, history>>
    BY DEF Quiet, SelectActive, LinkNode, Match, RetractById, MatchNothing, Ask, SkipRecall,
           RecallCached, ExtractNothing, RecallRows, RetractType, FindRetracted, history
  <1> QED BY <1>6, <1>7, <1>8, <1>9, <1>10, <1>11, <1>12, <1>13, <1>14, <1>15, <1>16 DEF Quiet

\* The steps a thread has left after thread t went on as r.
LEMMA JobAfter ==
  ASSUME NEW t \in Threads, NEW r, job'[t] = r,
         \A u \in Threads \ {t} : job'[u].todo = job[u].todo
  PROVE  /\ \A step : /\ At(t, step)' <=> r.todo # <<>> /\ Head(r.todo) = step
                      /\ Has(t, step)' <=> In(r.todo, step)
         /\ \A u \in Threads \ {t} : \A step : /\ At(u, step)' <=> At(u, step)
                                               /\ Has(u, step)' <=> Has(u, step)
  BY DEF At, Has, Idle, In

\* What by_recency may return depends on the active rows and their types only.
LEMMA SameRecency ==
  ASSUME episode \in Seq(Row), ActiveIn(episode') = Active,
         \A i \in Active : episode'[i].type = episode[i].type
  PROVE  Active' = Active /\ ByRecency' = ByRecency
  <1>1. Active' = Active
    BY DEF Active
  <1>2. Recent' = Recent
    BY <1>1 DEF Recent
  <1> QED BY <1>1, <1>2 DEF ByRecency

LEMMA MoveIInv ==
  ASSUME IInv, NEW t \in Threads, NEW r, Move(t, r), job' = [job EXCEPT ![t] = r],
         UNCHANGED <<episode, memoryMd, cache, history>>
  PROVE  IInv'
  <1>1. /\ r \in JobOf(Len(episode)) /\ job \in [Threads -> JobOf(Len(episode))]
        /\ job'[t] = r /\ \A u \in Threads \ {t} : job'[u] = job[u]
    BY TypeOKDef DEF IInv, Move
  <1>2. ByRecency' = ByRecency /\ Active' = Active
    BY DEF ByRecency, Recent, Active, ActiveIn
  <1>3. /\ \A step : /\ At(t, step)' <=> r.todo # <<>> /\ Head(r.todo) = step
                     /\ Has(t, step)' <=> In(r.todo, step)
        /\ \A u \in Threads \ {t} : \A step : /\ At(u, step)' <=> At(u, step)
                                              /\ Has(u, step)' <=> Has(u, step)
    BY <1>1, JobAfter
  <1>4. TypeOK'
    <2>1. job' \in [Threads -> JobOf(Len(episode))]
      BY <1>1
    <2> QED BY <2>1, TypeOKDef DEF IInv, history, Ids, JobOf, TypeOK, Row
  <1>5. Shaped'
    BY <1>1 DEF IInv, Shaped, Move
  <1>6. Found'
    BY <1>1, <1>3 DEF IInv, Found, Move, Ids
  <1>7. StoreRead'
    <2> SUFFICES ASSUME NEW u \in Threads, At(u, "store")'
                 PROVE  /\ Cardinality(job'[u].ids) <= RecencyLimit
                        /\ ~job'[u].raced => job'[u].ids \in ByRecency
      BY <1>2 DEF StoreRead
    <2>1. CASE u = t
      <3>1. r.ids \in ByRecency
        BY <1>3, <2>1 DEF Move
      <3> QED BY <1>1, <2>1, <3>1 DEF ByRecency
    <2>2. CASE u # t
      BY <1>1, <1>3, <2>2 DEF IInv, StoreRead
    <2> QED BY <2>1, <2>2
  <1>8. CacheRead'
    BY <1>2, <1>3 DEF IInv, CacheRead, Move, history, Has, In
  <1> QED BY <1>4, <1>5, <1>6, <1>7, <1>8 DEF IInv

LEMMA MoveSInv ==
  ASSUME SInv, NEW t \in Threads, NEW r, Move(t, r),
         job' = [job EXCEPT ![t] = r], UNCHANGED <<episode, memoryMd, cache, history>>
  PROVE  SInv'
  <1>1. /\ job \in [Threads -> JobOf(Len(episode))] /\ IInv
        /\ job'[t] = r /\ \A u \in Threads \ {t} : job'[u] = job[u]
    BY TypeOKDef DEF SInv, IInv
  <1>2. Active' = Active
    BY DEF Active, ActiveIn
  <1>3. /\ \A step : /\ At(t, step)' <=> r.todo # <<>> /\ Head(r.todo) = step
                     /\ Has(t, step)' <=> In(r.todo, step)
        /\ \A u \in Threads \ {t} : \A step : /\ At(u, step)' <=> At(u, step)
                                              /\ Has(u, step)' <=> Has(u, step)
    BY <1>1, JobAfter
  <1>5. \A u \in Threads : RewritesMd(u)' <=> RewritesMd(u)
    BY <1>3 DEF Move, RewritesMd, Has, In
  <1>6. OneRewrite'
    <2> SUFFICES ASSUME ~torn
                 PROVE  /\ \A u, v \in Threads : RewritesMd(u)' /\ RewritesMd(v)' => u = v
                        /\ \A u \in Threads : At(u, "file")' => job'[u].ids = Active
                        /\ (\A u \in Threads : ~RewritesMd(u)') => memoryMd = Active
      BY <1>2 DEF OneRewrite, history
    <2>1. \A u \in Threads : At(u, "file")' => job'[u].ids = Active
      BY <1>1, <1>3 DEF SInv, OneRewrite, Move
    <2> QED BY <1>5, <2>1 DEF SInv, OneRewrite
  <1>7. IInv'
    BY <1>1, MoveIInv
  <1> QED BY <1>6, <1>7 DEF SInv

-----------------------------------------------------------------------------
(* What a transaction does to the rows                                     *)

\* The five kinds of transaction: an insert, active or pending, a retraction,
\* an approval and the UPDATEs of a reactivation.
RowStep(new, kept) ==
    \/ \E s \in Subjects, ty \in Types :
          new = Inserted(s, ty, "active") /\ kept = doubled \ {<<s, ty>>}
    \/ \E s \in Subjects, ty \in Types : new = Inserted(s, ty, "pending") /\ kept = doubled
    \/ \E ids \in SUBSET Ids : /\ \A i \in ids : episode[i].status \in {"active", "pending"}
                               /\ new = Restatus(episode, ids, "retracted") /\ kept = doubled
    \/ \E i \in Ids : /\ episode[i].status = "pending"
                      /\ new = Restatus(episode, {i}, "active")
                      /\ kept = doubled \cup {Key(i) : j \in {k \in Active : Key(k) = Key(i)}}
    \/ \E i \in Ids : new = Reactivated(i) /\ kept = doubled \ {Key(i)}

KeyIn(rows, i) == <<rows[i].subject, rows[i].type>>

AtMostOne(rows, but) ==
    \A i, j \in ActiveIn(rows) :
        KeyIn(rows, i) = KeyIn(rows, j) /\ KeyIn(rows, i) \notin but => i = j

\* What every transaction keeps: the rows and their keys, the lifecycle, and
\* one active row of a key that no approval doubled.
RowsKept(new, kept) ==
    /\ new \in Seq(Row) /\ Len(episode) <= Len(new) /\ Len(new) <= Len(episode) + 1
    /\ \A i \in Ids : /\ new[i].subject = episode[i].subject /\ new[i].type = episode[i].type
                      /\ new[i].status \in MovesTo(episode[i].status)
    /\ AtMostOne(episode, doubled) => AtMostOne(new, kept)

\* A key left without its active row keeps none, but for a retraction and for
\* the reactivation of a row that is not retracted.
Replaced(new) ==
    \A i \in Ids :
        episode[i].status = "active" /\ new[i].status = "superseded" =>
            \E j \in DOMAIN new : new[j].status = "active" /\ KeyIn(new, j) = Key(i)

LEMMA Moves ==
  /\ \A s : s \in MovesTo(s)
  /\ {"active", "retracted"} \subseteq MovesTo("pending")
  /\ {"superseded", "retracted"} \subseteq MovesTo("active")
  /\ "active" \in MovesTo("retracted")
  BY DEF MovesTo

LEMMA InsertKeeps ==
  ASSUME episode \in Seq(Row), NEW s \in Subjects, NEW ty \in Types,
         NEW status \in {"active", "pending"}
  PROVE  LET new  == Inserted(s, ty, status)
             kept == IF status = "active" THEN doubled \ {<<s, ty>>} ELSE doubled
         IN  /\ RowsKept(new, kept) /\ Replaced(new)
             /\ \A i \in Ids : episode[i].status = "retracted" => new[i].status = "retracted"
             /\ status = "pending" => ActiveIn(new) = Active
  <1> DEFINE n == Len(episode)
             new == Inserted(s, ty, status)
             kept == IF status = "active" THEN doubled \ {<<s, ty>>} ELSE doubled
  <1>1. /\ n \in Nat /\ Ids = 1 .. n /\ DOMAIN episode = 1 .. n
        /\ new \in Seq(Row) /\ Len(new) = n + 1 /\ DOMAIN new = 1 .. n + 1
        /\ new[n + 1].subject = s /\ new[n + 1].type = ty /\ new[n + 1].status = status
        /\ \A i \in 1 .. n :
              /\ new[i].subject = episode[i].subject /\ new[i].type = episode[i].type
              /\ new[i].status =
                    IF status = "active" /\ episode[i].subject = s /\ episode[i].type = ty
                       /\ episode[i].status = "active"
                    THEN "superseded" ELSE episode[i].status
    BY InsertedRows, LenProperties DEF Ids
  <1> HIDE DEF n, new
  <1>2. \A i \in 1 .. n + 1 : i \in 1 .. n \/ i = n + 1
    BY <1>1
  <1>3. n + 1 \in 1 .. n + 1 /\ 1 .. n \subseteq 1 .. n + 1 /\ n + 1 \notin 1 .. n
    BY <1>1
  <1>4. /\ \A i \in Ids : new[i].status \in MovesTo(episode[i].status)
        /\ \A i \in Ids : episode[i].status = "retracted" => new[i].status = "retracted"
    BY <1>1, Moves
  <1>5. ASSUME AtMostOne(episode, doubled), NEW i \in ActiveIn(new), NEW j \in ActiveIn(new),
               KeyIn(new, i) = KeyIn(new, j), KeyIn(new, i) \notin kept
        PROVE  i = j
    <2>1. /\ i \in 1 .. n + 1 /\ j \in 1 .. n + 1
          /\ new[i].status = "active" /\ new[j].status = "active"
          /\ new[i].subject = new[j].subject /\ new[i].type = new[j].type
      BY <1>1, <1>5 DEF ActiveIn, KeyIn
    <2>2. CASE i = n + 1 \/ j = n + 1
      BY <1>1, <1>2, <2>1, <2>2
    <2>3. CASE i \in 1 .. n /\ j \in 1 .. n
      <3>1. /\ episode[i].status = "active" /\ episode[j].status = "active"
            /\ KeyIn(episode, i) = KeyIn(new, i) /\ KeyIn(episode, j) = KeyIn(new, j)
            /\ status = "active" => KeyIn(new, i) # <<s, ty>>
        BY <1>1, <2>1, <2>3 DEF KeyIn
      <3>2. KeyIn(episode, i) \notin doubled
        BY <1>5, <3>1
      <3> QED BY <1>1, <1>5, <2>3, <3>1, <3>2 DEF AtMostOne, ActiveIn
    <2> QED BY <1>2, <2>1, <2>2, <2>3
  <1>6. Replaced(new)
    <2> SUFFICES ASSUME NEW i \in Ids, episode[i].status = "active",
                        new[i].status = "superseded"
                 PROVE  \E j \in DOMAIN new : new[j].status = "active" /\ KeyIn(new, j) = Key(i)
      BY DEF Replaced
    <2>1. status = "active" /\ episode[i].subject = s /\ episode[i].type = ty
      BY <1>1
    <2> QED BY <1>1, <1>3, <2>1 DEF KeyIn, Key
  <1>7. ASSUME status = "pending"
        PROVE  ActiveIn(new) = Active
    BY <1>1, <1>2, <1>3, <1>7 DEF ActiveIn, Active
  <1>8. RowsKept(new, kept)
    BY <1>1, <1>4, <1>5 DEF RowsKept, AtMostOne, n
  <1> QED BY <1>4, <1>6, <1>7, <1>8 DEF new

LEMMA RetractKeeps ==
  ASSUME episode \in Seq(Row), NEW ids \in SUBSET Ids,
         \A i \in ids : episode[i].status \in {"active", "pending"}
  PROVE  LET new == Restatus(episode, ids, "retracted")
         IN  /\ RowsKept(new, doubled) /\ Replaced(new) /\ Len(new) = Len(episode)
             /\ \A i \in Ids : episode[i].status = "retracted" => new[i].status = "retracted"
             /\ ActiveIn(new) = Active \ ids
  <1> DEFINE n == Len(episode)
             new == Restatus(episode, ids, "retracted")
  <1>a. "retracted" \in Statuses
    BY DEF Statuses
  <1>1. /\ n \in Nat /\ Ids = 1 .. n /\ DOMAIN episode = 1 .. n
        /\ new \in Seq(Row) /\ Len(new) = n /\ DOMAIN new = 1 .. n
        /\ \A i \in 1 .. n :
              /\ new[i].subject = episode[i].subject /\ new[i].type = episode[i].type
              /\ new[i].status = IF i \in ids THEN "retracted" ELSE episode[i].status
    BY <1>a, RestatusRows, LenProperties DEF Ids
  <1> HIDE DEF n, new
  <1>2. /\ \A i \in Ids : new[i].status \in MovesTo(episode[i].status)
        /\ \A i \in Ids : episode[i].status = "retracted" => new[i].status = "retracted"
    BY <1>1, Moves
  <1>3. ActiveIn(new) = Active \ ids
    BY <1>1 DEF ActiveIn, Active
  <1>4. \A i \in Ids : KeyIn(new, i) = KeyIn(episode, i)
    BY <1>1 DEF KeyIn
  <1>5. AtMostOne(episode, doubled) => AtMostOne(new, doubled)
    BY <1>1, <1>3, <1>4 DEF AtMostOne, Active, ActiveIn
  <1>6. Replaced(new)
    BY <1>1 DEF Replaced
  <1> QED BY <1>1, <1>2, <1>3, <1>5, <1>6 DEF RowsKept, n, new

LEMMA ApproveKeeps ==
  ASSUME episode \in Seq(Row), NEW i \in Ids, episode[i].status = "pending"
  PROVE  LET new == Restatus(episode, {i}, "active")
         IN  /\ RowsKept(new, doubled \cup {Key(i) : j \in {k \in Active : Key(k) = Key(i)}})
             /\ Replaced(new) /\ Len(new) = Len(episode)
             /\ \A k \in Ids : episode[k].status = "retracted" => new[k].status = "retracted"
  <1> DEFINE n == Len(episode)
             new == Restatus(episode, {i}, "active")
             kept == doubled \cup {Key(i) : j \in {k \in Active : Key(k) = Key(i)}}
  <1>a. "active" \in Statuses
    BY DEF Statuses
  <1>1. /\ n \in Nat /\ Ids = 1 .. n /\ DOMAIN episode = 1 .. n
        /\ new \in Seq(Row) /\ Len(new) = n /\ DOMAIN new = 1 .. n
        /\ \A k \in 1 .. n :
              /\ new[k].subject = episode[k].subject /\ new[k].type = episode[k].type
              /\ new[k].status = IF k = i THEN "active" ELSE episode[k].status
    BY <1>a, RestatusRows, LenProperties DEF Ids
  <1> HIDE DEF n, new
  <1>2. /\ \A k \in Ids : new[k].status \in MovesTo(episode[k].status)
        /\ \A k \in Ids : episode[k].status = "retracted" => new[k].status = "retracted"
    BY <1>1, Moves
  <1>3. ActiveIn(new) = Active \cup {i} /\ Active = ActiveIn(episode)
    BY <1>1 DEF ActiveIn, Active
  <1>4. \A k \in Ids : KeyIn(new, k) = Key(k) /\ KeyIn(episode, k) = Key(k)
    BY <1>1 DEF KeyIn, Key
  <1>5. ASSUME AtMostOne(episode, doubled), NEW k \in ActiveIn(new), NEW j \in ActiveIn(new),
               KeyIn(new, k) = KeyIn(new, j), KeyIn(new, k) \notin kept
        PROVE  k = j
    <2>1. k \in Ids /\ j \in Ids /\ Key(k) = Key(j) /\ Key(k) \notin kept
      BY <1>1, <1>4, <1>5 DEF ActiveIn
    <2>2. CASE k \in Active /\ j \in Active
      BY <1>3, <1>4, <1>5, <2>1, <2>2 DEF AtMostOne
    <2>3. ASSUME k = i \/ j = i, k # j
          PROVE  FALSE
      <3>1. PICK o \in Active : Key(o) = Key(i) /\ Key(i) = Key(k)
        BY <1>3, <1>5, <2>1, <2>3
      <3> QED BY <2>1, <3>1
    <2> QED BY <1>3, <1>5, <2>2, <2>3
  <1>6. Replaced(new)
    BY <1>1 DEF Replaced
  <1> HIDE DEF kept
  <1>7. RowsKept(new, kept)
    BY <1>1, <1>2, <1>5 DEF RowsKept, AtMostOne, n
  <1> QED BY <1>1, <1>2, <1>6, <1>7 DEF n, new, kept

LEMMA ReactivateKeeps ==
  ASSUME episode \in Seq(Row), NEW i \in Ids
  PROVE  LET new == Reactivated(i)
         IN  /\ RowsKept(new, doubled \ {Key(i)}) /\ Len(new) = Len(episode)
             /\ episode[i].status = "retracted" => Replaced(new)
             /\ \A k \in Ids \ {i} :
                   episode[k].status = "retracted" => new[k].status = "retracted"
  <1> DEFINE n == Len(episode)
             new == Reactivated(i)
             kept == doubled \ {Key(i)}
  <1>1. /\ n \in Nat /\ Ids = 1 .. n /\ DOMAIN episode = 1 .. n
        /\ new \in Seq(Row) /\ Len(new) = n /\ DOMAIN new = 1 .. n
        /\ \A k \in 1 .. n :
              /\ new[k].subject = episode[k].subject /\ new[k].type = episode[k].type
              /\ new[k].status =
                    IF k = i /\ episode[i].status = "retracted" THEN "active"
                    ELSE IF Key(k) = Key(i) /\ episode[k].status = "active" THEN "superseded"
                    ELSE episode[k].status
    BY ReactivatedRows, LenProperties DEF Ids
  <1> HIDE DEF n, new
  <1>2. /\ \A k \in Ids : new[k].status \in MovesTo(episode[k].status)
        /\ \A k \in Ids \ {i} : episode[k].status = "retracted" => new[k].status = "retracted"
    BY <1>1, Moves
  <1>3. \A k \in Ids : KeyIn(new, k) = Key(k) /\ KeyIn(episode, k) = Key(k)
    BY <1>1 DEF KeyIn, Key
  <1>4. ASSUME AtMostOne(episode, doubled), NEW k \in ActiveIn(new), NEW j \in ActiveIn(new),
               KeyIn(new, k) = KeyIn(new, j), KeyIn(new, k) \notin kept
        PROVE  k = j
    <2>1. /\ k \in 1 .. n /\ j \in 1 .. n /\ Key(k) = Key(j) /\ Key(k) \notin kept
          /\ new[k].status = "active" /\ new[j].status = "active"
      BY <1>1, <1>3, <1>4 DEF ActiveIn
    <2>2. CASE Key(k) = Key(i)
      BY <1>1, <2>1, <2>2
    <2>3. CASE Key(k) # Key(i)
      <3>1. episode[k].status = "active" /\ episode[j].status = "active"
        BY <1>1, <2>1, <2>3
      <3> QED BY <1>1, <1>3, <1>4, <2>1, <2>3, <3>1 DEF AtMostOne, ActiveIn
    <2> QED BY <2>2, <2>3
  <1>5. ASSUME episode[i].status = "retracted"
        PROVE  Replaced(new)
    <2> SUFFICES ASSUME NEW k \in Ids, episode[k].status = "active",
                        new[k].status = "superseded"
                 PROVE  \E j \in DOMAIN new : new[j].status = "active" /\ KeyIn(new, j) = Key(k)
      BY DEF Replaced
    <2>1. Key(k) = Key(i) /\ new[i].status = "active"
      BY <1>1, <1>5
    <2> QED BY <1>1, <1>3, <2>1
  <1> QED BY <1>1, <1>2, <1>4, <1>5 DEF RowsKept, AtMostOne, n, new

\* A transaction keeps the rows, whatever it does.
LEMMA RowStepKeeps ==
  ASSUME episode \in Seq(Row), NEW new, NEW kept, RowStep(new, kept)
  PROVE  RowsKept(new, kept)
  <1>1. ASSUME NEW s \in Subjects, NEW ty \in Types, NEW status \in {"active", "pending"},
               new = Inserted(s, ty, status),
               kept = IF status = "active" THEN doubled \ {<<s, ty>>} ELSE doubled
        PROVE  RowsKept(new, kept)
    BY <1>1, InsertKeeps
  <1>2. ASSUME NEW ids \in SUBSET Ids, \A i \in ids : episode[i].status \in {"active", "pending"},
               new = Restatus(episode, ids, "retracted"), kept = doubled
        PROVE  RowsKept(new, kept)
    BY <1>2, RetractKeeps
  <1>3. ASSUME NEW i \in Ids, episode[i].status = "pending",
               new = Restatus(episode, {i}, "active"),
               kept = doubled \cup {Key(i) : j \in {k \in Active : Key(k) = Key(i)}}
        PROVE  RowsKept(new, kept)
    BY <1>3, ApproveKeeps
  <1>4. ASSUME NEW i \in Ids, new = Reactivated(i), kept = doubled \ {Key(i)}
        PROVE  RowsKept(new, kept)
    BY <1>4, ReactivateKeeps
  <1>5. CASE \E s \in Subjects, ty \in Types :
               new = Inserted(s, ty, "active") /\ kept = doubled \ {<<s, ty>>}
    BY <1>1, <1>5
  <1>6. CASE \E s \in Subjects, ty \in Types : new = Inserted(s, ty, "pending") /\ kept = doubled
    BY <1>1, <1>6
  <1> QED BY <1>2, <1>3, <1>4, <1>5, <1>6 DEF RowStep

-----------------------------------------------------------------------------
(* Steps that write rows                                                   *)

Writes(t) ==
    \/ t \in Turns /\ \/ \E s \in Subjects, ty \in Types : Remember(t, s, ty) \/ Extract(t, s, ty)
                      \/ RetractById(t) /\ job[t].id \in Active
                      \/ \E ty \in Types : RetractType(t, ty)
                            /\ {i \in Active : Key(i) = <<job[t].subject, ty>>} # {}
    \/ t \in Requests /\ \/ \E i \in Ids : Approve(t, i) \/ Reject(t, i)
                         \/ Reactivate(t) \/ ReactivateLate(t)

\* Thread t reactivates row i, which another request has reactivated before.
CameLate(t, i) ==
    /\ t \in Requests /\ At(t, "reactivate") /\ job[t].id = i
    /\ episode[i].status # "retracted"

\* A transaction that leaves `new`, and what it says of MEMORY.md: it starts a
\* rewrite, which may be one of several, or makes none.
Writing(t, new, r) ==
    /\ Transact(t, new, r)
    /\ torn' = IF r.todo = <<>> THEN torn \/ new # episode
               ELSE \E u \in Threads \ {t} : RewritesMd(u)

\* Thread t goes on as r after a transaction that leaves `new`: with the whole
\* rewrite of MEMORY.md, unless a reactivation found its row changed, and with
\* the clearing of the cache, unless the cache is known to miss the change.
Written(t, new, r) ==
    /\ RowStep(new, doubled') /\ Len(new) <= MaxRow /\ doubled' \subseteq Subjects \X Types
    /\ r \in JobOf(Len(new)) /\ Shape(r.todo)
    /\ r.todo # <<>> => Head(r.todo) = "select"
    /\ In(job[t].todo, "clear") => In(r.todo, "clear")
    /\ late' \in BOOLEAN /\ (late => late')
    /\ ActiveIn(new) = Active \/ In(r.todo, "clear") \/ late' \/ ~cache.valid
    /\ IF r.todo = <<>> THEN \E i \in Ids : CameLate(t, i) /\ new = Reactivated(i)
       ELSE Replaced(new)

\* The steps a writing thread goes on with.
LEMMA ShapeAfterWrite ==
  ASSUME NEW r, \/ r = <<"clear", "link", "recall">> \/ r = <<"clear">> \/ r = <<"clear", "link">>
                \/ r = <<"link">>
  PROVE  /\ Shape(MdSteps \o r) /\ Head(MdSteps \o r) = "select" /\ MdSteps \o r # <<>>
         /\ MdSteps \o r \in Seq(Steps)
         /\ r # <<"link">> => In(MdSteps \o r, "clear")
  <1>1. CASE r = <<"clear", "link", "recall">>
    <2>1. Shape(r) /\ \A step : In(r, step) <=> step \in {"clear", "link", "recall"}
      BY <1>1, ShapeThree
    <2> HIDE <1>1
    <2> QED BY <2>1, ShapeMd
  <1>2. CASE r = <<"clear">>
    <2>1. Shape(r) /\ \A step : In(r, step) <=> step = "clear"
      BY <1>2, ShapeOne
    <2> QED BY <2>1, ShapeMd
  <1>3. CASE r = <<"clear", "link">>
    <2>1. Shape(r) /\ \A step : In(r, step) <=> step = "clear" \/ step = "link"
      BY <1>3, ShapeTwo
    <2> QED BY <2>1, ShapeMd
  <1>4. CASE r = <<"link">>
    <2>1. Shape(r) /\ \A step : In(r, step) <=> step = "link"
      BY <1>4, ShapeOne
    <2> QED BY <1>4, <2>1, ShapeMd
  <1> QED BY <1>1, <1>2, <1>3, <1>4

LEMMA ShapeMdAlone ==
  Shape(MdSteps) /\ Head(MdSteps) = "select" /\ MdSteps # <<>> /\ MdSteps \in Seq(Steps)
  <1> DEFINE h == MdSteps
  <1>1. h \in Seq(Steps) /\ Len(h) = 2 /\ h[1] = "select" /\ h[2] = "file"
    BY DEF MdSteps, Steps
  <1> HIDE DEF h
  <1>2. \A n \in 1 .. Len(h) : n = 1 \/ n = 2
    BY <1>1
  <1>3. Shape(h) /\ h # <<>> /\ Head(h) = "select"
    BY <1>1, <1>2, EmptySeq DEF Shape
  <1> QED BY <1>1, <1>3 DEF h

LEMMA WritesWrite ==
  ASSUME IInv, NEW t \in Threads, Writes(t)
  PROVE  /\ UNCHANGED <<memoryMd, cache>>
         /\ \E new, r : Writing(t, new, r) /\ Written(t, new, r)
  <1> DEFINE p == job[t].todo
             q == Tail(job[t].todo)
             G == \E new, r : Writing(t, new, r) /\ Written(t, new, r)
  <1>1. /\ Len(episode) \in Nat /\ Ids = 1 .. Len(episode) /\ Active \subseteq Ids
        /\ job[t] \in JobOf(Len(episode)) /\ Shape(p) /\ episode \in Seq(Row)
        /\ doubled \subseteq Subjects \X Types /\ late \in BOOLEAN /\ cache.valid \in BOOLEAN
        /\ Len(episode) <= MaxRow /\ MaxRow \in Nat
    BY TypeOKDef, LenProperties, LimitsAssumption DEF IInv, Ids, Active, ActiveIn, Shaped
  <1>2. Idle(t) => p = <<>> /\ \A step : ~In(p, step)
    BY ShapeEmpty DEF Idle
  <1>3. ASSUME NEW step, At(t, step)
        PROVE  ~Idle(t) /\ Head(p) = step
    BY <1>3 DEF At
  <1>4. ~Idle(t) =>
          /\ Done(t) \in JobOf(Len(episode)) /\ Done(t).todo = q /\ Shape(q)
          /\ \A step : In(p, step) <=> Head(p) = step \/ In(q, step)
          /\ Head(p) = "retract" => In(q, "clear")
          /\ Head(p) \in {"extract", "reactivate"} => q = <<>>
          /\ ~In(q, "select") /\ ~In(q, "store") /\ ~In(q, "reactivate")
          /\ Head(p) # "select" => ~In(q, "file")
    BY DoneJob
  <1> HIDE DEF p, q
  <1>5. \A n \in Nat : IdleJob \in JobOf(n) /\ IdleJob.todo = <<>>
    BY IdleJobType
  <1>a. ASSUME NEW new, NEW r, Commit(t, new, r), r.todo # <<>>
        PROVE  Writing(t, new, r)
    BY <1>a DEF Commit, Writing
  <1>6. ASSUME NEW s \in Subjects, NEW ty \in Types, Remember(t, s, ty) PROVE G
    <2> DEFINE todo == MdSteps \o <<"clear", "link", "recall">>
               r == [IdleJob EXCEPT !.id = Len(episode) + 1, !.todo = todo]
               new == Inserted(s, ty, "active")
    <2>1. /\ Idle(t) /\ Len(episode) < MaxRow /\ Commit(t, new, r)
          /\ doubled' = doubled \ {<<s, ty>>} /\ late' = late
      BY <1>6 DEF Remember
    <2>2. /\ Shape(todo) /\ Head(todo) = "select" /\ todo # <<>> /\ todo \in Seq(Steps)
          /\ In(todo, "clear")
      BY ShapeAfterWrite
    <2> HIDE DEF todo
    <2>3. RowStep(new, doubled')
      BY <2>1 DEF RowStep
    <2>4. /\ Len(new) = Len(episode) + 1
          /\ Replaced(new)
      <3>1. "active" \in {"active", "pending"}
        OBVIOUS
      <3>2. Len(new) = Len(episode) + 1
        BY <1>1, <3>1, InsertedRows
      <3> QED BY <1>1, <3>1, <3>2, InsertKeeps
    <2> HIDE DEF new
    <2>5. r \in JobOf(Len(new)) /\ r.todo = todo
      <3>1. IdleJob \in JobOf(Len(new)) /\ Len(episode) + 1 \in 0 .. Len(new)
        BY <1>1, <1>5, <2>4
      <3> QED BY <2>2, <3>1 DEF JobOf
    <2> HIDE DEF r
    <2>6. Written(t, new, r)
      BY <1>1, <1>2, <2>1, <2>2, <2>3, <2>4, <2>5 DEF Written, p
    <2> QED BY <1>a, <2>1, <2>2, <2>5, <2>6
  <1>7. ASSUME NEW s \in Subjects, NEW ty \in Types, Extract(t, s, ty) PROVE G
    <2> DEFINE rest == IF Gate THEN <<"clear">> ELSE <<"clear", "link">>
               todo == MdSteps \o rest
               r == [IdleJob EXCEPT !.id = Len(episode) + 1, !.todo = todo]
               new == Inserted(s, ty, ImplicitStatus)
    <2>1. /\ Len(episode) < MaxRow /\ Commit(t, new, r)
          /\ doubled' = IF Gate THEN doubled ELSE doubled \ {<<s, ty>>}
          /\ late' = late /\ ~Idle(t) /\ Head(p) = "extract"
      BY <1>3, <1>7 DEF Extract
    <2>2. /\ Shape(todo) /\ Head(todo) = "select" /\ todo # <<>> /\ todo \in Seq(Steps)
          /\ In(todo, "clear")
      <3>1. rest # <<"link">> /\ (rest = <<"clear">> \/ rest = <<"clear", "link">>)
        BY ShapeOne, ShapeTwo
      <3> HIDE DEF rest
      <3> QED BY <3>1, ShapeAfterWrite
    <2> HIDE DEF todo
    <2>3. RowStep(new, doubled')
      BY <2>1 DEF RowStep, ImplicitStatus
    <2>4. /\ Len(new) = Len(episode) + 1
          /\ Replaced(new)
      <3>1. ImplicitStatus \in {"active", "pending"}
        BY DEF ImplicitStatus
      <3>2. Len(new) = Len(episode) + 1
        BY <1>1, <3>1, InsertedRows
      <3> QED BY <1>1, <3>1, <3>2, InsertKeeps
    <2> HIDE DEF new
    <2>5. r \in JobOf(Len(new)) /\ r.todo = todo
      <3>1. IdleJob \in JobOf(Len(new)) /\ Len(episode) + 1 \in 0 .. Len(new)
        BY <1>1, <1>5, <2>4
      <3> QED BY <2>2, <3>1 DEF JobOf
    <2> HIDE DEF r
    <2>6. Written(t, new, r)
      BY <1>1, <2>1, <2>2, <2>3, <2>4, <2>5 DEF Written, p
    <2> QED BY <1>a, <2>1, <2>2, <2>5, <2>6
  <1>8. ASSUME RetractById(t), job[t].id \in Active PROVE G
    <2> DEFINE i == job[t].id
               new == Restatus(episode, {i}, "retracted")
               todo == MdSteps \o q
               r == [Done(t) EXCEPT !.id = 0, !.todo = MdSteps \o @]
    <2>1. /\ ~Idle(t) /\ Head(p) = "retract" /\ doubled' = doubled /\ late' = late
          /\ Commit(t, new, r)
      BY <1>3, <1>8 DEF RetractById
    <2>2. /\ Shape(todo) /\ Head(todo) = "select" /\ todo # <<>> /\ todo \in Seq(Steps)
          /\ In(todo, "clear")
      BY <1>4, <2>1, ShapeMd
    <2>3. /\ RowStep(new, doubled') /\ Len(new) = Len(episode) /\ Replaced(new)
      <3>1. {i} \in SUBSET Ids /\ \A k \in {i} : episode[k].status \in {"active", "pending"}
        BY <1>1, <1>8 DEF Active, ActiveIn
      <3>2. RowStep(new, doubled')
        BY <2>1, <3>1 DEF RowStep
      <3> QED BY <1>1, <3>1, <3>2, RetractKeeps
    <2> HIDE DEF new
    <2>4. r \in JobOf(Len(new)) /\ r.todo = todo
      <3>1. Done(t) \in JobOf(Len(new)) /\ Done(t).todo = q /\ 0 \in 0 .. Len(new)
        BY <1>1, <1>4, <2>1, <2>3
      <3> QED BY <2>2, <3>1 DEF JobOf
    <2> HIDE DEF r, todo
    <2>5. Written(t, new, r)
      BY <1>1, <2>1, <2>2, <2>3, <2>4 DEF Written, p
    <2> QED BY <1>a, <2>1, <2>2, <2>4, <2>5
  <1>9. ASSUME NEW ty \in Types, RetractType(t, ty),
               {i \in Active : Key(i) = <<job[t].subject, ty>>} # {}
        PROVE  G
    <2> DEFINE rows == {i \in Active : Key(i) = <<job[t].subject, ty>>}
               left == job[t].types \ {ty}
               rest == IF left = {} THEN q ELSE p
               new == Restatus(episode, rows, "retracted")
               todo == MdSteps \o rest
               r == [job[t] EXCEPT !.types = left, !.todo = todo]
    <2>1. /\ ~Idle(t) /\ Head(p) = "retract" /\ doubled' = doubled /\ late' = late
          /\ Commit(t, new, r)
      BY <1>3, <1>9 DEF RetractType, p, q
    <2>2. /\ Shape(rest) /\ In(rest, "clear") /\ ~In(rest, "select") /\ ~In(rest, "file")
          /\ ~In(rest, "store") /\ ~In(rest, "reactivate")
      BY <1>1, <1>4, <2>1
    <2> HIDE DEF rest
    <2>3. /\ Shape(todo) /\ Head(todo) = "select" /\ todo # <<>> /\ todo \in Seq(Steps)
          /\ In(todo, "clear")
      BY <2>2, ShapeMd
    <2>4. /\ RowStep(new, doubled') /\ Len(new) = Len(episode) /\ Replaced(new)
      <3>1. rows \in SUBSET Ids /\ \A k \in rows : episode[k].status \in {"active", "pending"}
        BY <1>1 DEF Active, ActiveIn
      <3>2. RowStep(new, doubled')
        BY <2>1, <3>1 DEF RowStep
      <3> QED BY <1>1, <3>1, <3>2, RetractKeeps
    <2> HIDE DEF new, todo
    <2>5. r \in JobOf(Len(new)) /\ r.todo = todo
      BY <1>1, <2>3, <2>4 DEF JobOf
    <2> HIDE DEF r
    <2>6. Written(t, new, r)
      BY <1>1, <2>1, <2>3, <2>4, <2>5 DEF Written, p
    <2> QED BY <1>a, <2>1, <2>3, <2>5, <2>6
  <1>10. ASSUME NEW i \in Ids, Approve(t, i) PROVE G
    <2> DEFINE new == Restatus(episode, {i}, "active")
               todo == MdSteps \o <<"link">>
               r == [IdleJob EXCEPT !.id = i, !.todo = todo]
    <2>1. /\ Idle(t) /\ episode[i].status = "pending" /\ Commit(t, new, r)
          /\ doubled' = doubled \cup {Key(i) : j \in {k \in Active : Key(k) = Key(i)}}
          /\ late' = (late \/ cache.valid)
      BY <1>10 DEF Approve
    <2>2. Shape(todo) /\ Head(todo) = "select" /\ todo # <<>> /\ todo \in Seq(Steps)
      BY ShapeAfterWrite
    <2> HIDE DEF todo
    <2>3. RowStep(new, doubled')
      BY <2>1 DEF RowStep
    <2>4. /\ Len(new) = Len(episode) /\ Replaced(new)
      BY <1>1, <2>1, ApproveKeeps
    <2> HIDE DEF new
    <2>5. r \in JobOf(Len(new)) /\ r.todo = todo
      <3>1. IdleJob \in JobOf(Len(new)) /\ i \in 0 .. Len(new)
        BY <1>1, <1>5, <2>4
      <3> QED BY <2>2, <3>1 DEF JobOf
    <2> HIDE DEF r
    <2>6. doubled' \subseteq Subjects \X Types
      <3>1. episode[i] \in Row
        BY <1>1, ElementOfSeq
      <3>2. Key(i) \in Subjects \X Types
        BY <3>1 DEF Key, Row
      <3> QED BY <1>1, <2>1, <3>2
    <2>7. Written(t, new, r)
      BY <1>1, <1>2, <2>1, <2>2, <2>3, <2>4, <2>5, <2>6 DEF Written, p
    <2> QED BY <1>a, <2>1, <2>2, <2>5, <2>7
  <1>11. ASSUME NEW i \in Ids, Reject(t, i) PROVE G
    <2> DEFINE new == Restatus(episode, {i}, "retracted")
               r == [IdleJob EXCEPT !.todo = MdSteps]
    <2>1. /\ Idle(t) /\ episode[i].status = "pending" /\ Commit(t, new, r)
          /\ doubled' = doubled /\ late' = late
      BY <1>11 DEF Reject
    <2>2. /\ RowStep(new, doubled') /\ Len(new) = Len(episode) /\ Replaced(new)
          /\ ActiveIn(new) = Active
      <3>1. {i} \in SUBSET Ids /\ \A k \in {i} : episode[k].status \in {"active", "pending"}
        BY <2>1
      <3>2. RowStep(new, doubled')
        BY <2>1, <3>1 DEF RowStep
      <3>3. i \notin Active
        BY <2>1 DEF Active, ActiveIn
      <3>4. /\ Len(new) = Len(episode) /\ Replaced(new) /\ ActiveIn(new) = Active \ {i}
          BY <1>1, <3>1, RetractKeeps
      <3> HIDE DEF new
      <3> QED BY <3>2, <3>3, <3>4
    <2> HIDE DEF new
    <2>3. r \in JobOf(Len(new)) /\ r.todo = MdSteps
      BY <1>1, <1>5, <2>2, ShapeMdAlone DEF JobOf
    <2> HIDE DEF r
    <2>4. Written(t, new, r)
      BY <1>1, <1>2, <2>1, <2>2, <2>3, ShapeMdAlone DEF Written, p
    <2> QED BY <1>a, <2>1, <2>3, <2>4, ShapeMdAlone
  <1>12. ASSUME Reactivate(t) PROVE G
    <2> DEFINE i == job[t].id
               new == Reactivated(i)
               todo == MdSteps \o <<"link">>
               r == [job[t] EXCEPT !.todo = todo]
    <2>1. /\ At(t, "reactivate") /\ episode[i].status = "retracted" /\ Commit(t, new, r)
          /\ doubled' = doubled \ {Key(i)} /\ late' = (late \/ cache.valid)
      BY <1>12 DEF Reactivate
    <2>2. Shape(todo) /\ Head(todo) = "select" /\ todo # <<>> /\ todo \in Seq(Steps)
      BY ShapeAfterWrite
    <2> HIDE DEF todo
    <2>3. i \in Ids
      BY <1>1, <2>1 DEF IInv, Found, JobOf
    <2>4. RowStep(new, doubled')
      BY <2>1, <2>3 DEF RowStep
    <2>5. Len(new) = Len(episode) /\ Replaced(new)
      BY <1>1, <2>1, <2>3, ReactivateKeeps
    <2> HIDE DEF new
    <2>6. r \in JobOf(Len(new)) /\ r.todo = todo
      BY <1>1, <2>2, <2>5 DEF JobOf
    <2>7. ~In(p, "clear")
      BY <1>3, <1>4, <2>1, ShapeEmpty
    <2> HIDE DEF r, i
    <2>8. Written(t, new, r)
      BY <1>1, <2>1, <2>2, <2>4, <2>5, <2>6, <2>7 DEF Written, p
    <2> QED BY <1>a, <2>1, <2>2, <2>6, <2>8
  <1>13. ASSUME t \in Requests, ReactivateLate(t) PROVE G
    <2> DEFINE i == job[t].id
               new == Reactivated(i)
    <2>1. /\ At(t, "reactivate") /\ episode[i].status # "retracted"
          /\ Transact(t, new, IdleJob) /\ torn' = (torn \/ new # episode)
          /\ doubled' = doubled \ {Key(i)} /\ late' = (late \/ cache.valid)
      BY <1>13 DEF ReactivateLate
    <2>2. i \in Ids
      BY <1>1, <2>1 DEF IInv, Found, JobOf
    <2>3. RowStep(new, doubled')
      BY <2>1, <2>2 DEF RowStep
    <2>4. Len(new) = Len(episode)
      BY <1>1, <2>2, ReactivateKeeps
    <2>5. IdleJob \in JobOf(Len(new)) /\ IdleJob.todo = <<>> /\ Shape(IdleJob.todo)
      BY <1>1, <1>5, <2>4, ShapeEmpty
    <2>6. ~In(p, "clear")
      BY <1>3, <1>4, <2>1, ShapeEmpty
    <2>7. \E k \in Ids : CameLate(t, k) /\ new = Reactivated(k)
      BY <1>13, <2>1, <2>2 DEF CameLate
    <2> HIDE DEF new, i
    <2>8. Written(t, new, IdleJob)
      BY <1>1, <2>1, <2>3, <2>4, <2>5, <2>6, <2>7 DEF Written, p
    <2>9. Writing(t, new, IdleJob)
      BY <2>1, <2>5 DEF Writing
    <2> QED BY <2>8, <2>9
  <1>14. UNCHANGED <<memoryMd, cache>>
    BY DEF Writes, Remember, Extract, RetractById, RetractType, Approve, Reject, Reactivate,
           ReactivateLate
  <1> QED BY <1>6, <1>7, <1>8, <1>9, <1>10, <1>11, <1>12, <1>13, <1>14 DEF Writes

\* What a transaction does to the other threads.
LEMMA WritingOthers ==
  ASSUME IInv, NEW t \in Threads, NEW new, NEW r, Writing(t, new, r), Written(t, new, r)
  PROVE  /\ RowsKept(new, doubled') /\ episode' = new
         /\ job' \in [Threads -> JobOf(Len(new))] /\ job'[t] = r
         /\ \A u \in Threads \ {t} :
               /\ job'[u].todo = job[u].todo /\ job'[u].id = job[u].id /\ job'[u].ids = job[u].ids
               /\ job'[u].raced <=> job[u].raced \/ (At(u, "store") /\ ActiveIn(new) # Active)
  <1>1. /\ episode \in Seq(Row) /\ job \in [Threads -> JobOf(Len(episode))]
    BY TypeOKDef DEF IInv
  <1>2. RowsKept(new, doubled')
    BY <1>1, RowStepKeeps DEF Written
  <1>3. Len(episode) \in Nat /\ Len(new) \in Nat /\ Len(episode) <= Len(new)
    BY <1>1, <1>2, LenProperties DEF RowsKept
  <1>4. ASSUME NEW u \in Threads \ {t}
        PROVE  /\ job'[u] \in JobOf(Len(new))
               /\ job'[u].todo = job[u].todo /\ job'[u].id = job[u].id /\ job'[u].ids = job[u].ids
               /\ job'[u].raced <=> job[u].raced \/ (At(u, "store") /\ ActiveIn(new) # Active)
    <2>1. job[u] \in JobOf(Len(new))
      <3>1. 0 .. Len(episode) \subseteq 0 .. Len(new) /\ 1 .. Len(episode) \subseteq 1 .. Len(new)
        BY <1>3
      <3>2. job[u] \in JobOf(Len(episode))
        BY <1>1
      <3> QED BY <3>1, <3>2 DEF JobOf
    <2> DEFINE raced == job[u].raced \/ (At(u, "store") /\ ActiveIn(new) # Active)
    <2>2. raced \in BOOLEAN
      OBVIOUS
    <2>3. job'[u] = [job[u] EXCEPT !.raced = raced]
      BY DEF Writing, Transact
    <2> HIDE DEF raced
    <2>4. /\ job'[u] \in JobOf(Len(new)) /\ job'[u].raced = raced
          /\ job'[u].todo = job[u].todo /\ job'[u].id = job[u].id /\ job'[u].ids = job[u].ids
      BY <2>1, <2>2, <2>3 DEF JobOf
    <2> QED BY <2>4 DEF raced
  <1>5. job'[t] = r /\ r \in JobOf(Len(new)) /\ episode' = new
    BY DEF Writing, Transact, Written
  <1>6. job' \in [Threads -> JobOf(Len(new))]
    <2>1. job' = [u \in Threads |-> job'[u]]
      BY DEF Writing, Transact
    <2>2. \A u \in Threads : job'[u] \in JobOf(Len(new))
      BY <1>4, <1>5
    <2> QED BY <2>1, <2>2
  <1> QED BY <1>2, <1>4, <1>5, <1>6

LEMMA WritingIInv ==
  ASSUME IInv, NEW t \in Threads, NEW new, NEW r, Writing(t, new, r), Written(t, new, r),
         UNCHANGED <<memoryMd, cache>>
  PROVE  IInv'
  <1>1. /\ RowsKept(new, doubled') /\ episode' = new
        /\ job' \in [Threads -> JobOf(Len(new))] /\ job'[t] = r
        /\ \A u \in Threads \ {t} :
              /\ job'[u].todo = job[u].todo /\ job'[u].id = job[u].id /\ job'[u].ids = job[u].ids
              /\ job'[u].raced <=> job[u].raced \/ (At(u, "store") /\ ActiveIn(new) # Active)
    BY WritingOthers
  <1>2. /\ \A step : /\ At(t, step)' <=> r.todo # <<>> /\ Head(r.todo) = step
                     /\ Has(t, step)' <=> In(r.todo, step)
        /\ \A u \in Threads \ {t} : \A step : /\ At(u, step)' <=> At(u, step)
                                              /\ Has(u, step)' <=> Has(u, step)
    BY <1>1, JobAfter
  <1>3. episode \in Seq(Row) /\ Len(episode) \in Nat /\ Len(new) \in Nat /\ Len(episode) <= Len(new)
    BY <1>1, TypeOKDef, LenProperties DEF IInv, RowsKept
  <1>4. ASSUME ActiveIn(new) = Active
        PROVE  ByRecency' = ByRecency
    <2>1. \A i \in Active : episode'[i].type = episode[i].type
      BY <1>1, <1>3 DEF RowsKept, Active, ActiveIn, Ids
    <2> QED BY <1>1, <1>3, <1>4, <2>1, SameRecency
  <1>5. TypeOK'
    <2>1. Ids \subseteq Ids'
      BY <1>1, <1>3 DEF Ids
    <2>2. memoryMd' \subseteq Ids' /\ cache' \in [valid : BOOLEAN, ids : SUBSET Ids']
          /\ Cardinality(cache'.ids) <= RecencyLimit
      BY <2>1, TypeOKDef DEF IInv
    <2>3. torn' \in BOOLEAN /\ late' \in BOOLEAN /\ doubled' \subseteq Subjects \X Types
      BY DEF Writing, Transact, Written
    <2>4. episode' \in Seq(Row) /\ Len(episode') <= MaxRow
             /\ job' \in [Threads -> JobOf(Len(episode'))]
      BY <1>1 DEF RowsKept, Written
    <2>5. Ids' \cup {0} = 0 .. Len(episode') /\ Ids' = 1 .. Len(episode')
      BY <1>1, <1>3 DEF Ids
    <2> QED BY <2>2, <2>3, <2>4, <2>5 DEF TypeOK, JobOf, Row
  <1>6. Shaped'
    BY <1>1 DEF IInv, Shaped, Written
  <1>7. Found'
    BY <1>1, <1>2 DEF IInv, Found, Written
  <1>8. StoreRead'
    <2> SUFFICES ASSUME NEW u \in Threads, At(u, "store")'
                 PROVE  /\ Cardinality(job'[u].ids) <= RecencyLimit
                        /\ ~job'[u].raced => job'[u].ids \in ByRecency'
      BY DEF StoreRead
    <2>1. u # t
      BY <1>2 DEF Written
    <2>2. At(u, "store")
      BY <1>2, <2>1
    <2>3. /\ Cardinality(job[u].ids) <= RecencyLimit
          /\ ~job[u].raced => job[u].ids \in ByRecency
      BY <2>2 DEF IInv, StoreRead
    <2> QED BY <1>1, <1>4, <2>1, <2>2, <2>3
  <1>9. CacheRead'
    <2> SUFFICES ASSUME cache.valid, ~late'
                 PROVE  cache.ids \in ByRecency' \/ \E u \in Threads : Has(u, "clear")'
      BY DEF CacheRead
    <2>1. \/ ActiveIn(new) = Active
          \/ In(r.todo, "clear")
      BY DEF Written
    <2>2. cache.ids \in ByRecency \/ \E u \in Threads : Has(u, "clear")
      BY DEF IInv, CacheRead, Written
    <2>3. Has(t, "clear") => In(r.todo, "clear")
      BY DEF Written, Has, In
    <2> QED BY <1>2, <1>4, <2>1, <2>2, <2>3
  <1> QED BY <1>5, <1>6, <1>7, <1>8, <1>9 DEF IInv

LEMMA WritingSInv ==
  ASSUME SInv, NEW t \in Threads, NEW new, NEW r,
         Writing(t, new, r), Written(t, new, r), UNCHANGED <<memoryMd, cache>>
  PROVE  SInv'
  <1> IInv
    BY DEF SInv
  <1>1. /\ RowsKept(new, doubled') /\ episode' = new
        /\ job' \in [Threads -> JobOf(Len(new))] /\ job'[t] = r
        /\ \A u \in Threads \ {t} :
              /\ job'[u].todo = job[u].todo /\ job'[u].id = job[u].id /\ job'[u].ids = job[u].ids
              /\ job'[u].raced <=> job[u].raced \/ (At(u, "store") /\ ActiveIn(new) # Active)
    BY WritingOthers
  <1>2. /\ \A step : /\ At(t, step)' <=> r.todo # <<>> /\ Head(r.todo) = step
                     /\ Has(t, step)' <=> In(r.todo, step)
        /\ \A u \in Threads \ {t} : \A step : /\ At(u, step)' <=> At(u, step)
                                              /\ Has(u, step)' <=> Has(u, step)
    BY <1>1, JobAfter
  <1>3. IInv'
    BY WritingIInv
  <1>4. CASE r.todo # <<>>
    <2> SUFFICES ASSUME ~torn'
                 PROVE  /\ \A u, v \in Threads : RewritesMd(u)' /\ RewritesMd(v)' => u = v
                        /\ \A u \in Threads : At(u, "file")' => job'[u].ids = Active'
                        /\ RewritesMd(t)'
      BY <1>3 DEF OneRewrite, SInv
    <2>1. \A u \in Threads \ {t} : ~RewritesMd(u)
      BY <1>4 DEF Writing
    <2>2. \A u \in Threads \ {t} : ~RewritesMd(u)'
      BY <1>2, <2>1 DEF RewritesMd
    <2>3. Head(r.todo) = "select" /\ Shape(r.todo)
      BY <1>4 DEF Written
    <2>4. ASSUME NEW u \in Threads, At(u, "file")'
          PROVE  FALSE
      <3>1. u # t
        BY <1>2, <2>3, <2>4
      <3>2. At(u, "file") /\ Shape(job[u].todo)
        BY <1>2, <2>4, <3>1 DEF IInv, Shaped
      <3>3. In(job[u].todo, "file")
        BY <3>2, ShapeTail DEF At, Idle
      <3> QED BY <2>1, <3>1, <3>3 DEF RewritesMd, Has, In
    <2>5. In(r.todo, "file")
      <3>1. Tail(r.todo) # <<>> /\ Head(Tail(r.todo)) = "file" /\ Shape(Tail(r.todo))
        BY <1>4, <2>3, ShapeTail
      <3>2. In(Tail(r.todo), "file")
        BY <3>1, ShapeTail
      <3> QED BY <1>4, <2>3, <3>1, <3>2, ShapeTail
    <2>6. RewritesMd(t)'
      BY <1>2, <2>5 DEF RewritesMd
    <2> QED BY <2>2, <2>4, <2>6
  <1>5. CASE r.todo = <<>>
    <2> SUFFICES ASSUME ~torn' PROVE OneRewrite'
      BY <1>3 DEF SInv, OneRewrite
    <2>1. ~torn /\ new = episode
      BY <1>5, TypeOKDef DEF Writing, IInv
    <2>2. Active' = Active
      BY <1>1, <2>1 DEF Active
    <2>3. ~In(r.todo, "file") /\ ~At(t, "file")'
      BY <1>2, <1>5, ShapeEmpty
    <2>4. ~RewritesMd(t)
      <3>1. At(t, "reactivate") /\ Shape(job[t].todo)
        BY <1>5 DEF Written, CameLate, IInv, Shaped
      <3>2. ~Idle(t) /\ Head(job[t].todo) = "reactivate"
        BY <3>1 DEF At
      <3>3. /\ Tail(job[t].todo) = <<>>
            /\ \A step : In(job[t].todo, step) <=>
                   Head(job[t].todo) = step \/ In(Tail(job[t].todo), step)
        BY <3>2, DoneJob
      <3>4. ~In(job[t].todo, "file")
        BY <3>2, <3>3, ShapeEmpty
      <3> QED BY <3>4 DEF RewritesMd, Has, In
    <2>5. \A u \in Threads : RewritesMd(u)' <=> RewritesMd(u)
      BY <1>2, <2>3, <2>4 DEF RewritesMd
    <2>6. \A u \in Threads : At(u, "file")' => At(u, "file") /\ job'[u].ids = job[u].ids
      BY <1>1, <1>2, <2>3
    <2> QED BY <2>1, <2>2, <2>5, <2>6 DEF SInv, OneRewrite
  <1> QED BY <1>3, <1>4, <1>5 DEF SInv

-----------------------------------------------------------------------------
(* The other steps                                                         *)

\* A thread writes MEMORY.md, stores what it recalled or clears the cache.
Stores(t) == WriteFile(t) \/ WriteFileFails(t) \/ StoreRecall(t) \/ ClearCache(t)

LEMMA StoresDone ==
  ASSUME IInv, NEW t \in Threads, Stores(t)
  PROVE  LET p == job[t].todo
             q == Tail(job[t].todo)
         IN  /\ UNCHANGED <<episode, doubled>> /\ torn' \in {torn, TRUE}
             /\ p # <<>> /\ job'[t] \in JobOf(Len(episode)) /\ job'[t].todo = q
             /\ job' \in [Threads -> JobOf(Len(episode))]
             /\ \A u \in Threads \ {t} : job'[u] = job[u]
             /\ Shape(q) /\ ~In(q, "file") /\ ~In(q, "store") /\ ~In(q, "reactivate")
             /\ \A step : In(p, step) <=> Head(p) = step \/ In(q, step)
             /\ \/ WriteFile(t) /\ Head(p) = "file" /\ UNCHANGED <<cache, late, torn>>
                \/ WriteFileFails(t) /\ Head(p) = "file" /\ UNCHANGED <<cache, late>> /\ torn'
                \/ StoreRecall(t) /\ Head(p) = "store" /\ UNCHANGED <<memoryMd, torn>>
                \/ ClearCache(t) /\ Head(p) = "clear" /\ UNCHANGED <<memoryMd, torn>>
  <1> DEFINE p == job[t].todo
             q == Tail(job[t].todo)
  <1>1. ~Idle(t) /\ Head(p) \in {"file", "store", "clear"}
    BY DEF Stores, WriteFile, WriteFileFails, StoreRecall, ClearCache, At
  <1>2. /\ Done(t) \in JobOf(Len(episode)) /\ Done(t).todo = q
        /\ Shape(q) /\ ~In(q, "file") /\ ~In(q, "store") /\ ~In(q, "reactivate")
        /\ \A step : In(p, step) <=> Head(p) = step \/ In(q, step)
    BY <1>1, DoneJob
  <1>3. job \in [Threads -> JobOf(Len(episode))] /\ Len(episode) \in Nat
    BY TypeOKDef, LenProperties DEF IInv
  <1>4. \E r \in JobOf(Len(episode)) : r.todo = q /\ job' = [job EXCEPT ![t] = r]
    <2>1. [Done(t) EXCEPT !.ids = {}] \in JobOf(Len(episode))
             /\ [Done(t) EXCEPT !.ids = {}].todo = q
      BY <1>2, <1>3, JobIds
    <2> QED BY <1>2, <2>1 DEF Stores, WriteFile, WriteFileFails, StoreRecall, ClearCache
  <1>5. UNCHANGED <<episode, doubled>> /\ torn' \in {torn, TRUE}
    BY DEF Stores, WriteFile, WriteFileFails, StoreRecall, ClearCache, history
  <1>6. \/ WriteFile(t) /\ Head(p) = "file" /\ UNCHANGED <<cache, late, torn>>
        \/ WriteFileFails(t) /\ Head(p) = "file" /\ UNCHANGED <<cache, late>> /\ torn'
        \/ StoreRecall(t) /\ Head(p) = "store" /\ UNCHANGED <<memoryMd, torn>>
        \/ ClearCache(t) /\ Head(p) = "clear" /\ UNCHANGED <<memoryMd, torn>>
    BY DEF Stores, WriteFile, WriteFileFails, StoreRecall, ClearCache, history, At
  <1> HIDE DEF q
  <1> QED BY <1>1, <1>2, <1>3, <1>4, <1>5, <1>6 DEF Idle, q

LEMMA StoresIInv ==
  ASSUME IInv, NEW t \in Threads, Stores(t)
  PROVE  IInv'
  <1> DEFINE p == job[t].todo
             q == Tail(job[t].todo)
  <1>1. /\ UNCHANGED <<episode, doubled>> /\ torn' \in {torn, TRUE}
        /\ p # <<>> /\ job'[t] \in JobOf(Len(episode)) /\ job'[t].todo = q
        /\ job' \in [Threads -> JobOf(Len(episode))]
        /\ \A u \in Threads \ {t} : job'[u] = job[u]
        /\ Shape(q) /\ ~In(q, "file") /\ ~In(q, "store") /\ ~In(q, "reactivate")
        /\ \A step : In(p, step) <=> Head(p) = step \/ In(q, step)
        /\ \/ WriteFile(t) /\ Head(p) = "file" /\ UNCHANGED <<cache, late, torn>>
           \/ WriteFileFails(t) /\ Head(p) = "file" /\ UNCHANGED <<cache, late>> /\ torn'
           \/ StoreRecall(t) /\ Head(p) = "store" /\ UNCHANGED <<memoryMd, torn>>
           \/ ClearCache(t) /\ Head(p) = "clear" /\ UNCHANGED <<memoryMd, torn>>
    BY StoresDone
  <1>2. ByRecency' = ByRecency /\ Active' = Active /\ Ids' = Ids
    BY <1>1 DEF ByRecency, Recent, Active, ActiveIn, Ids
  <1> HIDE DEF p, q
  <1>3. /\ \A step : /\ At(t, step)' <=> q # <<>> /\ Head(q) = step
                     /\ Has(t, step)' <=> In(q, step)
        /\ \A u \in Threads \ {t} : \A step : /\ At(u, step)' <=> At(u, step)
                                              /\ Has(u, step)' <=> Has(u, step)
    BY <1>1, JobAfter
  <1>4. q # <<>> => In(q, Head(q))
    BY <1>1, ShapeTail
  <1>5. /\ job \in [Threads -> JobOf(Len(episode))] /\ cache \in [valid : BOOLEAN, ids : SUBSET Ids]
        /\ Ids = 1 .. Len(episode) /\ memoryMd \subseteq Ids /\ late \in BOOLEAN
        /\ Cardinality(cache.ids) <= RecencyLimit /\ RecencyLimit \in Nat \ {0}
    BY TypeOKDef, LimitsAssumption DEF IInv, Ids
  <1>6. job[t].ids \subseteq Ids /\ job[t].raced \in BOOLEAN
    BY <1>5 DEF JobOf
  <1>7. /\ memoryMd' \subseteq Ids /\ cache' \in [valid : BOOLEAN, ids : SUBSET Ids]
        /\ Cardinality(cache'.ids) <= RecencyLimit /\ late' \in BOOLEAN
    <2>1. CASE (WriteFile(t) \/ WriteFileFails(t)) /\ UNCHANGED <<cache, late>>
      BY <1>5, <1>6, <2>1 DEF WriteFile, WriteFileFails
    <2>2. CASE StoreRecall(t) /\ UNCHANGED memoryMd
      BY <1>5, <1>6, <2>2 DEF StoreRecall, IInv, StoreRead
    <2>3. CASE ClearCache(t) /\ UNCHANGED memoryMd
      <3>1. cache' = [valid |-> FALSE, ids |-> {}] /\ late' = FALSE
        BY <2>3 DEF ClearCache, ClearRecency
      <3>2. Cardinality({}) = 0
        BY FS_EmptySet
      <3>3. /\ cache' \in [valid : BOOLEAN, ids : SUBSET Ids] /\ late' \in BOOLEAN
            /\ Cardinality(cache'.ids) = 0
        BY <3>1, <3>2
      <3>4. memoryMd' \subseteq Ids /\ 0 <= RecencyLimit
        BY <1>5, <2>3
      <3> QED BY <3>3, <3>4
    <2> QED BY <1>1, <2>1, <2>2, <2>3
  <1>8. TypeOK'
    <2>1. /\ episode' \in Seq(Row) /\ Len(episode') <= MaxRow
          /\ doubled' \subseteq Subjects \X Types /\ torn' \in BOOLEAN
          /\ job' \in [Threads -> JobOf(Len(episode'))]
      BY <1>1, TypeOKDef DEF IInv
    <2>2. Ids' \cup {0} = 0 .. Len(episode') /\ Ids' = 1 .. Len(episode')
      BY <2>1, LenProperties DEF Ids
    <2> QED BY <1>2, <1>7, <2>1, <2>2 DEF TypeOK, Row, JobOf
  <1>9. Shaped' /\ Found'
    BY <1>1, <1>3, <1>4 DEF IInv, Shaped, Found
  <1>10. StoreRead'
    BY <1>1, <1>2, <1>3, <1>4 DEF IInv, StoreRead
  <1>11. CacheRead'
    <2>1. CASE Head(p) = "file" /\ UNCHANGED <<cache, late>>
      <3>1. Has(t, "clear") => Has(t, "clear")'
        <4>1. Has(t, "clear") <=> In(p, "clear")
          BY DEF Has, In, p
        <4> QED BY <1>1, <1>3, <2>1, <4>1
      <3>2. \A u \in Threads : Has(u, "clear") => Has(u, "clear")'
        BY <1>3, <3>1
      <3> QED BY <1>2, <2>1, <3>2 DEF IInv, CacheRead
    <2>2. CASE StoreRecall(t)
      BY <1>2, <2>2 DEF IInv, StoreRead, StoreRecall, CacheRead
    <2>3. CASE ClearCache(t)
      BY <2>3 DEF ClearCache, ClearRecency, CacheRead
    <2> QED BY <1>1, <2>1, <2>2, <2>3
  <1> QED BY <1>8, <1>9, <1>10, <1>11 DEF IInv

LEMMA StoresSInv ==
  ASSUME SInv, NEW t \in Threads, Stores(t)
  PROVE  SInv'
  <1> DEFINE p == job[t].todo
             q == Tail(job[t].todo)
  <1> IInv
    BY DEF SInv
  <1>1. /\ UNCHANGED <<episode, doubled>> /\ torn' \in {torn, TRUE}
        /\ p # <<>> /\ job'[t] \in JobOf(Len(episode)) /\ job'[t].todo = q
        /\ \A u \in Threads \ {t} : job'[u] = job[u]
        /\ Shape(q) /\ ~In(q, "file") /\ ~In(q, "store") /\ ~In(q, "reactivate")
        /\ \A step : In(p, step) <=> Head(p) = step \/ In(q, step)
        /\ \/ WriteFile(t) /\ Head(p) = "file" /\ UNCHANGED <<cache, late, torn>>
           \/ WriteFileFails(t) /\ Head(p) = "file" /\ UNCHANGED <<cache, late>> /\ torn'
           \/ StoreRecall(t) /\ Head(p) = "store" /\ UNCHANGED <<memoryMd, torn>>
           \/ ClearCache(t) /\ Head(p) = "clear" /\ UNCHANGED <<memoryMd, torn>>
    BY StoresDone
  <1>2. Active' = Active
    BY <1>1 DEF Active, ActiveIn
  <1> HIDE DEF p, q
  <1>3. /\ \A step : /\ At(t, step)' <=> q # <<>> /\ Head(q) = step
                     /\ Has(t, step)' <=> In(q, step)
        /\ \A u \in Threads \ {t} : \A step : /\ At(u, step)' <=> At(u, step)
                                              /\ Has(u, step)' <=> Has(u, step)
    BY <1>1, JobAfter
  <1>4. q # <<>> => In(q, Head(q))
    BY <1>1, ShapeTail
  <1>6. ~RewritesMd(t)' /\ \A u \in Threads \ {t} : RewritesMd(u)' <=> RewritesMd(u)
    BY <1>1, <1>3 DEF RewritesMd
  <1>7. OneRewrite'
    <2> SUFFICES ASSUME ~torn'
                 PROVE  /\ \A u, v \in Threads : RewritesMd(u)' /\ RewritesMd(v)' => u = v
                        /\ \A u \in Threads : At(u, "file")' => job'[u].ids = Active
                        /\ (\A u \in Threads : ~RewritesMd(u)') => memoryMd' = Active
      BY <1>1, <1>2 DEF OneRewrite
    <2>1. \A u \in Threads : At(u, "file")' => u # t /\ At(u, "file") /\ job'[u].ids = job[u].ids
      BY <1>1, <1>3, <1>4
    <2>2. CASE WriteFile(t) /\ UNCHANGED torn
      <3>1. job[t].ids = Active /\ memoryMd' = job[t].ids
        BY <2>2 DEF SInv, OneRewrite, WriteFile
      <3>2. RewritesMd(t)
        BY <2>2 DEF WriteFile, At, Idle, RewritesMd, Has
      <3> QED BY <1>6, <2>1, <2>2, <3>1, <3>2 DEF SInv, OneRewrite
    <2>3. CASE UNCHANGED <<memoryMd, torn>> /\ Head(p) \in {"store", "clear"}
      <3>1. ~RewritesMd(t)
        BY <1>1, <2>3 DEF RewritesMd, Has, In, p
      <3> QED BY <1>6, <2>1, <2>3, <3>1 DEF SInv, OneRewrite
    <2> QED BY <1>1, <2>2, <2>3
  <1>8. IInv'
    BY StoresIInv
  <1> QED BY <1>7, <1>8 DEF SInv

\* A start retracts the rows it sweeps and forgets every job.
LEMMA StartIInv ==
  ASSUME IInv, NEW n, Start(n), memoryMd' \subseteq Ids, torn' \in BOOLEAN
  PROVE  /\ IInv' /\ RowStep(episode', doubled') /\ Replaced(episode')
         /\ Active' = Active \ Swept(n)
         /\ \A t \in Threads : Idle(t)' /\ \A step : ~At(t, step)' /\ ~Has(t, step)'
  <1>1. /\ episode \in Seq(Row) /\ Len(episode) \in Nat /\ doubled \subseteq Subjects \X Types
        /\ Len(episode) <= MaxRow /\ RecencyLimit \in Nat \ {0}
    BY TypeOKDef, LenProperties, LimitsAssumption DEF IInv
  <1>2. Swept(n) \in SUBSET Ids /\ \A i \in Swept(n) : episode[i].status \in {"active", "pending"}
    BY <1>1, LenProperties DEF Swept, Active, ActiveIn, Ids
  <1>3. /\ RowsKept(episode', doubled) /\ Replaced(episode') /\ Len(episode') = Len(episode)
        /\ ActiveIn(episode') = Active \ Swept(n)
    BY <1>1, <1>2, RetractKeeps DEF Start
  <1>4. RowStep(episode', doubled')
    BY <1>2 DEF RowStep, Start
  <1>5. \A t \in Threads : job'[t] = IdleJob
    BY DEF Start
  <1>6. \A t \in Threads : Idle(t)' /\ \A step : ~At(t, step)' /\ ~Has(t, step)'
    BY <1>1, <1>5, IdleJobType, ShapeEmpty DEF Idle, At, Has, In
  <1>7. Ids' = Ids /\ Ids = 1 .. Len(episode)
    BY <1>3 DEF Ids
  <1>8. TypeOK'
    <2>1. job' \in [Threads -> JobOf(Len(episode'))]
      BY <1>1, <1>3, IdleJobType DEF Start
    <2>2. cache' = [valid |-> FALSE, ids |-> {}] /\ Cardinality({}) = 0 /\ late' = FALSE
             /\ doubled' = doubled
      BY FS_EmptySet DEF Start
    <2>3. episode' \in Seq(Row) /\ Len(episode') <= MaxRow
      BY <1>1, <1>3 DEF RowsKept
    <2>4. Ids' \cup {0} = 0 .. Len(episode') /\ Ids' = 1 .. Len(episode')
      BY <1>1, <1>3 DEF Ids
    <2>5. cache' \in [valid : BOOLEAN, ids : SUBSET Ids'] /\ Cardinality(cache'.ids) <= RecencyLimit
      BY <1>1, <2>2
    <2> QED BY <1>1, <1>7, <2>1, <2>2, <2>3, <2>4, <2>5 DEF TypeOK, JobOf, Row
  <1>9. Shaped'
    BY <1>1, <1>5, IdleJobType, ShapeEmpty DEF Shaped
  <1>10. Found' /\ StoreRead' /\ CacheRead'
    BY <1>6 DEF Found, StoreRead, CacheRead, Start
  <1>11. Active' = ActiveIn(episode')
    BY DEF Active
  <1> QED BY <1>3, <1>4, <1>6, <1>8, <1>9, <1>10, <1>11 DEF IInv

Starts(n) == Restart(n) \/ RestartTorn(n)

LEMMA StartsStart ==
  ASSUME IInv, NEW n, Starts(n)
  PROVE  Start(n) /\ memoryMd' \subseteq Ids /\ torn' \in BOOLEAN
  <1>1. memoryMd \subseteq Ids /\ Active \subseteq Ids
    BY TypeOKDef, LenProperties DEF IInv, Active, ActiveIn, Ids
  <1>2. torn \in BOOLEAN
    BY TypeOKDef DEF IInv
  <1> QED BY <1>1, <1>2 DEF Starts, Restart, RestartTorn, Regenerate, MdRows

LEMMA StartsSInv ==
  ASSUME SInv, NEW n, Starts(n)
  PROVE  SInv'
  <1> IInv
    BY DEF SInv
  <1>1. Start(n) /\ memoryMd' \subseteq Ids /\ torn' \in BOOLEAN
    BY StartsStart
  <1>2. /\ IInv' /\ Active' = Active \ Swept(n)
        /\ \A t \in Threads : Idle(t)' /\ \A step : ~At(t, step)' /\ ~Has(t, step)'
    BY <1>1, StartIInv
  <1>4. OneRewrite'
    <2> SUFFICES ASSUME ~torn' PROVE memoryMd' = Active'
      BY <1>2 DEF OneRewrite, RewritesMd
    <2>1. Regenerate(Swept(n))
      BY DEF Starts, Restart, RestartTorn
    <2>2. CASE Swept(n) = {}
      BY <1>2, <2>1, <2>2 DEF Regenerate, SInv, OneRewrite
    <2>3. CASE Swept(n) # {}
      BY <1>2, <2>1, <2>3 DEF Regenerate, MdRows
    <2> QED BY <2>2, <2>3
  <1> QED BY <1>2, <1>4 DEF SInv

LEMMA NextSteps ==
  ASSUME Next
  PROVE  \/ \E t \in Threads : Quiet(t) \/ Writes(t) \/ Stores(t)
         \/ \E n : Starts(n)
  <1>1. CASE \E t \in Turns : TurnStep(t)
    <2>1. PICK t \in Turns : TurnStep(t)
      BY <1>1
    <2>2. t \in Threads
      BY DEF Threads
    <2>3. Quiet(t) \/ Writes(t) \/ Stores(t)
      BY <2>1 DEF TurnStep, Quiet, Writes, Stores
    <2> QED BY <2>2, <2>3
  <1>2. CASE \E t \in Requests : \/ \E i \in Ids : Approve(t, i) \/ Reject(t, i) \/ FindRetracted(t, i)
                                 \/ Reactivate(t) \/ ReactivateLate(t)
    BY <1>2 DEF Quiet, Writes, Threads
  <1>3. CASE \E t \in Threads : SelectActive(t) \/ WriteFile(t) \/ WriteFileFails(t) \/ LinkNode(t)
    BY <1>3 DEF Quiet, Stores
  <1>4. CASE \E n \in 0 .. Len(episode) : Restart(n) \/ RestartTorn(n)
    BY <1>4 DEF Starts
  <1> QED BY <1>1, <1>2, <1>3, <1>4 DEF Next

-----------------------------------------------------------------------------
(* The theorems                                                            *)

LEMMA InitInv == Init => SInv /\ OneActive
  <1> SUFFICES ASSUME Init PROVE SInv /\ OneActive
    OBVIOUS
  <1>1. /\ episode \in Seq(Row) /\ Len(episode) = 0 /\ DOMAIN episode = {} /\ Ids = {}
        /\ Active = {}
    BY EmptySeq DEF Init, Ids, Active, ActiveIn
  <1>2. /\ memoryMd = {} /\ cache = [valid |-> FALSE, ids |-> {}] /\ doubled = {}
        /\ torn = FALSE /\ late = FALSE /\ \A t \in Threads : job[t] = IdleJob
    BY DEF Init
  <1>3. \A t \in Threads : Idle(t) /\ \A step : ~At(t, step) /\ ~Has(t, step)
    BY <1>2, IdleJobType, ShapeEmpty DEF Idle, At, Has, In
  <1>4. TypeOK
    <2>1. Cardinality({}) = 0
      BY FS_EmptySet
    <2>2. job \in [Threads -> JobOf(Len(episode))]
      BY <1>1, IdleJobType DEF Init
    <2>3. cache \in [valid : BOOLEAN, ids : SUBSET Ids] /\ Cardinality(cache.ids) <= RecencyLimit
      BY <1>2, <2>1, LimitsAssumption
    <2>4. Len(episode) <= MaxRow
      BY <1>1, LimitsAssumption
    <2> QED BY <1>1, <1>2, <2>2, <2>3, <2>4, TypeOKDef
  <1>5. Shaped
    BY <1>2, IdleJobType, ShapeEmpty DEF Shaped
  <1>6. Found /\ StoreRead /\ CacheRead
    BY <1>2, <1>3 DEF Found, StoreRead, CacheRead
  <1>7. OneRewrite /\ OneActive
    BY <1>1, <1>2, <1>3 DEF OneRewrite, RewritesMd, OneActive
  <1> QED BY <1>4, <1>5, <1>6, <1>7 DEF SInv, IInv

LEMMA StepIInv == IInv /\ [Next]_vars => IInv'
  <1> SUFFICES ASSUME IInv, [Next]_vars PROVE IInv'
    OBVIOUS
  <1>1. CASE UNCHANGED vars
    BY <1>1 DEF vars, history, IInv, TypeOK, Ids, Shaped, Found, StoreRead, CacheRead, At, Idle,
                Has, ByRecency, Recent, Active, ActiveIn
  <1>2. ASSUME NEW t \in Threads, Quiet(t) PROVE IInv'
    BY <1>2, QuietMoves, MoveIInv
  <1>3. ASSUME NEW t \in Threads, Writes(t) PROVE IInv'
    BY <1>3, WritesWrite, WritingIInv
  <1>4. ASSUME NEW t \in Threads, Stores(t) PROVE IInv'
    BY <1>4, StoresIInv
  <1>5. ASSUME NEW n, Starts(n) PROVE IInv'
    BY <1>5, StartsStart, StartIInv
  <1> QED BY <1>1, <1>2, <1>3, <1>4, <1>5, NextSteps

\* The rows change by transactions only.
LEMMA StepRows ==
  ASSUME IInv, [Next]_vars
  PROVE  UNCHANGED <<episode, doubled>> \/ RowStep(episode', doubled')
  <1>1. CASE UNCHANGED vars
    BY <1>1 DEF vars, history
  <1>2. ASSUME NEW t \in Threads, Quiet(t) PROVE UNCHANGED <<episode, doubled>>
    BY <1>2, QuietMoves DEF history
  <1>3. ASSUME NEW t \in Threads, Writes(t) PROVE RowStep(episode', doubled')
    BY <1>3, WritesWrite DEF Writing, Transact, Written
  <1>4. ASSUME NEW t \in Threads, Stores(t) PROVE UNCHANGED <<episode, doubled>>
    BY <1>4, StoresDone
  <1>5. ASSUME NEW n, Starts(n) PROVE RowStep(episode', doubled')
    BY <1>5, StartsStart, StartIInv
  <1> QED BY <1>1, <1>2, <1>3, <1>4, <1>5, NextSteps

LEMMA StepSInv == SInv /\ [Next]_vars => SInv'
  <1> SUFFICES ASSUME SInv, [Next]_vars PROVE SInv'
    OBVIOUS
  <1> IInv
    BY DEF SInv
  <1>1. CASE UNCHANGED vars
    <2>1. IInv'
      BY StepIInv
    <2>2. OneRewrite'
      BY <1>1 DEF vars, history, SInv, OneRewrite, RewritesMd, At, Idle, Has, Active, ActiveIn
    <2> QED BY <2>1, <2>2 DEF SInv
  <1>2. ASSUME NEW t \in Threads, Quiet(t) PROVE SInv'
    BY <1>2, QuietMoves, MoveSInv
  <1>3. ASSUME NEW t \in Threads, Writes(t) PROVE SInv'
    BY <1>3, WritesWrite, WritingSInv
  <1>4. ASSUME NEW t \in Threads, Stores(t) PROVE SInv'
    BY <1>4, StoresSInv
  <1>5. ASSUME NEW n, Starts(n) PROVE SInv'
    BY <1>5, StartsSInv
  <1> QED BY <1>1, <1>2, <1>3, <1>4, <1>5, NextSteps

\* A step that supersedes a row leaves another of its key active, but for the
\* UPDATEs of a reactivation that came second, which touch only its own key.
LEMMA StepReplaces ==
  ASSUME IInv, [Next]_vars
  PROVE  \/ UNCHANGED episode \/ Replaced(episode')
         \/ \A i \in Ids : episode[i].status = "active" /\ episode'[i].status = "superseded"
                              => CameSecond(i)
  <1>1. CASE UNCHANGED vars
    BY <1>1 DEF vars
  <1>2. ASSUME NEW t \in Threads, Quiet(t) PROVE UNCHANGED episode
    BY <1>2, QuietMoves
  <1>3. ASSUME NEW t \in Threads, Writes(t), ~Replaced(episode')
        PROVE  \A i \in Ids : episode[i].status = "active" /\ episode'[i].status = "superseded"
                                 => CameSecond(i)
    <2>1. PICK new, r : Writing(t, new, r) /\ Written(t, new, r)
      BY <1>3, WritesWrite
    <2>2. /\ UNCHANGED <<memoryMd, cache>> /\ episode' = new /\ job'[t] = r
          /\ \A u \in Threads \ {t} : job'[u].todo = job[u].todo
      BY <1>3, <2>1, WritesWrite, WritingOthers
    <2>3. r.todo = <<>>
      BY <1>3, <2>1, <2>2 DEF Written
    <2>4. PICK k \in Ids : CameLate(t, k) /\ new = Reactivated(k)
      BY <2>1, <2>3 DEF Written
    <2>5. At(t, "reactivate") /\ ~At(t, "reactivate")' /\ t \in Requests
      BY <2>2, <2>3, <2>4, JobAfter DEF CameLate
    <2>6. \A i \in Ids : episode[i].status = "active" /\ new[i].status = "superseded" =>
                            Key(i) = Key(k)
      BY <2>4, ReactivatedRows, TypeOKDef DEF IInv, Ids
    <2> QED BY <2>2, <2>4, <2>5, <2>6 DEF CameSecond, CameLate
  <1>4. ASSUME NEW t \in Threads, Stores(t) PROVE UNCHANGED episode
    BY <1>4, StoresDone
  <1>5. ASSUME NEW n, Starts(n) PROVE Replaced(episode')
    BY <1>5, StartsStart, StartIInv
  <1> QED BY <1>1, <1>2, <1>3, <1>4, <1>5, NextSteps

LEMMA Inductive == Spec => []IInv
  <1>1. Init => IInv
    BY InitInv DEF SInv
  <1> QED BY <1>1, StepIInv, PTL DEF Spec

\* Every variable has its type and the recency cache never holds more than the
\* LIMIT of by_recency, whatever turns, requests and starts interleave.
THEOREM TypeCorrect == Spec => []TypeOK
  <1>1. IInv => TypeOK
    BY DEF IInv
  <1> QED BY <1>1, Inductive, PTL

\* What a turn recalls from the recency cache is what by_recency would return,
\* unless the cache is known to miss a change of the episodes.
THEOREM CacheIsRecent == Spec => []RecencyCurrent
  <1>1. IInv => RecencyCurrent
    BY DEF IInv, CacheRead, RecencyCurrent
  <1> QED BY <1>1, Inductive, PTL

\* At most one episode of a subject and type is active, but for those approve()
\* left beside another.
THEOREM AtMostOneActive == Spec => []OneActive
  <1>1. OneActive <=> AtMostOne(episode, doubled)
    BY DEF OneActive, AtMostOne, KeyIn, Key, Active
  <1>2. IInv /\ OneActive /\ [Next]_vars => OneActive'
    <2> SUFFICES ASSUME IInv, OneActive, [Next]_vars PROVE OneActive'
      OBVIOUS
    <2>1. CASE UNCHANGED <<episode, doubled>>
      BY <2>1 DEF OneActive, Active, ActiveIn, Key
    <2>2. CASE RowStep(episode', doubled')
      <3>1. AtMostOne(episode', doubled')
        BY <1>1, <2>2, RowStepKeeps, TypeOKDef DEF IInv, RowsKept
      <3> QED BY <3>1 DEF OneActive, AtMostOne, KeyIn, Key, Active
    <2> QED BY <2>1, <2>2, StepRows
  <1> QED BY <1>2, InitInv, Inductive, PTL DEF Spec

\* Rows are never deleted or rewritten, and a status changes only along the
\* documented lifecycle.
THEOREM AuditTrail == Spec => Lifecycle
  <1> DEFINE Step == \A i \in Ids :
                        /\ i \in DOMAIN episode'
                        /\ episode'[i].subject = episode[i].subject /\ episode'[i].type = episode[i].type
                        /\ episode'[i].status \in MovesTo(episode[i].status)
  <1>1. ASSUME IInv, [Next]_vars PROVE Step
    <2>1. episode \in Seq(Row) /\ DOMAIN episode = Ids /\ Len(episode) \in Nat
      BY <1>1, TypeOKDef, LenProperties DEF IInv, Ids
    <2>2. CASE UNCHANGED <<episode, doubled>>
      BY <2>1, <2>2, Moves
    <2>3. CASE RowStep(episode', doubled')
      <3>1. RowsKept(episode', doubled')
        BY <2>1, <2>3, RowStepKeeps
      <3>2. Ids \subseteq DOMAIN episode'
        BY <2>1, <3>1, LenProperties DEF RowsKept, Ids
      <3> QED BY <3>1, <3>2 DEF RowsKept
    <2> QED BY <1>1, <2>2, <2>3, StepRows
  <1>2. IInv /\ [Next]_vars => [Step]_vars
    BY <1>1
  <1> QED BY <1>2, Inductive, PTL DEF Spec, Lifecycle

\* MEMORY.md lists exactly the active episodes once no rewrite is under way,
\* unless one overlapped another, failed, was cut short or was left out since
\* the last that succeeded alone.
THEOREM MdCurrent == Spec => []MemoryMdCurrent
  <1>1. SInv => MemoryMdCurrent
    BY DEF SInv, OneRewrite, MemoryMdCurrent
  <1> QED BY <1>1, InitInv, StepSInv, PTL DEF Spec

\* An episode is superseded only by another of its subject and type that is
\* active afterwards, but for a reactivation that came second.
THEOREM NoneOrphaned == Spec => SupersededReplaced
  <1> DEFINE Step == \A i \in Ids :
                        (episode[i].status = "active" /\ episode'[i].status = "superseded")
                        => \/ \E j \in DOMAIN episode' :
                                 /\ episode'[j].status = "active"
                                 /\ episode'[j].subject = episode[i].subject
                                 /\ episode'[j].type = episode[i].type
                           \/ CameSecond(i)
  <1>1. ASSUME IInv, [Next]_vars PROVE Step
    <2>1. CASE UNCHANGED episode
      BY <2>1
    <2>2. CASE Replaced(episode')
      BY <2>2 DEF Replaced, KeyIn, Key
    <2> QED BY <1>1, <2>1, <2>2, StepReplaces
  <1>2. IInv /\ [Next]_vars => [Step]_vars
    BY <1>1
  <1> QED BY <1>2, Inductive, PTL DEF Spec, SupersededReplaced
=============================================================================
