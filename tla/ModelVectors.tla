----------------------------- MODULE ModelVectors -----------------------------
(***************************************************************************)
(* What the embedding tables of MemoryManager promise together, apart from *)
(* columns, archives, provenance rows and switches: for each row the set   *)
(* of models that have a vector of its present text.  The set only grows   *)
(* while the row keeps its text, by one model at a time; EmbeddingStore    *)
(* implements it.                                                          *)
(***************************************************************************)
CONSTANTS Stores,   \* embedded tables
          Models,   \* embedding models
          Texts,    \* contents of a row
          Ids,      \* rows of a table
          NoText    \* the row does not exist

VARIABLES text,     \* text[s][i]: content of row i of table s
          kept      \* kept[s][i]: models whose vector of that text is kept

vars == <<text, kept>>

Init ==
    /\ text = [s \in Stores |-> [i \in Ids |-> NoText]]
    /\ kept = [s \in Stores |-> [i \in Ids |-> {}]]

\* A new row, or a row with a new text: at most one model has embedded it.
Write(s, i) ==
    /\ \E t \in Texts \ {text[s][i]} : text' = [text EXCEPT ![s][i] = t]
    /\ \E ms \in {{}} \cup {{m} : m \in Models} : kept' = [kept EXCEPT ![s][i] = ms]

\* Some rows gain the vector of one model; nothing is lost.
Fill(s) ==
    /\ UNCHANGED text
    /\ \E m \in Models, rows \in SUBSET {i \in Ids : text[s][i] # NoText} :
          kept' = [kept EXCEPT ![s] = [i \in Ids |-> IF i \in rows THEN @[i] \cup {m} ELSE @[i]]]

Remove(s, rows) ==
    /\ text' = [text EXCEPT ![s] = [i \in Ids |-> IF i \in rows THEN NoText ELSE @[i]]]
    /\ kept' = [kept EXCEPT ![s] = [i \in Ids |-> IF i \in rows THEN {} ELSE @[i]]]

Next ==
    \E s \in Stores :
        \/ Fill(s)
        \/ \E i \in Ids : Write(s, i)
        \/ \E rows \in (SUBSET Ids) \ {{}} : Remove(s, rows)

Spec == Init /\ [][Next]_vars
=============================================================================
