--------------------------- MODULE MCRuntimeSwitch ---------------------------
(* Two backends, each with a chat and an embedding model of its own; one   *)
(* of them may list nothing yet.                                           *)
EXTENDS RuntimeSwitch, TLC

CONSTANTS omlx, ollama, c1, c2, e1, e2

MCDefault  == omlx :> NoModel @@ ollama :> NoModel
MCListings == omlx :> {{c1, e1}} @@ ollama :> {{c2, e2}, {}}
Unset(m)   == [b \in Backends |-> m]

\* A fresh install, and a file copied from another machine: its global chat
\* model and its legacy embedding model are not the active backend's.
Fresh  == [backend |-> omlx, override |-> NoModel, pin |-> Unset(NoModel),
           emb |-> Unset(NoModel), legacy |-> NoModel]
Copied == [backend |-> ollama, override |-> c1, pin |-> [Unset(NoModel) EXCEPT ![ollama] = c2],
           emb |-> Unset(NoModel), legacy |-> e2]
MCConfigs == {Fresh, Copied}

\* An embedding model chosen for each backend.
Chosen    == [Fresh EXCEPT !.emb = omlx :> e1 @@ ollama :> e2]
MCChosen  == {Chosen}
=============================================================================
