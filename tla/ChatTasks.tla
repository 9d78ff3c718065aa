------------------------------ MODULE ChatTasks ------------------------------
(***************************************************************************)
(* What the task stream promises to whoever submits tasks and to the chat  *)
(* history, apart from threads, queues, events and connections: a task is  *)
(* asked once and given to the history once, its instruction before its    *)
(* answer; how it ended is decided once, "complete" when the answer is     *)
(* given and "failed" when it never is, unless its connection broke; only  *)
(* a reload of the page forgets it.  The history keeps what it is given as *)
(* far as the database lets it.  TaskStream implements it.                 *)
(***************************************************************************)
EXTENDS Naturals, Sequences

CONSTANT Tasks

VARIABLES
    asked,     \* tasks submitted
    here,      \* those the page still shows
    history,   \* history[t]: the turns of t given to the chat history, by role
    outcome,   \* outcome[t]: how t ended, for the page
    lost       \* tasks whose connection broke

vars == <<asked, here, history, outcome, lost>>

Turns == <<"user", "assistant">>

Init ==
    /\ asked = {} /\ here = {} /\ lost = {}
    /\ history = [t \in Tasks |-> <<>>] /\ outcome = [t \in Tasks |-> "open"]

Ask(t) ==
    /\ t \notin asked
    /\ asked' = asked \cup {t} /\ here' = here \cup {t}
    /\ UNCHANGED <<history, outcome, lost>>

\* The next turn of a task is given to the history, not after the task failed.
Store(t) ==
    /\ t \in asked /\ history[t] # Turns
    /\ outcome[t] = "open" \/ t \in lost
    /\ history' = [history EXCEPT ![t] = Append(@, Turns[Len(@) + 1])]
    /\ UNCHANGED <<asked, here, outcome, lost>>

Decide(t) ==
    /\ t \in here /\ outcome[t] = "open"
    /\ outcome' = [outcome EXCEPT ![t] = IF history[t] = Turns THEN "complete" ELSE "failed"]
    /\ UNCHANGED <<asked, here, history, lost>>

\* The connection breaks: the page keeps what it knows or gives the task up.
Lose(t) ==
    /\ t \in here \ lost /\ lost' = lost \cup {t}
    /\ \E end \in {outcome[t], "failed"} : outcome' = [outcome EXCEPT ![t] = end]
    /\ UNCHANGED <<asked, here, history>>

Forget ==
    /\ here' = {} /\ outcome' = [t \in Tasks |-> "open"]
    /\ UNCHANGED <<asked, history, lost>>

Next == Forget \/ \E t \in Tasks : Ask(t) \/ Store(t) \/ Decide(t) \/ Lose(t)

Spec == Init /\ [][Next]_vars
===============================================================================
