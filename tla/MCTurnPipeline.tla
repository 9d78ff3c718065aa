--------------------------- MODULE MCTurnPipeline ---------------------------
(* Instances of TurnPipeline for TLC.                                      *)
EXTENDS TurnPipeline

\* Requests by the signals of their text, the stems it names and the facts.
Asking(says, contains, facts) ==
    [says |-> says, contains |-> contains, shares |-> {}, pins |-> {}, facts |-> facts]

SmallSays == {s \in {{a, b} : a, b \in Signals} : SignalsPossible(s)} \cup {{}}
SmallFacts == {{}} \cup {{f} : f \in Facts}

\* Every instruction of at most two signals with every single answer of the
\* services, and the conjunctions a gate asks for.
Wide ==
    {Asking(s, {}, {}) : s \in SmallSays}
    \cup {Asking({s}, Stems, f) : s \in Signals \ {"diff_lead"}, f \in SmallFacts}
    \cup {Asking({"diff", "diff_lead"}, c, f) : c \in SUBSET Stems, f \in SmallFacts}
    \cup {Asking(s \cup {"research_cosine", "lookup_words"}, {}, f) :
             s \in SUBSET {"web", "negative", "research_words"},
             f \in {{}, {"embed_fails"}, {"answers_lookup"}}}
    \cup {Asking({"file_op", "destination", "news"} \cup s, {}, {}) :
             s \in SUBSET {"write", "append", "content"}}

\* Turns that read what the process keeps: its files, its pins, the last tools.
Narrow ==
    {Asking({"destination", "append"}, {}, {}), Asking({"file_op", "append", "content"}, {}, {}),
     Asking({"diff"}, {}, {})}
Fallback == {Asking({}, {}, {"answers_web"})}

Cosine  == [embed |-> TRUE, templates |-> {"search", "episodic"},
            validated |-> {"research_intent"}, calibrated |-> {"episodic_relevance"},
            loop |-> TRUE, fallback |-> "active", gate1 |-> TRUE, memory |-> TRUE,
            ollama |-> FALSE, local |-> TRUE]
Lexical == [Cosine EXCEPT !.embed = FALSE, !.templates = {}, !.validated = {},
              !.calibrated = {}, !.fallback = "shadow", !.gate1 = FALSE,
              !.ollama = TRUE, !.local = FALSE]

\* One turn of any kind while nothing changes, two turns with one change and
\* one turn with two.
MCScenarios == {"alone", "two turns", "two edits"}
MCRequests  == [s \in MCScenarios |-> CASE s = "alone"     -> Wide
                                         [] s = "two turns" -> Narrow \cup Fallback
                                         [] s = "two edits" -> Narrow]
MCConfigs   == [s \in MCScenarios |-> IF s = "alone" THEN {Cosine, Lexical} ELSE {Cosine}]
MCMaxTurns  == [s \in MCScenarios |-> IF s = "two turns" THEN 2 ELSE 1]
MCMaxEdits  == [s \in MCScenarios |-> CASE s = "alone" -> 0 [] s = "two turns" -> 1 [] OTHER -> 2]

\* One deferred write.
DeferredScenarios == {"deferred"}
DeferredRequests  == [s \in DeferredScenarios |-> {Asking({"file_op", "destination", "write"}, {}, {})}]
DeferredConfigs   == [s \in DeferredScenarios |-> {Cosine}]
DeferredMaxTurns  == [s \in DeferredScenarios |-> 1]
DeferredMaxEdits  == [s \in DeferredScenarios |-> 0]

MCUploads ==
    {[name |-> s, chars |-> 15990, source |-> "wiki_pin"] : s \in Pages}
    \cup {[name |-> "notes", chars |-> 15900, source |-> "upload"],
          [name |-> "paper", chars |-> 16000, source |-> "upload"]}

MCCorpora   == {<<2000, 2000, 2000>>}
MCRecalls   == {<<200, 200, 200, 200>>}
MCHistories == {<<60000, 20000, 3000>>}
MCTasks     == {[chars |-> 400, project |-> 40], [chars |-> 6000, project |-> 1200]}
=============================================================================
