------------------------------- MODULE Planner -------------------------------
(***************************************************************************)
(* Planner.route (planner.py): the deterministic priority chain that turns *)
(* an instruction into a RoutingPlan.  Pure operators: the turn pipeline   *)
(* (module TurnPipeline) keeps the state that outlives a turn.             *)
(*                                                                         *)
(* A request r is a record                                                 *)
(*   says      the signals its text carries, a subset of Signals           *)
(*   contains  the stems it names by tier 1 of resolve_graph_target        *)
(*   shares    the stems it names by tier 2 (token overlap)                *)
(*   pins      the wiki pages pinned as session files                      *)
(*   facts     what the services the planner calls answer, see Facts       *)
(* and c is the planner's configuration, see Configuration.                *)
(***************************************************************************)
EXTENDS Naturals, Sequences, FiniteSets, FiniteSetsExt

CONSTANTS Stems,     \* stems of the wiki pages in the graph
          Pages,     \* stems of the wiki pages on disk, which the graph may lag
          NoPlan     \* a gate that does not claim the turn

ASSUME StemsAssumption == "none" \notin Stems \cup Pages

-----------------------------------------------------------------------------
(* The keyword tables, one signal per table                                *)

StorageWords == {"ingest", "diff", "diff_lead", "memory", "remember"}
SearchWords  == {"web", "news", "github", "release", "hacker_news"}
DateWords    == {"date"}
CorpusWords  == {"factual", "wiki"}
FileWords    == {"fetch", "url", "file_op", "destination",
                 "append", "write", "content"}
ChartWords   == {"chart"}
SlashWords   == {"/chart", "/research"}
\* The templates and what scores against them: "research_cosine" is a cosine
\* at or above the research_intent threshold, "lookup_words" a keyword
\* coverage of explicit_search_action or lookup_request, "research_words" a
\* BM25 score of research_intent.
IntentScores == {"research_cosine", "lookup_words", "research_words"}
NegativeWords == {"negative"}
RecallScores == {"recall", "recall_cosine", "recall_words"}
GraphWords   == {"backlinks", "outgoing"}

Signals == UNION {StorageWords, SearchWords, DateWords, CorpusWords, FileWords, ChartWords,
                  SlashWords, IntentScores, NegativeWords, RecallScores, GraphWords,
                  {"raw_path"}}

\* Every phrase of _DIFF_LEAD_PHRASES is one of _DIFF_KEYWORDS.
SignalsPossible(says) == "diff_lead" \in says => "diff" \in says

\* What the embedder, the database and the model answer during a turn.
Facts == {"embed_fails", "stems_fail", "node_missing", "corpus_hit", "corpus_fails",
          "answers_lookup", "answers_web", "answers_file", "answers_url"}

Says(r, words) == r.says \cap words # {}
Fact(r, f)     == f \in r.facts

-----------------------------------------------------------------------------
(* Configuration: resolve_gate_tiers and Planner.__init__                  *)

Gates == {"explicit_search_action", "lookup_request", "research_intent",
          "episodic_relevance"}
KeywordScored == {"explicit_search_action", "lookup_request"}

\* The fallback classifier of Priority 6.
FallbackModes == {"off", "shadow", "active"}

\* embed: there is an embed_fn; templates: the template sets it embedded when
\* the Planner was built; validated, calibrated: gates with a threshold for
\* the embedding model.
Configuration == [embed : BOOLEAN, templates : SUBSET {"search", "episodic"},
                  validated : SUBSET Gates, calibrated : SUBSET Gates,
                  loop : BOOLEAN, fallback : FallbackModes, gate1 : BOOLEAN,
                  memory : BOOLEAN]

GateTier(c, gate) ==
    CASE gate \in KeywordScored -> "keyword"
      [] gate \in c.validated \ KeywordScored -> "validated"
      [] gate \in c.calibrated \ (KeywordScored \cup c.validated) -> "auto-calibrated"
      [] OTHER -> "lexical-fallback"

CosineScored(c, gate) == GateTier(c, gate) \in {"validated", "auto-calibrated"}

LexicalActive(c, gate) ==
    gate \in KeywordScored \/ ~c.embed \/ GateTier(c, gate) = "lexical-fallback"

-----------------------------------------------------------------------------
(* RoutingPlan                                                             *)

Direct == [agent |-> "conversational", episodic |-> FALSE, rag |-> FALSE,
           tools |-> <<>>, write |-> FALSE, priority |-> 6, graph |-> "none",
           signal |-> "none", deferred |-> "none", target |-> "none"]

ToolNames == {"chart", "research", "web_search", "file_op", "url_fetch", "news_search",
              "hacker_news_search", "github_search", "github_release"}

Plans == [agent : {"conversational", "wiki"}, episodic : BOOLEAN, rag : BOOLEAN,
          tools : Seq(ToolNames), write : BOOLEAN, priority : 0 .. 6, graph : Stems \cup {"none"},
          signal : {"none", "keyword", "slash_command", "classifier_fallback"},
          deferred : {"none", "write", "append"}, target : Stems \cup Pages \cup {"none"}]

ASSUME NoPlanAssumption == NoPlan \notin Plans

Calling(tools, priority, signal) ==
    [Direct EXCEPT !.tools = tools, !.priority = priority, !.signal = signal]

\* resolve_graph_target: the one stem of the first tier that names any, and
\* none when that tier names several.
Resolved(r, candidates) ==
    LET first  == r.contains \cap candidates
        second == r.shares \cap candidates
        tier   == IF first # {} THEN first ELSE second
    IN  IF Cardinality(tier) = 1 THEN CHOOSE s \in tier : TRUE ELSE "none"

\* list_graph_node_stems
Candidates(r) == IF Fact(r, "stems_fail") THEN {} ELSE Stems

-----------------------------------------------------------------------------
(* Priorities 0 to 2: commands and writes to storage                       *)

SlashCommand(r) ==
    CASE "/chart"    \in r.says -> Calling(<<"chart">>, 0, "slash_command")
      [] "/research" \in r.says -> Calling(<<"research">>, 0, "slash_command")
      [] OTHER -> NoPlan

Compound(r) ==
    IF Says(r, {"ingest", "raw_path"}) /\ Says(r, {"web"})
    THEN [Calling(<<"web_search">>, 6, "keyword") EXCEPT !.agent = "wiki"]
    ELSE NoPlan

Ingest(r) ==
    IF Says(r, {"ingest", "raw_path"})
    THEN [Direct EXCEPT !.agent = "wiki", !.priority = 1] ELSE NoPlan

\* _priority1b_diff: claims the turn even when it cannot tell which page.
Diff(r, c) ==
    LET stem == IF c.memory THEN Resolved(r, Candidates(r)) ELSE "none"
    IN  IF ~Says(r, {"diff_lead"}) THEN NoPlan
        ELSE [Direct EXCEPT !.agent = IF stem = "none" THEN "conversational" ELSE "wiki",
                            !.priority = 1, !.target = stem]

Memory(r) ==
    IF Says(r, {"memory", "remember"})
    THEN [Direct EXCEPT !.write = TRUE, !.priority = 2] ELSE NoPlan

-----------------------------------------------------------------------------
(* _priority3_tool                                                         *)

\* _semantic_search_intent has a score for the turn: a negative phrase that
\* conflicts with a research score is put to the model.
IntentScored(r, c) ==
    /\ c.embed /\ "search" \in c.templates /\ CosineScored(c, "research_intent")
    /\ ~Fact(r, "embed_fails")
    /\ Says(r, {"negative"}) =>
          (c.loop /\ Says(r, {"research_cosine"}) /\ Fact(r, "answers_lookup"))

Upgraded(tools) == [k \in DOMAIN tools |-> IF tools[k] = "web_search" THEN "research"
                                           ELSE tools[k]]
Holds(tools, t) == \E k \in DOMAIN tools : tools[k] = t

\* The search and chart tools, in the order they are appended.
SearchTools(r, c) ==
    LET keyed  == (IF Says(r, {"web"}) THEN <<"web_search">> ELSE <<>>)
                  \o (IF Says(r, {"chart"}) THEN <<"chart">> ELSE <<>>)
        dated  == IF Says(r, {"date"}) /\ ~Holds(keyed, "web_search")
                  THEN Append(keyed, "web_search") ELSE keyed
        cosine == IF IntentScored(r, c) /\ c.loop /\ Says(r, {"research_cosine"})
                  THEN Upgraded(dated) ELSE dated
        worded == IF /\ ~Says(r, {"negative"}) /\ Says(r, {"lookup_words"})
                     /\ ~Holds(cosine, "web_search")
                  THEN Append(cosine, "web_search") ELSE cosine
    IN  IF /\ ~Says(r, {"negative"}) /\ Says(r, {"research_words"})
           /\ LexicalActive(c, "research_intent") /\ c.loop
        THEN Upgraded(worded) ELSE worded

\* _derive_file_op_action; content_present is "content".
FileAction(r) == CASE Says(r, {"append"}) -> "append"
                   [] Says(r, {"write"}) /\ ~Says(r, {"append"}) -> "write"
                   [] OTHER -> "read"
FileWanted(r)   == Says(r, {"file_op", "destination"})
FileDeferred(r) == FileWanted(r) /\ FileAction(r) # "read" /\ ~Says(r, {"content"})

Tools(r, c) ==
    SearchTools(r, c)
    \o (IF FileWanted(r) /\ ~FileDeferred(r) THEN <<"file_op">> ELSE <<>>)
    \o (IF Says(r, {"fetch", "url"}) THEN <<"url_fetch">> ELSE <<>>)

Tool(r, c) ==
    IF Tools(r, c) # <<>> \/ FileDeferred(r)
    THEN [Calling(Tools(r, c), 3, "keyword") EXCEPT
            !.deferred = IF FileDeferred(r) THEN FileAction(r) ELSE "none"]
    ELSE NoPlan

\* _priority1c_pinned_diff, with any tool signal of the same instruction.
PinnedDiff(r, c) ==
    IF Cardinality(r.pins) = 1 /\ Says(r, {"diff"})
    THEN [(IF Tool(r, c) = NoPlan THEN Direct ELSE Tool(r, c)) EXCEPT
            !.agent = "wiki", !.priority = 1, !.target = CHOOSE s \in r.pins : TRUE]
    ELSE NoPlan

-----------------------------------------------------------------------------
(* Priority 3, before _priority3_tool: graph queries and the feeds.  Each  *)
(* gate has its own copy of the guard that leaves files and URLs to it.    *)

ForFileOrUrl(r) == Says(r, {"file_op", "destination", "fetch", "url"})

GraphQuery(r, c) ==
    LET stem == Resolved(r, Candidates(r))
    IN  IF /\ ~ForFileOrUrl(r) /\ c.memory /\ Says(r, {"backlinks", "outgoing"})
           /\ stem # "none" /\ ~Fact(r, "node_missing")
        THEN [Direct EXCEPT !.priority = 3, !.graph = stem] ELSE NoPlan

HackerNews(r) ==
    IF ~ForFileOrUrl(r) /\ Says(r, {"hacker_news"})
    THEN Calling(<<"hacker_news_search">>, 3, "keyword") ELSE NoPlan

\* Mutant: the news gate without the guard.
NewsUnguarded(r) ==
    IF Says(r, {"news"}) THEN Calling(<<"news_search">>, 3, "keyword") ELSE NoPlan

News(r) ==
    IF ~ForFileOrUrl(r) /\ Says(r, {"news"})
    THEN Calling(<<"news_search">>, 3, "keyword") ELSE NoPlan

GithubRelease(r) ==
    IF ~ForFileOrUrl(r) /\ ~Says(r, {"chart"}) /\ Says(r, {"release"})
    THEN Calling(<<"github_release">>, 3, "keyword") ELSE NoPlan

Github(r) ==
    IF ~ForFileOrUrl(r) /\ Says(r, {"github"})
    THEN Calling(<<"github_search">>, 3, "keyword") ELSE NoPlan

\* _priority3b_factual: a question the corpus does not answer; a failed
\* query counts as a miss.
CorpusHit(r) == Fact(r, "corpus_hit") /\ ~Fact(r, "corpus_fails")
Factual(r, c) ==
    IF Says(r, {"factual"}) /\ c.memory /\ ~CorpusHit(r)
    THEN Calling(<<"web_search">>, 3, "keyword") ELSE NoPlan

-----------------------------------------------------------------------------
(* Priorities 4 to 6                                                       *)

\* _episodic_semantic_relevance at or above the threshold.
RecallByCosine(r, c) ==
    /\ c.embed /\ "episodic" \in c.templates /\ CosineScored(c, "episodic_relevance")
    /\ ~Fact(r, "embed_fails") /\ Says(r, {"recall_cosine"})

Episodic(r, c) ==
    IF \/ Says(r, {"recall"})
       \/ RecallByCosine(r, c)
       \/ LexicalActive(c, "episodic_relevance") /\ Says(r, {"recall_words"})
    THEN [Direct EXCEPT !.episodic = TRUE, !.priority = 5] ELSE NoPlan

Corpus(r, c) ==
    IF Says(r, {"wiki"})
    THEN [Direct EXCEPT !.rag = TRUE, !.episodic = TRUE, !.priority = 4]
    ELSE IF c.memory /\ CorpusHit(r)
    THEN [Direct EXCEPT !.rag = TRUE, !.episodic = Episodic(r, c) # NoPlan, !.priority = 4]
    ELSE NoPlan

\* _classify_tool_fallback: Gate 1 looks at what fired for the last turn.
Classified(r, c, lastTools) ==
    LET answered == r.facts \cap {"answers_web", "answers_file", "answers_url"}
    IN  IF (c.gate1 /\ lastTools) \/ ~c.memory THEN "none"
        ELSE CASE answered = {"answers_web"}  -> "web_search"
               [] answered = {"answers_file"} -> "file_op"
               [] answered = {"answers_url"}  -> "url_fetch"
               [] OTHER -> "none"

ToolFallback(r, c, lastTools) ==
    LET tool == Classified(r, c, lastTools)
    IN  IF c.fallback = "active" /\ tool # "none"
        THEN Calling(<<tool>>, 6, "classifier_fallback") ELSE NoPlan

\* _route_impl: the first gate that claims the turn.
Route(r, c, lastTools) ==
    LET tried == << SlashCommand(r), Compound(r), Ingest(r), PinnedDiff(r, c),
                    Diff(r, c), Memory(r), GraphQuery(r, c), HackerNews(r), News(r),
                    GithubRelease(r), Github(r), Tool(r, c), Factual(r, c),
                    Corpus(r, c), Episodic(r, c), ToolFallback(r, c, lastTools),
                    Direct >>
    IN  tried[Min({k \in DOMAIN tried : tried[k] # NoPlan})]
=============================================================================
