----------------------------- MODULE ToolDispatch -----------------------------
(***************************************************************************)
(* MCPToolDispatcher.dispatch (mcp_tool_dispatcher.py) and the file tool   *)
(* of the MCP server (mcp_server/file_ops.py).  For each tool, the set of  *)
(* outcomes one run of it may have.  An outcome is the set of the          *)
(* ToolResults it returns: what happens afterwards depends on which tools  *)
(* answered and which failed, not on the order of their results.           *)
(*                                                                         *)
(* w is the state of the services: w.up, the session with localist-mcp     *)
(* opened; w.ollama, WEB_SEARCH_PROVIDER is "ollama".                      *)
(***************************************************************************)
EXTENDS Naturals, Sequences, FiniteSets, SequencesExt

CONSTANTS MaxResearch,   \* _MAX_RESEARCH_ITERATIONS
          MaxVersions,   \* files a name may have: the name and _2 .. _10
          MaxSidecar     \* _MAX_SIDECAR_TURNS

ASSUME BoundsAssumption == {MaxResearch, MaxVersions, MaxSidecar} \subseteq Nat \ {0}

\* "unreachable" is a result that starts with _MCP_UNREACHABLE_PREFIX: no
\* session, or the call raised.
How == {"ok", "miss", "error", "unreachable"}

R(tool, how) == [tool |-> tool, how |-> how]
Ok(r)        == r.how = "ok"

\* One call of an MCP tool that may answer in the given ways.
Call(w, ways) == IF w.up THEN ways \cup {"unreachable"} ELSE {"unreachable"}

-----------------------------------------------------------------------------
(* url_fetch                                                               *)

Fetcher(w)     == Call(w, {"ok", "error"})
\* Too few words count as an error.
OllamaFetch(w) == Call(w, {"ok", "error"})

\* The fetcher, then Ollama Cloud; when both fail the fetcher's error leads.
UrlFetch(w) ==
    {R("url_fetch", h) : h \in Fetcher(w) \ {"error"}}
    \cup (IF "error" \in Fetcher(w)
          THEN {R("url_fetch:ollama_fallback", IF h = "ok" THEN "ok" ELSE "error") :
                    h \in OllamaFetch(w)}
          ELSE {})

RunUrlFetch(w, named) == IF named THEN {{r} : r \in UrlFetch(w)}
                         ELSE {{R("url_fetch", "error")}}

-----------------------------------------------------------------------------
(* web_search, news_search                                                 *)

Brave(w)        == Call(w, {"ok", "miss", "error"})
OllamaSearch(w) == Call(w, {"ok", "miss", "error"})

\* Mutant: Ollama's results under a name of its own.
SearchRenamed(w) ==
    {R("ollama_search", h) : h \in OllamaSearch(w)} \cup {R("web_search", h) : h \in Brave(w)}

\* Brave, and Ollama when Brave answered without results.
SearchQuery(w) ==
    IF w.ollama THEN {R("web_search:ollama_primary", h) : h \in OllamaSearch(w)}
    ELSE {R("web_search", h) : h \in Brave(w) \cap {"ok", "unreachable"}}
         \cup (IF "miss" \in Brave(w)
               THEN {R("web_search:ollama_fallback", h) : h \in OllamaSearch(w)} ELSE {})

\* The first of at most three result pages that can be fetched, if any.
Enrichment(w, found) ==
    {{}} \cup (IF Ok(found) THEN {{r} : r \in {f \in UrlFetch(w) : Ok(f)}} ELSE {})

WebSearch(w) == UNION {{{s} \cup e : e \in Enrichment(w, s)} : s \in SearchQuery(w)}

\* A tier-1 answer, or the miss with one web query retagged.
NewsTier1(w) == {R("news_search", h) : h \in Call(w, {"ok", "miss", "error"})}
Retagged(s)  == R("news_search:brave_fallback", s.how)
NewsSearch(w) ==
    UNION {IF Ok(n) THEN {{n} \cup e : e \in Enrichment(w, n)}
           ELSE UNION {{{n, Retagged(s)} \cup e : e \in Enrichment(w, s)} : s \in SearchQuery(w)} :
               n \in NewsTier1(w)}

-----------------------------------------------------------------------------
(* GitHub, Hacker News, chart                                              *)

GithubQuery(w) == Call(w, {"ok", "miss", "error"})
GithubSearch(w) == {{R("github_search", h)} : h \in GithubQuery(w)}

\* Search for the repository, then its release.
ReleaseCall(w) == Call(w, {"ok", "error"})
RunGithubRelease(w) ==
    {{R("github_release", h)} : h \in GithubQuery(w) \ {"ok"}}
    \cup (IF "ok" \in GithubQuery(w)
          THEN {{R("github_search", "ok"), R("github_release", h)} : h \in ReleaseCall(w)}
          ELSE {})

RunHackerNews(w) == {{R("hacker_news_search", h)} : h \in Call(w, {"ok", "miss", "error"})}

\* _extract_chart_arguments: one more attempt, at a higher temperature, after
\* a malformed answer of the model.
Attempt       == {"match", "no_tool", "schema_invalid", "malformed"}
ChartArguments == {(IF a = "malformed" THEN b ELSE a) = "match" : a, b \in Attempt}

\* A chart that fails leaves no result at all.
Chart(w) == {{}} \cup (IF TRUE \in ChartArguments /\ w.up THEN {{R("chart", "ok")}} ELSE {})

-----------------------------------------------------------------------------
(* research: search, gate, fetch a candidate, gate, reformulate            *)

NotFound == R("research", "error")

\* One iteration: what it returned and how it ended.  A page that cannot be
\* fetched, and a gate that raises, count as not found.
Round(w) ==
    {[results |-> {s}, end |-> "failed"] : s \in {t \in SearchQuery(w) : ~Ok(t)}}
    \cup UNION {{[results |-> {s}, end |-> "found"], [results |-> {s}, end |-> "open"]}
                \cup {[results |-> {s, f}, end |-> "found"] : f \in {g \in UrlFetch(w) : Ok(g)}}
                \cup {[results |-> {s, f}, end |-> "open"] : f \in UrlFetch(w)} :
                    s \in {t \in SearchQuery(w) : Ok(t)}}

\* Mutant: an exhausted loop returns what it has.
ResearchSilent(w) == {r.results : r \in Round(w)}

\* At most MaxResearch iterations.  A reformulated query that repeats an
\* earlier one ends the loop; an exhausted loop adds a failure of its own, a
\* failed search does not.
Research(w) ==
    LET closed == {r.results : r \in {q \in Round(w) : q.end # "open"}}
        open   == {r.results : r \in {q \in Round(w) : q.end = "open"}}
        left[k \in 0 .. MaxResearch] ==
            IF k = 0 THEN {{NotFound}}
            ELSE closed \cup {o \cup l : o \in open, l \in {{NotFound}} \cup left[k - 1]}
    IN  left[MaxResearch]

-----------------------------------------------------------------------------
(* file_op on the one file an instruction names.  d.versions are the texts *)
(* of the name and its numbered versions, d.appended the turns that        *)
(* appended to it, d.turns the turn ids of its sidecar, and d.unseen       *)
(* (history) those a failure of the sidecar kept from a later call.        *)

FileActions == {"read", "write", "append"}
NoFile      == [versions |-> <<>>, appended |-> <<>>, turns |-> <<>>, unseen |-> {}]

\* write_file: never overwrites, refuses an empty text, ten versions at most.
WriteFile(d, text) ==
    IF text # "" /\ Len(d.versions) < MaxVersions
    THEN [disk |-> [d EXCEPT !.versions = Append(@, text)], how |-> "ok"]
    ELSE [disk |-> d, how |-> "error"]

\* The turn ids the sidecar keeps.
Newest(turns) == IF Len(turns) <= MaxSidecar THEN turns ELSE Tail(turns)

\* The append of a call that read the given turn ids (none, if the sidecar was
\* unreadable), then the sidecar; a write of the sidecar that fails leaves the
\* old one or an empty one, and the call fails although the text is appended.
Appended(d, read, turn) ==
    LET unseen == d.unseen \cup (ToSet(d.turns) \ ToSet(read))
        after  == [d EXCEPT !.appended = Append(@, turn), !.unseen = unseen]
        noted  == [after EXCEPT !.turns = Newest(Append(read, turn))]
    IN  {[disk |-> noted, how |-> "ok"],
         [disk |-> [after EXCEPT !.unseen = @ \cup {turn}], how |-> "error"],
         [disk |-> [after EXCEPT !.turns = <<>>, !.unseen = @ \cup ToSet(d.turns) \cup {turn}],
          how |-> "error"]}

\* Mutant: the sidecar of turn ids is written but not asked.
AppendAlways(d, turn) == Appended(d, d.turns, turn)

\* append_file: a turn appends once, as far as the sidecar tells.
AppendFile(d, turn) ==
    UNION {IF turn \in ToSet(read) THEN {[disk |-> d, how |-> "ok"]}
           ELSE Appended(d, read, turn) : read \in {d.turns, <<>>}}

ReadFile(d) == [disk |-> d, how |-> IF d.versions = <<>> /\ d.appended = <<>>
                                    THEN "error" ELSE "ok"]

Served(d, action, text, turn) ==
    CASE action = "read"   -> {ReadFile(d)}
      [] action = "write"  -> {WriteFile(d, text)}
      [] action = "append" -> AppendFile(d, turn)

\* Without a path nothing is called; a call may be lost before or after the
\* server has done it, or the file cannot be opened.
FileOp(w, d, action, text, turn, named) ==
    IF ~named THEN {[disk |-> d, how |-> "error"]}
    ELSE IF ~w.up THEN {[disk |-> d, how |-> "unreachable"]}
    ELSE LET done == Served(d, action, text, turn)
         IN  done \cup {[s EXCEPT !.how = "unreachable"] : s \in done}
             \cup {[disk |-> d, how |-> "unreachable"]}

-----------------------------------------------------------------------------
(* dispatch: the outcomes of a list of tools                               *)

OutcomesOf(tool, w, named, file) ==
    CASE tool = "file_op"            -> {{R("file_op", file)}}
      [] tool = "url_fetch"          -> RunUrlFetch(w, named)
      [] tool = "web_search"         -> WebSearch(w)
      [] tool = "news_search"        -> NewsSearch(w)
      [] tool = "github_search"      -> GithubSearch(w)
      [] tool = "github_release"     -> RunGithubRelease(w)
      [] tool = "hacker_news_search" -> RunHackerNews(w)
      [] tool = "research"           -> Research(w)
      [] tool = "chart"              -> Chart(w)

\* Nothing after dispatch tells an unreachable server from an error.
Reported(rs) == {R(r.tool, IF r.how = "unreachable" THEN "error" ELSE r.how) : r \in rs}

Outcomes(tools, w, named, file) ==
    LET of[k \in 0 .. Len(tools)] ==
            IF k = 0 THEN {{}}
            ELSE {a \cup Reported(b) : a \in of[k - 1], b \in OutcomesOf(tools[k], w, named, file)}
    IN  of[Len(tools)]
=============================================================================
