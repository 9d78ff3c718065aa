----------------------------- MODULE PlannerProofs -----------------------------
(***************************************************************************)
(* Proofs about the priority chain of Planner, for any stems of the graph, *)
(* any request and any configuration.                                      *)
(***************************************************************************)
EXTENDS Planner, FiniteSetTheorems, WellFoundedInduction, TLAPS

PlanSignals == {"none", "keyword", "slash_command", "classifier_fallback"}

-----------------------------------------------------------------------------
(* Plans                                                                   *)

LEMMA DirectPlan == Direct \in Plans
  <1>1. <<>> \in Seq(ToolNames)
    OBVIOUS
  <1> QED BY <1>1 DEF Direct, Plans

LEMMA CallingPlan ==
  ASSUME NEW tools \in Seq(ToolNames), NEW priority \in 0 .. 6, NEW signal \in PlanSignals
  PROVE  /\ Calling(tools, priority, signal) \in Plans
         /\ Calling(tools, priority, signal).tools = tools
  BY DirectPlan DEF Calling, Plans, PlanSignals

\* What the gates change of a plan.
LEMMA PlanWith ==
  ASSUME NEW p \in Plans, NEW n \in 0 .. 6, NEW agent \in {"conversational", "wiki"},
         NEW stem \in Stems \cup {"none"}, NEW a \in BOOLEAN, NEW b \in BOOLEAN
  PROVE  /\ [p EXCEPT !.agent = agent, !.priority = n] \in Plans
         /\ [p EXCEPT !.priority = n, !.graph = stem] \in Plans
         /\ [p EXCEPT !.write = a, !.priority = n] \in Plans
         /\ [p EXCEPT !.episodic = a, !.priority = n] \in Plans
         /\ [p EXCEPT !.rag = a, !.episodic = b, !.priority = n] \in Plans
  BY DEF Plans

LEMMA PlanAimed ==
  ASSUME NEW p \in Plans, NEW n \in 0 .. 6, NEW agent \in {"conversational", "wiki"},
         NEW page \in Stems \cup Pages \cup {"none"}
  PROVE  [p EXCEPT !.agent = agent, !.priority = n, !.target = page] \in Plans
  BY DEF Plans

\* A plan that claims the turn is told from none.
LEMMA PlanClaims == ASSUME NEW plan \in Plans PROVE plan # NoPlan
  BY NoPlanAssumption

LEMMA OneTool ==
  ASSUME NEW t \in ToolNames
  PROVE  <<t>> \in Seq(ToolNames)
  OBVIOUS

LEMMA ResolvedStem ==
  ASSUME NEW r, NEW c, c \subseteq Stems
  PROVE  Resolved(r, c) \in Stems \cup {"none"}
  <1> DEFINE first  == r.contains \cap c
             second == r.shares \cap c
             tier   == IF first # {} THEN first ELSE second
  <1>1. tier \subseteq Stems
    OBVIOUS
  <1>2. Cardinality({}) = 0
    BY FS_EmptySet
  <1>3. Cardinality(tier) = 1 => tier # {}
    BY <1>2
  <1>4. Resolved(r, c) = IF Cardinality(tier) = 1 THEN CHOOSE s \in tier : TRUE ELSE "none"
    BY DEF Resolved
  <1> HIDE DEF tier
  <1> QED BY <1>1, <1>3, <1>4

LEMMA CandidateStems == ASSUME NEW r PROVE Candidates(r) \subseteq Stems
  BY DEF Candidates

-----------------------------------------------------------------------------
(* The tools of Priority 3                                                 *)

LEMMA UpgradedTools ==
  ASSUME NEW tools \in Seq(ToolNames)
  PROVE  Upgraded(tools) \in Seq(ToolNames)
  <1>1. /\ DOMAIN tools = 1 .. Len(tools) /\ Len(tools) \in Nat
        /\ \A k \in 1 .. Len(tools) : tools[k] \in ToolNames
    OBVIOUS
  <1>2. "research" \in ToolNames
    BY DEF ToolNames
  <1>3. Upgraded(tools) = [k \in 1 .. Len(tools) |-> IF tools[k] = "web_search" THEN "research"
                                                     ELSE tools[k]]
    BY <1>1 DEF Upgraded
  <1>4. \A k \in 1 .. Len(tools) : (IF tools[k] = "web_search" THEN "research" ELSE tools[k]) \in ToolNames
    BY <1>1, <1>2
  <1>5. Upgraded(tools) \in [1 .. Len(tools) -> ToolNames]
    BY <1>3, <1>4
  <1> QED BY <1>1, <1>5

LEMMA SearchToolsTyped ==
  ASSUME NEW r, NEW c
  PROVE  SearchTools(r, c) \in Seq(ToolNames)
  <1> DEFINE keyed  == (IF Says(r, {"web"}) THEN <<"web_search">> ELSE <<>>)
                       \o (IF Says(r, {"chart"}) THEN <<"chart">> ELSE <<>>)
             dated  == IF Says(r, {"date"}) /\ ~Holds(keyed, "web_search")
                       THEN Append(keyed, "web_search") ELSE keyed
             cosine == IF IntentScored(r, c) /\ c.loop /\ Says(r, {"research_cosine"})
                       THEN Upgraded(dated) ELSE dated
             worded == IF /\ ~Says(r, {"negative"}) /\ Says(r, {"lookup_words"})
                          /\ ~Holds(cosine, "web_search")
                       THEN Append(cosine, "web_search") ELSE cosine
             last   == IF /\ ~Says(r, {"negative"}) /\ Says(r, {"research_words"})
                          /\ LexicalActive(c, "research_intent") /\ c.loop
                       THEN Upgraded(worded) ELSE worded
  <1>1. SearchTools(r, c) = last
    BY DEF SearchTools
  <1>2. "web_search" \in ToolNames /\ "chart" \in ToolNames
    BY DEF ToolNames
  <1>3. \A s \in Seq(ToolNames) : Append(s, "web_search") \in Seq(ToolNames)
    BY <1>2
  <1>4. keyed \in Seq(ToolNames)
    BY <1>2
  <1> HIDE DEF keyed
  <1>5. dated \in Seq(ToolNames)
    BY <1>3, <1>4
  <1> HIDE DEF dated
  <1>6. cosine \in Seq(ToolNames)
    BY <1>5, UpgradedTools
  <1> HIDE DEF cosine
  <1>7. worded \in Seq(ToolNames)
    BY <1>3, <1>6
  <1> HIDE DEF worded
  <1>8. last \in Seq(ToolNames)
    BY <1>7, UpgradedTools
  <1> QED BY <1>1, <1>8

LEMMA HoldsEither ==
  ASSUME NEW a \in Seq(ToolNames), NEW b \in Seq(ToolNames), NEW t
  PROVE  /\ Holds(a, t) \/ Holds(b, t) => Holds(a \o b, t)
         /\ a \o b \in Seq(ToolNames)
  <1>1. /\ a \o b \in Seq(ToolNames) /\ Len(a \o b) = Len(a) + Len(b)
        /\ Len(a) \in Nat /\ Len(b) \in Nat
        /\ \A k \in 1 .. Len(a) : (a \o b)[k] = a[k]
        /\ \A k \in 1 .. Len(b) : (a \o b)[Len(a) + k] = b[k]
    OBVIOUS
  <1>2. /\ DOMAIN a = 1 .. Len(a) /\ DOMAIN b = 1 .. Len(b) /\ DOMAIN (a \o b) = 1 .. Len(a \o b)
    BY <1>1
  <1>3. \A k \in 1 .. Len(a) : k \in 1 .. Len(a \o b)
    BY <1>1
  <1>4. \A k \in 1 .. Len(b) : Len(a) + k \in 1 .. Len(a \o b)
    BY <1>1
  <1> QED BY <1>1, <1>2, <1>3, <1>4 DEF Holds

\* Whatever else is asked, a file that is not deferred and a URL get their tool.
LEMMA ToolsTyped ==
  ASSUME NEW r, NEW c
  PROVE  /\ Tools(r, c) \in Seq(ToolNames)
         /\ FileWanted(r) /\ ~FileDeferred(r) => Holds(Tools(r, c), "file_op")
         /\ Says(r, {"fetch", "url"}) => Holds(Tools(r, c), "url_fetch")
  <1> DEFINE a == SearchTools(r, c)
             f == IF FileWanted(r) /\ ~FileDeferred(r) THEN <<"file_op">> ELSE <<>>
             u == IF Says(r, {"fetch", "url"}) THEN <<"url_fetch">> ELSE <<>>
  <1>1. Tools(r, c) = (a \o f) \o u \/ Tools(r, c) = a \o (f \o u)
    BY DEF Tools
  <1>2. a \in Seq(ToolNames)
    BY SearchToolsTyped
  <1> HIDE DEF a
  <1>3. /\ <<"file_op">> \in Seq(ToolNames) /\ <<"url_fetch">> \in Seq(ToolNames)
        /\ <<>> \in Seq(ToolNames)
        /\ Holds(<<"file_op">>, "file_op") /\ Holds(<<"url_fetch">>, "url_fetch")
    BY DEF ToolNames, Holds
  <1>4. /\ f \in Seq(ToolNames) /\ u \in Seq(ToolNames)
        /\ FileWanted(r) /\ ~FileDeferred(r) => Holds(f, "file_op")
        /\ Says(r, {"fetch", "url"}) => Holds(u, "url_fetch")
    BY <1>3
  <1> HIDE DEF f, u
  <1>5. /\ a \o f \in Seq(ToolNames) /\ f \o u \in Seq(ToolNames)
        /\ FileWanted(r) /\ ~FileDeferred(r) => Holds(a \o f, "file_op") /\ Holds(f \o u, "file_op")
        /\ Says(r, {"fetch", "url"}) => Holds(f \o u, "url_fetch")
    BY <1>2, <1>4, HoldsEither
  <1> QED BY <1>1, <1>2, <1>4, <1>5, HoldsEither

LEMMA ToolClaims ==
  ASSUME NEW r, NEW c, Tools(r, c) # <<>> \/ FileDeferred(r)
  PROVE  /\ Tool(r, c) \in Plans
         /\ Tool(r, c).tools = Tools(r, c)
         /\ Tool(r, c).deferred = IF FileDeferred(r) THEN FileAction(r) ELSE "none"
  <1> DEFINE d == IF FileDeferred(r) THEN FileAction(r) ELSE "none"
             p == Calling(Tools(r, c), 3, "keyword")
  <1>1. d \in {"none", "write", "append"}
    BY DEF FileDeferred, FileAction
  <1>2. p \in Plans /\ p.tools = Tools(r, c)
    BY ToolsTyped, CallingPlan DEF PlanSignals
  <1>3. Tool(r, c) = [p EXCEPT !.deferred = d]
    BY DEF Tool
  <1> HIDE DEF d, p
  <1>4. /\ [p EXCEPT !.deferred = d] \in Plans /\ [p EXCEPT !.deferred = d].deferred = d
        /\ [p EXCEPT !.deferred = d].tools = p.tools
    BY <1>1, <1>2 DEF Plans
  <1> QED BY <1>2, <1>3, <1>4 DEF d

LEMMA ToolPlan == ASSUME NEW r, NEW c, Tool(r, c) # NoPlan PROVE Tool(r, c) \in Plans
  BY ToolClaims DEF Tool

-----------------------------------------------------------------------------
(* The gates                                                               *)

Claims == Plans \cup {NoPlan}

LEMMA CommandGates ==
  ASSUME NEW r, NEW c
  PROVE  /\ SlashCommand(r) \in Claims /\ Compound(r) \in Claims /\ Ingest(r) \in Claims
         /\ Diff(r, c) \in Claims /\ Memory(r) \in Claims
  <1>1. SlashCommand(r) \in Claims
    <2>1. <<"chart">> \in Seq(ToolNames) /\ <<"research">> \in Seq(ToolNames)
      BY DEF ToolNames
    <2>2. /\ Calling(<<"chart">>, 0, "slash_command") \in Plans
          /\ Calling(<<"research">>, 0, "slash_command") \in Plans
      <3>1. 0 \in 0 .. 6 /\ "slash_command" \in PlanSignals
        BY DEF PlanSignals
      <3> QED BY <2>1, <3>1, CallingPlan
    <2> QED BY <2>2 DEF SlashCommand, Claims
  <1>2. Compound(r) \in Claims
    <2> DEFINE p == Calling(<<"web_search">>, 6, "keyword")
    <2>1. <<"web_search">> \in Seq(ToolNames)
      BY DEF ToolNames
    <2>2. 6 \in 0 .. 6 /\ "keyword" \in PlanSignals
      BY DEF PlanSignals
    <2>3. p \in Plans
      BY <2>1, <2>2, CallingPlan
    <2>4. Compound(r) = NoPlan \/ Compound(r) = [p EXCEPT !.agent = "wiki"]
      BY DEF Compound
    <2> HIDE DEF p
    <2>5. [p EXCEPT !.agent = "wiki"] \in Plans
      BY <2>3 DEF Plans
    <2> QED BY <2>4, <2>5 DEF Claims
  <1>3. Ingest(r) \in Claims
    <2>1. 1 \in 0 .. 6 /\ "wiki" \in {"conversational", "wiki"}
      OBVIOUS
    <2>2. [Direct EXCEPT !.agent = "wiki", !.priority = 1] \in Plans
      BY <2>1, DirectPlan, PlanWith
    <2> QED BY <2>2 DEF Ingest, Claims
  <1>4. Diff(r, c) \in Claims
    <2>1. \A stem \in Stems \cup {"none"}, agent \in {"conversational", "wiki"} :
             [Direct EXCEPT !.agent = agent, !.priority = 1, !.target = stem] \in Plans
      <3>1. 1 \in 0 .. 6
        OBVIOUS
      <3> QED BY <3>1, DirectPlan, PlanAimed
    <2>2. (IF c.memory THEN Resolved(r, Candidates(r)) ELSE "none") \in Stems \cup {"none"}
      BY ResolvedStem, CandidateStems
    <2> QED BY <2>1, <2>2 DEF Diff, Claims
  <1>5. Memory(r) \in Claims
    <2>1. 2 \in 0 .. 6 /\ TRUE \in BOOLEAN
      OBVIOUS
    <2>2. [Direct EXCEPT !.write = TRUE, !.priority = 2] \in Plans
      BY <2>1, DirectPlan, PlanWith
    <2> QED BY <2>2 DEF Memory, Claims
  <1> QED BY <1>1, <1>2, <1>3, <1>4, <1>5

LEMMA PinnedDiffGate ==
  ASSUME NEW r, NEW c, r.pins \subseteq Pages
  PROVE  PinnedDiff(r, c) \in Claims
  <1> DEFINE p == IF Tool(r, c) = NoPlan THEN Direct ELSE Tool(r, c)
             s == CHOOSE t \in r.pins : TRUE
  <1>1. p \in Plans
    BY ToolPlan, DirectPlan
  <1>2. Cardinality({}) = 0
    BY FS_EmptySet
  <1>3. Cardinality(r.pins) = 1 => s \in Pages
    BY <1>2
  <1>4. PinnedDiff(r, c) = IF Cardinality(r.pins) = 1 /\ Says(r, {"diff"})
                           THEN [p EXCEPT !.agent = "wiki", !.priority = 1, !.target = s] ELSE NoPlan
    BY DEF PinnedDiff
  <1> HIDE DEF p, s
  <1>5. 1 \in 0 .. 6 /\ "wiki" \in {"conversational", "wiki"}
    OBVIOUS
  <1>6. s \in Pages => [p EXCEPT !.agent = "wiki", !.priority = 1, !.target = s] \in Plans
    BY <1>1, <1>5, PlanAimed
  <1> QED BY <1>3, <1>4, <1>6 DEF Claims

LEMMA FeedGates ==
  ASSUME NEW r, NEW c
  PROVE  /\ GraphQuery(r, c) \in Claims /\ HackerNews(r) \in Claims /\ News(r) \in Claims
         /\ GithubRelease(r) \in Claims /\ Github(r) \in Claims /\ Factual(r, c) \in Claims
  <1>1. GraphQuery(r, c) \in Claims
    <2>1. \A stem \in Stems \cup {"none"} : [Direct EXCEPT !.priority = 3, !.graph = stem] \in Plans
      <3>1. 3 \in 0 .. 6
        OBVIOUS
      <3> QED BY <3>1, DirectPlan, PlanWith
    <2>2. Resolved(r, Candidates(r)) \in Stems \cup {"none"}
      BY ResolvedStem, CandidateStems
    <2> QED BY <2>1, <2>2 DEF GraphQuery, Claims
  <1>2. \A t \in ToolNames : Calling(<<t>>, 3, "keyword") \in Plans
    <2>1. 3 \in 0 .. 6 /\ "keyword" \in PlanSignals
      BY DEF PlanSignals
    <2> QED BY <2>1, OneTool, CallingPlan
  <1>3. {"hacker_news_search", "news_search", "github_release", "github_search", "web_search"}
           \subseteq ToolNames
    BY DEF ToolNames
  <1> QED BY <1>1, <1>2, <1>3 DEF HackerNews, News, GithubRelease, Github, Factual, Claims

LEMMA LastGates ==
  ASSUME NEW r, NEW c, NEW lastTools
  PROVE  /\ Episodic(r, c) \in Claims /\ Corpus(r, c) \in Claims
         /\ ToolFallback(r, c, lastTools) \in Claims
  <1>1. Episodic(r, c) \in Claims
    <2>1. 5 \in 0 .. 6 /\ TRUE \in BOOLEAN
      OBVIOUS
    <2>2. [Direct EXCEPT !.episodic = TRUE, !.priority = 5] \in Plans
      BY <2>1, DirectPlan, PlanWith
    <2> QED BY <2>2 DEF Episodic, Claims
  <1>2. Corpus(r, c) \in Claims
    <2>1. \A b \in BOOLEAN : [Direct EXCEPT !.rag = TRUE, !.episodic = b, !.priority = 4] \in Plans
      <3>1. 4 \in 0 .. 6 /\ TRUE \in BOOLEAN
        OBVIOUS
      <3> QED BY <3>1, DirectPlan, PlanWith
    <2>2. (Episodic(r, c) # NoPlan) \in BOOLEAN
      OBVIOUS
    <2> QED BY <2>1, <2>2 DEF Corpus, Claims
  <1>3. ToolFallback(r, c, lastTools) \in Claims
    <2>1. Classified(r, c, lastTools) \in {"none", "web_search", "file_op", "url_fetch"}
      BY DEF Classified
    <2>2. {"web_search", "file_op", "url_fetch"} \subseteq ToolNames
      BY DEF ToolNames
    <2>3. \A t \in ToolNames : Calling(<<t>>, 6, "classifier_fallback") \in Plans
      <3>1. 6 \in 0 .. 6 /\ "classifier_fallback" \in PlanSignals
        BY DEF PlanSignals
      <3> QED BY <3>1, OneTool, CallingPlan
    <2> QED BY <2>1, <2>2, <2>3 DEF ToolFallback, Claims
  <1> QED BY <1>1, <1>2, <1>3

-----------------------------------------------------------------------------
(* The chain                                                               *)

\* The first gate that claims the turn.
LEMMA FirstClaims ==
  ASSUME NEW T, NEW m \in DOMAIN T, DOMAIN T \subseteq Nat,
         T[m] # NoPlan, \A k \in DOMAIN T : k < m => T[k] = NoPlan
  PROVE  T[Min({k \in DOMAIN T : T[k] # NoPlan})] = T[m]
  <1> DEFINE S == {k \in DOMAIN T : T[k] # NoPlan}
  <1>1. m \in S /\ \A y \in S : m =< y
    OBVIOUS
  <1>2. S \subseteq Nat
    OBVIOUS
  <1> HIDE DEF S
  <1>3. Min(S) \in S /\ \A y \in S : Min(S) =< y
    BY <1>1 DEF Min
  <1>4. Min(S) = m
    BY <1>1, <1>2, <1>3
  <1> QED BY <1>4 DEF S

Chain(r, c, lastTools) ==
    << SlashCommand(r), Compound(r), Ingest(r), PinnedDiff(r, c),
       Diff(r, c), Memory(r), GraphQuery(r, c), HackerNews(r), News(r),
       GithubRelease(r), Github(r), Tool(r, c), Factual(r, c),
       Corpus(r, c), Episodic(r, c), ToolFallback(r, c, lastTools),
       Direct >>

LEMMA RouteChain ==
  ASSUME NEW r, NEW c, NEW lastTools
  PROVE  Route(r, c, lastTools) = Chain(r, c, lastTools)[Min({k \in DOMAIN Chain(r, c, lastTools) :
                                                            Chain(r, c, lastTools)[k] # NoPlan})]
  BY DEF Route, Chain

LEMMA ChainTyped ==
  ASSUME NEW r, NEW c, NEW lastTools, r.pins \subseteq Pages
  PROVE  /\ DOMAIN Chain(r, c, lastTools) = 1 .. 17
         /\ \A k \in 1 .. 17 : Chain(r, c, lastTools)[k] \in Claims
         /\ Chain(r, c, lastTools)[17] = Direct
  <1>1. Tool(r, c) \in Claims /\ Direct \in Claims
    BY ToolPlan, DirectPlan DEF Claims
  <1> QED BY <1>1, CommandGates, PinnedDiffGate, FeedGates, LastGates DEF Chain

LEMMA LeastOf ==
  ASSUME NEW S \in SUBSET Nat, S # {}
  PROVE  \E m \in S : \A k \in S : m =< k
  <1>1. PICK m \in S : \A k \in S : ~ (<<k, m>> \in OpToRel(<, Nat))
    BY NatLessThanWellFounded, WFMin
  <1>2. \A k \in S : ~(k < m)
    BY <1>1 DEF OpToRel
  <1> QED BY <1>2

\* The chain ends in Direct, so some gate claims every turn.
LEMMA FirstOf ==
  ASSUME NEW r, NEW c, NEW lastTools, r.pins \subseteq Pages
  PROVE  \E m \in 1 .. 17 :
            /\ Route(r, c, lastTools) = Chain(r, c, lastTools)[m]
            /\ Route(r, c, lastTools) # NoPlan
            /\ \A k \in 1 .. 17 : k < m => Chain(r, c, lastTools)[k] = NoPlan
  <1> DEFINE T == Chain(r, c, lastTools)
             S == {k \in 1 .. 17 : T[k] # NoPlan}
  <1>1. DOMAIN T = 1 .. 17 /\ T[17] # NoPlan
    BY ChainTyped, DirectPlan, PlanClaims
  <1>2. Route(r, c, lastTools) = T[Min({k \in DOMAIN T : T[k] # NoPlan})]
    BY RouteChain
  <1> HIDE DEF T
  <1>3. S # {} /\ S \in SUBSET Nat
    BY <1>1
  <1>4. PICK m \in S : \A k \in S : m =< k
    BY <1>3, LeastOf
  <1>5. m \in 1 .. 17 /\ T[m] # NoPlan
    BY <1>4
  <1>6. \A k \in 1 .. 17 : k < m => T[k] = NoPlan
    BY <1>4, <1>5
  <1>7. T[Min({k \in DOMAIN T : T[k] # NoPlan})] = T[m]
    BY <1>1, <1>5, <1>6, FirstClaims
  <1> QED BY <1>2, <1>5, <1>6, <1>7 DEF T

\* Every turn gets a plan, whatever the instruction says, whatever the
\* services answer and however the planner is configured (_route_impl).
THEOREM RouteIsPlan ==
  ASSUME NEW r, NEW c, NEW lastTools, r.pins \subseteq Pages
  PROVE  Route(r, c, lastTools) \in Plans
  <1>1. PICK m \in 1 .. 17 : /\ Route(r, c, lastTools) = Chain(r, c, lastTools)[m]
                             /\ Route(r, c, lastTools) # NoPlan
    BY FirstOf
  <1>2. Chain(r, c, lastTools)[m] \in Claims
    BY ChainTyped
  <1> QED BY <1>1, <1>2 DEF Claims

\* The gates before _priority3_tool, for an instruction that names a file or
\* a URL and neither a command nor a write to storage.
Unclaimed(r) ==
    ForFileOrUrl(r) /\ ~Says(r, StorageWords \cup SlashWords \cup {"raw_path"})

LEMMA LeftToTool ==
  ASSUME NEW r, NEW c, Unclaimed(r)
  PROVE  /\ SlashCommand(r) = NoPlan /\ Compound(r) = NoPlan /\ Ingest(r) = NoPlan
         /\ PinnedDiff(r, c) = NoPlan /\ Diff(r, c) = NoPlan /\ Memory(r) = NoPlan
         /\ GraphQuery(r, c) = NoPlan /\ HackerNews(r) = NoPlan /\ News(r) = NoPlan
         /\ GithubRelease(r) = NoPlan /\ Github(r) = NoPlan
  <1>1. /\ ~Says(r, {"ingest", "raw_path"}) /\ ~Says(r, {"diff"}) /\ ~Says(r, {"diff_lead"})
        /\ ~Says(r, {"memory", "remember"}) /\ "/chart" \notin r.says /\ "/research" \notin r.says
    BY DEF Unclaimed, Says, StorageWords, SlashWords
  <1>2. ForFileOrUrl(r)
    BY DEF Unclaimed
  <1>3. SlashCommand(r) = NoPlan
    BY <1>1 DEF SlashCommand
  <1>4. Compound(r) = NoPlan /\ Ingest(r) = NoPlan /\ Memory(r) = NoPlan
    BY <1>1 DEF Compound, Ingest, Memory
  <1>5. PinnedDiff(r, c) = NoPlan /\ Diff(r, c) = NoPlan
    BY <1>1 DEF PinnedDiff, Diff
  <1>6. GraphQuery(r, c) = NoPlan /\ HackerNews(r) = NoPlan /\ News(r) = NoPlan
    BY <1>2 DEF GraphQuery, HackerNews, News
  <1>7. GithubRelease(r) = NoPlan /\ Github(r) = NoPlan
    BY <1>2 DEF GithubRelease, Github
  <1> QED BY <1>3, <1>4, <1>5, <1>6, <1>7

LEMMA ToolHonours ==
  ASSUME NEW r, NEW c, ForFileOrUrl(r)
  PROVE  /\ Tool(r, c) # NoPlan
         /\ \/ Tool(r, c).deferred # "none"
            \/ Holds(Tool(r, c).tools, "file_op") \/ Holds(Tool(r, c).tools, "url_fetch")
  <1>1. FileWanted(r) \/ Says(r, {"fetch", "url"})
    BY DEF ForFileOrUrl, FileWanted, Says
  <1>2. ~Holds(<<>>, "file_op") /\ ~Holds(<<>>, "url_fetch")
    BY DEF Holds
  <1>3. \/ FileDeferred(r)
        \/ Holds(Tools(r, c), "file_op") \/ Holds(Tools(r, c), "url_fetch")
    BY <1>1, ToolsTyped
  <1>4. Tools(r, c) # <<>> \/ FileDeferred(r)
    BY <1>2, <1>3
  <1>5. /\ Tool(r, c) # NoPlan
        /\ Tool(r, c).tools = Tools(r, c)
        /\ Tool(r, c).deferred = IF FileDeferred(r) THEN FileAction(r) ELSE "none"
    BY <1>4, ToolClaims, PlanClaims
  <1>6. FileDeferred(r) => FileAction(r) \in {"append", "write"}
    BY DEF FileDeferred, FileAction
  <1> QED BY <1>3, <1>5, <1>6

\* An instruction that names a file or a URL is heard by _priority3_tool
\* before any feed it also names, unless it is a command or a write to
\* storage: each earlier gate of _route_impl repeats the guard, and a plan
\* of _priority3_tool then has the tool or a deferred save.
THEOREM FileOrUrlRouted ==
  ASSUME NEW r, NEW c, NEW lastTools, r.pins \subseteq Pages, Unclaimed(r)
  PROVE  LET plan == Route(r, c, lastTools)
         IN  \/ plan.deferred # "none"
             \/ Holds(plan.tools, "file_op") \/ Holds(plan.tools, "url_fetch")
  <1> DEFINE T == Chain(r, c, lastTools)
  <1>1. \A k \in 1 .. 11 : T[k] = NoPlan
    BY LeftToTool DEF Chain
  <1>2. T[12] = Tool(r, c)
    BY DEF Chain
  <1>3. DOMAIN T = 1 .. 17
    BY ChainTyped
  <1>4. ForFileOrUrl(r)
    BY DEF Unclaimed
  <1>5. Tool(r, c) # NoPlan
    BY <1>4, ToolHonours
  <1>6. PICK m \in 1 .. 17 : /\ Route(r, c, lastTools) = T[m] /\ Route(r, c, lastTools) # NoPlan
                             /\ \A k \in 1 .. 17 : k < m => T[k] = NoPlan
    BY FirstOf
  <1> HIDE DEF T
  <1>7. m \notin 1 .. 11
    BY <1>1, <1>6
  <1>8. ~(12 < m)
    BY <1>2, <1>5, <1>6
  <1>9. m = 12
    BY <1>7, <1>8
  <1>10. Route(r, c, lastTools) = Tool(r, c)
    BY <1>2, <1>6, <1>9
  <1> QED BY <1>4, <1>10, ToolHonours
===============================================================================
