---------------------------- MODULE MCWikiCorpus ----------------------------
(* WikiCorpus on two pages: page p links to q in its block p2, page q links *)
(* to p in q1.  Turn k1 proposes a diff on each page.  Turn k2 proposes the *)
(* creation of page n and two diffs on p, of which one matches only after   *)
(* that of k1.                                                              *)
EXTENDS WikiCorpus

MCPages  == {"p", "q", "n"}
MCNoPage == {"no page"}
MCBlocks == {"p1", "p2", "p3", "p4", "q1", "q2", "n1"}
MCLink   == [b \in MCBlocks |-> IF b = "p2" THEN {"q", "n"}
                                ELSE IF b = "q1" THEN {"p"} ELSE {}]
MCInitial == [p \in MCPages |-> IF p = "p" THEN {"p1", "p4"}
                                ELSE IF p = "q" THEN {"q1"} ELSE MCNoPage]

d1 == [task |-> "k1", page |-> "p", before |-> "p1", after |-> "p2"]
d2 == [task |-> "k1", page |-> "q", before |-> "q1", after |-> "q2"]
d3 == [task |-> "k2", page |-> "n", before |-> NoBlock, after |-> "n1"]
d4 == [task |-> "k2", page |-> "p", before |-> "p2", after |-> "p3"]
d5 == [task |-> "k2", page |-> "p", before |-> "p4", after |-> "p3"]
Turns == {d1, d2, d3, d4, d5}

\* Two turns one job at a time, with a hand edit or a failed call at any step;
\* each of them with both; one turn that two threads apply, beside a query; one
\* turn and an episode.
Edited  == [tasks |-> {"k1", "k2"}, hands |-> 1, faults |-> 0, threads |-> {"t1"},
            queries |-> {}, episodes |-> {}]
Failing == [Edited EXCEPT !.hands = 0, !.faults = 1]
Either(k) == [Edited EXCEPT !.tasks = {k}, !.faults = 1]
Overlap == [Edited EXCEPT !.tasks = {"k1"}, !.hands = 0, !.threads = {"t1", "t2"},
                          !.queries = {"q"}]
Linked  == [Edited EXCEPT !.tasks = {"k1"}, !.hands = 0, !.episodes = {"e"}]
All     == {Edited, Failing, Either("k1"), Either("k2"), Overlap, Linked}
Linking == {Linked}

HandMade == {MCNoPage, {"p3"}}
=============================================================================
