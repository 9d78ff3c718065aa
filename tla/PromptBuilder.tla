---------------------------- MODULE PromptBuilder ----------------------------
(***************************************************************************)
(* PromptBuilder (prompt_builder.py), the session file cache that feeds    *)
(* one of its slots (session_files.py) and the context profile that sizes  *)
(* another (context_profile.py): which of the items a turn offers reach    *)
(* the prompt.  An item is its length in characters; a token is four.      *)
(***************************************************************************)
EXTENDS Naturals, Sequences, FiniteSets, SequencesExt, FiniteSetsExt

CONSTANTS
    FileEach, FileTotal,   \* _CEIL_SESSION_FILES_EACH and _TOTAL, in tokens
    FileLabel,             \* characters of a file's opening and closing labels
    RagCeiling,            \* _CEIL_RAG, in tokens
    SourceHeader,          \* characters of "Source: <path>"
    EpisodeCeiling,        \* _CEIL_EPISODIC, in tokens
    StateCeiling,          \* _CEIL_WORKING_STATE, in tokens
    WorkingDefault,        \* _CEIL_WORKING, in tokens
    CutMark                \* characters of "... [truncated]"

ASSUME CeilingsAssumption ==
    {FileEach, FileTotal, FileLabel, RagCeiling, SourceHeader, EpisodeCeiling,
     StateCeiling, WorkingDefault, CutMark} \subseteq Nat

Tokens(chars) == chars \div 4

\* The running totals of a sequence, the sum of its first k lengths, and the
\* longest prefix within a budget.
Totals(lengths) ==
    LET total[n \in 0 .. Len(lengths)] == IF n = 0 THEN 0 ELSE total[n - 1] + lengths[n]
    IN  total
SumTo(lengths, k)    == Totals(lengths)[k]
Fitting(lengths, n)  == Max({k \in 0 .. Len(lengths) : SumTo(lengths, k) <= n})

\* _truncate_to_tokens
Truncated(chars, tokens) == IF chars <= 4 * tokens THEN chars ELSE 4 * tokens + CutMark

-----------------------------------------------------------------------------
(* Session files: a sequence of [name, chars, source]                      *)

TotalTokens(files) == FoldLeft(+, 0, [k \in DOMAIN files |-> Tokens(files[k].chars)])
IndexOf(files, name) == {k \in DOMAIN files : files[k].name = name}

\* add_file refuses a file over its ceiling, and one that would take the
\* total over the total ceiling.
Accepted(files, f) ==
    LET others == SelectSeq(files, LAMBDA g : g.name # f.name)
    IN  /\ Tokens(f.chars) <= FileEach
        /\ TotalTokens(others) + Tokens(f.chars) <= FileTotal

\* Mutant: a file of the same name is kept.
AppendedFile(files, f) == Append(files, f)

\* A file of the same name is replaced in place.
AddFile(files, f) ==
    IF IndexOf(files, f.name) = {} THEN Append(files, f)
    ELSE [files EXCEPT ![CHOOSE k \in IndexOf(files, f.name) : TRUE] = f]
RemoveFile(files, name) == RemoveAt(files, CHOOSE k \in IndexOf(files, name) : TRUE)
Pins(files) == {files[k].name : k \in {j \in DOMAIN files : files[j].source = "wiki_pin"}}

\* _slot_session_files: whole blocks, labels included, while the total lasts.
FileBlock(f) == Tokens(Truncated(f.chars, FileEach) + FileLabel)
FilesTokens(files) ==
    LET blocks == [k \in DOMAIN files |-> FileBlock(files[k])]
    IN  SumTo(blocks, Fitting(blocks, FileTotal))

-----------------------------------------------------------------------------
(* Retrieval and memory                                                    *)

\* _slot3_combined: episodic bullets up to the first that overflows.
EpisodesTokens(bullets) ==
    Max({t \in {Tokens(SumTo(bullets, k)) : k \in 0 .. Len(bullets)} : t <= EpisodeCeiling})

\* _slot4_rag: at most three sources; the one that overflows is cut and the
\* last that is shown.
Cite(acc, docs, k) ==
    LET room  == acc.left - SourceHeader - 2
        block == SourceHeader + 1 + (IF docs[k] > room THEN room + CutMark ELSE docs[k])
    IN  IF k > Len(docs) THEN acc
        ELSE IF acc.left <= SourceHeader + 2 THEN [acc EXCEPT !.left = 0]
        ELSE [left |-> IF acc.left > block + 1 THEN acc.left - block - 1 ELSE 0,
              used |-> acc.used + block + 1]
SourcesTokens(docs) ==
    LET none == [left |-> 4 * RagCeiling, used |-> 0]
    IN  Tokens(Cite(Cite(Cite(none, docs, 1), docs, 2), docs, 3).used)

\* _slot6a_working_state: the project's line whatever its length, and of the n
\* sources as many as fit beside it.
StateTokens(project, n) ==
    LET lines == {Tokens(project + k * SourceHeader) : k \in 0 .. n}
    IN  Max({Tokens(project)} \cup {t \in lines : t <= StateCeiling})

\* Mutant: the history may take the whole window.
WorkingWhole(local, window, headroom, cloud) == IF local THEN window ELSE cloud

\* profile_for: a cloud model's allowance, or what a local model's window
\* leaves after the other slots.
WorkingTokens(local, window, headroom, cloud) ==
    IF local THEN Max({WorkingDefault, IF window > headroom THEN window - headroom ELSE 0})
    ELSE cloud

\* _trim_working_memory: the oldest turns are dropped first.
TurnsTokens(turns, ceiling) ==
    LET all  == SumTo(turns, Len(turns))
        from == {all - SumTo(turns, k) : k \in 0 .. Len(turns)}
    IN  Tokens(Max({n \in from : n <= 4 * ceiling}))
=============================================================================
