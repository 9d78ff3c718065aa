--------------------------- MODULE MCEpisodeMemory ---------------------------
(* TLC instance of EpisodeMemory: request threads are interchangeable.      *)
EXTENDS EpisodeMemory, TLC

Symmetry == Permutations(Requests)
=============================================================================
