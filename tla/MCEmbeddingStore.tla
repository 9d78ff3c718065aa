-------------------------- MODULE MCEmbeddingStore --------------------------
(* TLC instance of EmbeddingStore: models and texts are interchangeable.   *)
EXTENDS EmbeddingStore, TLC

Symmetry == Permutations(Models) \cup Permutations(Texts)
=============================================================================
