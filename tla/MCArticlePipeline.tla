------------------------- MODULE MCArticlePipeline -------------------------
(* Small instances of ArticlePipeline for TLC. *)
EXTENDS ArticlePipeline, TLC

Symmetry == Permutations(Consumer) \cup Permutations(Request)
=============================================================================
