--------------------------- MODULE MCArticleCache ---------------------------
(* ArticleCache on small instances. *)
EXTENDS ArticleCache, TLC

Symmetry == Permutations(Reader) \cup Permutations(Writer)
=============================================================================
