--------------------------- MODULE MCArticleReads ---------------------------
(* ArticleReads on a small instance, with the same requests in each part. *)
EXTENDS ArticleReads

Symmetry == Permutations(Reader) \cup Permutations(Writer)
=============================================================================
