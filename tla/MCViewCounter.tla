--------------------------- MODULE MCViewCounter ---------------------------
(* ViewCounter on small instances. *)
EXTENDS ViewCounter, TLC

Symmetry == Permutations(Flusher)
=============================================================================
