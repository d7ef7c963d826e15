------------------------------ MODULE MCAccess ------------------------------
(* Access on a small instance, with the same requests and names in each part. *)
EXTENDS Access, TLC

Symmetry == Permutations(AccountRequest) \cup Permutations(Name)
=============================================================================
