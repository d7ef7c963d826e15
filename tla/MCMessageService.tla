-------------------------- MODULE MCMessageService --------------------------
(* MessageService on a small instance. *)
EXTENDS MessageService, TLC

Symmetry == Permutations(User) \cup Permutations(ChatRequest)
=============================================================================
