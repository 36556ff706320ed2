----------------------- MODULE MCTransactionLifecycle -----------------------
(***************************************************************************)
(* TransactionLifecycle on four calls of sendMessage, each of which brings *)
(* a transmission of its own: enough for an older command, one that joins  *)
(* it, one that supersedes both and a bystander.                           *)
(***************************************************************************)
EXTENDS TransactionLifecycle, TLC

Symmetry == Permutations(Lifecycle) \cup Permutations(Caller)
=============================================================================
