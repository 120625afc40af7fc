---------------------------- MODULE MCTaskPolling ----------------------------
(* Instances of TaskPolling for TLC. *)
EXTENDS TaskPolling, TLC

Symmetry == Permutations(Pollers)

=============================================================================
