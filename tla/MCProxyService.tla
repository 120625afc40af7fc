--------------------------- MODULE MCProxyService ---------------------------
(* Instances of the gateway for TLC. *)
EXTENDS ProxyService, TLC

\* Nothing tells two models apart; used by the run without liveness.
ModelSymmetry == Permutations(Models)
=============================================================================
