------------------------------ MODULE MCBilling ------------------------------
(* Instances of Billing for TLC.                                            *)
EXTENDS Billing, TLC

Profile(p, q, g, f) == [pref |-> p, quota |-> q, playground |-> g, force |-> f]

\* Both fallbacks, a request without a token, and one that pre-consumes nothing.
MixedProfiles ==
  {Profile("wallet_first", 2, FALSE, FALSE), Profile("subscription_first", 0, FALSE, FALSE),
   Profile("subscription_only", 2, TRUE, FALSE)}

\* Every preference, with and without a token, forced or not.
AllProfiles ==
  {Profile(p, q, g, f) : p \in Preferences, q \in {0, 2}, g \in BOOLEAN, f \in BOOLEAN}

SubscriptionProfiles == {Profile("subscription_only", 2, FALSE, FALSE)}

Symmetry == Permutations(Requests)
=============================================================================
