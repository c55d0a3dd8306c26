----------------------------- MODULE MCAccounts -----------------------------
(* Accounts on a small instance: see MCAccounts.cfg.  What is permuted belongs *)
(* to the services and to the profile, about which no liveness is stated: in   *)
(* the other parts every permutation is the identity.                          *)
EXTENDS Accounts, TLC

Symmetry ==
  Permutations(Files) \cup Permutations(Phones) \cup Permutations(Cins) \cup Permutations(Calls)

=============================================================================
