----------------------------- MODULE MCSessions -----------------------------
(* Sessions on a small instance: see MCSessions.cfg.  Tokens only are permuted: *)
(* neither the fairness nor the liveness property names one, so the reduced     *)
(* graph has a fair cycle where the whole one has.                              *)
EXTENDS Sessions, TLC

Symmetry == Permutations(Tokens)

=============================================================================
