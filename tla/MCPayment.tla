----------------------------- MODULE MCPayment -----------------------------
(* Small instances of Payment.  Orders and callers only differ by names. *)
EXTENDS Payment, TLC

Symmetry == Permutations(Orders) \cup Permutations(Callers)
=============================================================================
