------------------------------ MODULE MCPages ------------------------------
(* Pages on a small instance: see MCPages.cfg. *)
EXTENDS Pages

=============================================================================
