---------------------------- MODULE MCBookingTx ----------------------------
(* Small instances of BookingTx.  Bookings and workers only differ by names. *)
EXTENDS BookingTx, TLC

Symmetry == Permutations(Bookings) \cup Permutations(Workers)
=============================================================================
