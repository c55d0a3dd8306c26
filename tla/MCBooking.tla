----------------------------- MODULE MCBooking -----------------------------
(* Small instances of Booking.  Bookings only differ by their ids. *)
EXTENDS Booking, TLC

Symmetry == Permutations(Bookings) \cup Permutations(Pros)
=============================================================================
