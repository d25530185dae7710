---------------------------- MODULE MCBookings ----------------------------
EXTENDS Bookings, TLC

Symmetry == Permutations(BookingIds) \cup Permutations(Requests) \cup Permutations(Issues)
=============================================================================
