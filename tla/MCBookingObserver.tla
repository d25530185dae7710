------------------------- MODULE MCBookingObserver -------------------------
EXTENDS BookingObserver, TLC
=============================================================================
