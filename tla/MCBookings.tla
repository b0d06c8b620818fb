------------------------------ MODULE MCBookings ------------------------------
(* A small instance of Bookings for TLC: windows that touch, and two bookings  *)
(* of the same window.                                                         *)
EXTENDS Bookings, TLC

MCWindows == {<<0, 2>>, <<2, 4>>}
MCSymmetry == Permutations(Customers) \cup Permutations(Requests)
=============================================================================
