-------------------------- MODULE MCSeatBooking --------------------------
(* Values of the constants of SeatBooking for TLC.                         *)
EXTENDS SeatBookingInv, TLC

CONSTANTS a1, d1, d2, s1, s2, x, y

\* All phones are of one account.
SameAccount == [d \in Devices |-> a1]

\* Seats are interchangeable: no definition names one.
SeatSymmetry == Permutations(Seats)

\* So are phones of one account.
SeatAndPhoneSymmetry == Permutations(Seats) \cup Permutations(Devices)

\* So are shows.
SeatAndShowSymmetry == Permutations(Seats) \cup Permutations(Shows)
==========================================================================
