--------------------------- MODULE MCShowtimes ---------------------------
(* Values of the constants of Showtimes for TLC.                           *)
EXTENDS Showtimes

CONSTANTS f1, f2
==========================================================================
