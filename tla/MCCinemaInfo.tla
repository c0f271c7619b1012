--------------------------- MODULE MCCinemaInfo --------------------------
(* Values of the constants of CinemaInfo for TLC.                          *)
EXTENDS CinemaInfo

CONSTANTS c1, c2
==========================================================================
