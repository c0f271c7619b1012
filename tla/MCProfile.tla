---------------------------- MODULE MCProfile ----------------------------
(* Values of the constants of Profile for TLC.                             *)
EXTENDS Profile

CONSTANTS a, b, n
==========================================================================
