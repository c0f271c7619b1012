---------------------------- MODULE MCSession ----------------------------
(* Values of the constants of Session for TLC.                             *)
EXTENDS Session

CONSTANTS u1, u2
==========================================================================
