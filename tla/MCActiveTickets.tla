------------------------- MODULE MCActiveTickets -------------------------
(* A calendar for TLC.                                                     *)
EXTENDS ActiveTickets

\* The first day is in December, the last in January, whose number has one
\* digit only.
NewYear == [d \in Days |-> IF d = MaxDay THEN 1 ELSE 12]
==========================================================================
