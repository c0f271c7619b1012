---------------------------- MODULE SeatLedger ----------------------------
(***************************************************************************)
(* What the booking path promises about the sold seats of a show, with no  *)
(* screens, reads, queues or kills: a box office.                          *)
(*                                                                         *)
(* A counter confirms sales to its customers and enters them into the      *)
(* ledger later: in the order in which it confirmed them, each one once.   *)
(* An entry may close more seats than its own sale asks for, never fewer.  *)
(* It takes no seat out of the ledger, unless the show is disputed: then   *)
(* the counters no longer agree on what is sold.                           *)
(*                                                                         *)
(* SeatBookingInv states that SeatBooking implements this specification.   *)
(***************************************************************************)
EXTENDS Naturals, Sequences

CONSTANTS
  Counters,  \* where seats are sold
  Shows,
  Seats,
  Price,     \* the price of every set of seats that may be sold at once
  MaxSales   \* bound: sales of a counter

VARIABLES
  sold,      \* the ledger: the seats of every show that are sold
  sales,     \* per counter: the sales confirmed, in order
  due,       \* per counter: the numbers of the sales not yet in the ledger
  disputed   \* the shows whose entries may undo others

ledgerVars == <<sold, sales, due, disputed>>

Init ==
  /\ sold = [s \in Shows |-> {}]
  /\ sales = [c \in Counters |-> <<>>]
  /\ due = [c \in Counters |-> {}]
  /\ disputed = {}

\* Counter c confirms the sale of some seats of a show, at their price.
Confirm(c) ==
  /\ UNCHANGED <<sold, disputed>>
  /\ Len(sales[c]) < MaxSales
  /\ due' = [due EXCEPT ![c] = @ \cup {Len(sales[c]) + 1}]
  /\ \E s \in Shows, X \in DOMAIN Price :
       sales' = [sales EXCEPT
                   ![c] = Append(@, [show |-> s, seats |-> X, amount |-> Price[X]])]

\* The oldest sale counter c owes, number n, goes into the ledger, perhaps with
\* more seats than its own.  It may be the entry that makes the next one of
\* the show unsafe.
Enter(c, n) ==
  LET s == sales[c][n].show
  IN /\ UNCHANGED sales
     /\ \A m \in due[c] : n <= m
     /\ due' = [due EXCEPT ![c] = @ \ {n}]
     /\ \E X \in SUBSET Seats :
          /\ sales[c][n].seats \subseteq X
          /\ s \notin disputed => sold[s] \subseteq X
          /\ sold' = [sold EXCEPT ![s] = X]
     /\ disputed' \in {disputed, disputed \cup {s}}

\* A counter takes up a list of show s that is out of date.
Dispute(s) ==
  /\ disputed' = disputed \cup {s}
  /\ UNCHANGED <<sold, sales, due>>

Next ==
  \/ \E c \in Counters : Confirm(c) \/ \E n \in due[c] : Enter(c, n)
  \/ \E s \in Shows : Dispute(s)

Spec == Init /\ [][Next]_ledgerVars
==========================================================================
