------------------------- MODULE SeatBookingInv -------------------------
(***************************************************************************)
(* The inductive invariants behind the theorems of SeatBookingProofs and   *)
(* SeatLedgerProofs.  TLC checks them as invariants of its runs.           *)
(***************************************************************************)
EXTENDS SeatBooking

\* The seat screen is covered by another route of the booking path.
Paying(d) == screen[d] \in Screens \ {"home", "select"}

\* The show of a device is set exactly while its seat screen exists.
RouteInv == \A d \in Devices : show[d] = NoShow <=> screen[d] = "home"

\* Nothing can be paid for without a selection of at most MaxSeats seats.
SelectionInv ==
  \A d \in Devices :
    /\ Paying(d) => seatIndex[d] # {}
    /\ Cardinality(seatIndex[d]) <= MaxSeats

\* What FinalPay was given, and the amount once Pay was pressed, belong to
\* the current selection.
OrderInv ==
  \A d \in Devices :
    LET n == Cardinality(seatIndex[d])
    IN /\ Paying(d) => /\ order[d].tickets = n
                       /\ order[d].totalprice = TotalPrice(n)
       /\ Paying(d) /\ screen[d] # "final" => order[d].amount = TotalAmount(n)

\* A call of inserttickets in progress has its payment screen, and the
\* selection is still the one that was paid for.
InsertInv ==
  \A d \in Devices : \A n \in PayNums :
    inserts[d][n].st # "idle" =>
      /\ screen[d] \in PayScreens
      /\ n \in DOMAIN paid[d]
      /\ paid[d][n].show = show[d]
      /\ paid[d][n].seats = seatIndex[d]

\* The calls of inserttickets, the routes and the amounts fit the payments
\* they were made for, after any sequence of taps, answers and back steps
\* (selectSeat.dart 209-348, finalPay.dart 235-255, upi.dart 44-106).
BookingInv ==
  TypeOK /\ RouteInv /\ SelectionInv /\ OrderInv /\ InsertInv /\ TicketHonest
         /\ PaidAmountRight

\* The seats of the tickets in l that other devices than d issued are sent.
SentByOthers(d, l) ==
  \A k \in DOMAIN l : l[k].dev # d => ~ SeatWriteQueued(l[k].dev, l[k].pay)

\* The seats of the tickets of list l that d issued are not queued behind
\* write i of d.
SeatsAhead(d, i, l) ==
  \A k \in DOMAIN l : \A j \in DOMAIN writes[d] :
    (l[k].dev = d /\ i < j /\ writes[d][j].doc = "bookseats") =>
      writes[d][j].pay # l[k].pay

\* Seats go ahead of their ticket on every way it can take: in the queue of the
\* phone that sold them, and through the lists other phones of the account have
\* read and write back (upi.dart 57-61, 72-75, 85-104).
TicketOrderInv ==
  /\ SeatsBeforeTicket
  /\ \A d \in Devices : \A i \in PendingTickets(d) :
       /\ SentByOthers(d, writes[d][i].list)
       /\ SeatsAhead(d, i, writes[d][i].list)
  /\ \A d \in Devices : \A n \in PayNums : SentByOthers(d, inserts[d][n].snap)
--------------------------------------------------------------------------
(* The list of sold seats of a show, as long as no phone worked with an    *)
(* outdated one.                                                           *)

\* x contains every seat of s that is sold on the server or in a write that
\* device d has queued.
Covers(d, s, x) ==
  /\ sold[s] \subseteq x
  /\ \A i \in PendingSeats(d, s) : writes[d][i].seats \subseteq x

\* The queued writes of a show grow, starting from what is sold.
QueueGrows(d) ==
  \A s \in Shows \ outdated : \A i \in PendingSeats(d, s) :
    /\ sold[s] \subseteq writes[d][i].seats
    /\ \A j \in PendingSeats(d, s) :
         i < j => writes[d][i].seats \subseteq writes[d][j].seats

\* A payment is in its own queued write, or sold.
PaymentKept(d) ==
  \A n \in DOMAIN paid[d] : paid[d][n].show \notin outdated =>
    \/ paid[d][n].seats \subseteq sold[paid[d][n].show]
    \/ \E i \in PendingSeats(d, paid[d][n].show) :
         /\ writes[d][i].pay = n
         /\ paid[d][n].seats \subseteq writes[d][i].seats

\* What an open seat screen draws as sold, or will once an answer for its show
\* is taken up, misses no sale together with the list it has collected; on the
\* later screens the list alone misses none.
MapCurrent(d) ==
  show[d] \in Shows \ outdated =>
    /\ \A k \in Slots :
         (fetches[d][k].st = "served" /\ fetches[d][k].show = show[d]) =>
           Covers(d, show[d], finallist[d] \cup fetches[d][k].value)
    /\ (bloc[d].st = "Loaded" /\ bloc[d].show = show[d]) =>
         Covers(d, show[d], finallist[d] \cup bloc[d].ticket)
    /\ Paying(d) => Covers(d, show[d], finallist[d])

\* The list that will be written has the seats that are to be paid for.
ListHasSelection(d) == Paying(d) => seatIndex[d] \subseteq finallist[d]

DeviceLedger(d) ==
  QueueGrows(d) /\ PaymentKept(d) /\ MapCurrent(d) /\ ListHasSelection(d)

\* Until its lists get out of date, no later list of the sold seats of a show
\* is older than an earlier one: not in the queue, not in an answer under way,
\* not on the seat screen, on whatever phones the show is sold one after the
\* other (seats_bloc.dart 12-70, selectSeat.dart 320-325, upi.dart 44-59).
LedgerInv == \A d \in Devices : DeviceLedger(d)
--------------------------------------------------------------------------
(* The box office SeatBooking implements.                                  *)

\* The payments of device d whose write of the seats is still queued.
Due(d) == {n \in DOMAIN paid[d] : SeatWriteQueued(d, n)}

\* The queue of a device holds the seat writes in the order of the payments,
\* each of them for the show, and with the seats, that were paid for.
QueueOrdered(d) ==
  \A i \in DOMAIN writes[d] : writes[d][i].doc = "bookseats" =>
    /\ writes[d][i].pay \in DOMAIN paid[d]
    /\ writes[d][i].show = paid[d][writes[d][i].pay].show
    /\ paid[d][writes[d][i].pay].seats \subseteq writes[d][i].seats
    /\ \A j \in DOMAIN writes[d] :
         (i < j /\ writes[d][j].doc = "bookseats") =>
            writes[d][i].pay < writes[d][j].pay

\* What up to MaxSeats seats cost.
PriceOf ==
  [X \in {Y \in SUBSET Seats : Cardinality(Y) \in 1 .. MaxSeats} |->
     TotalAmount(Cardinality(X))]

\* The queues of all devices are in the order of the payments, each write for
\* the show and with the seats that were paid for, also when the list behind it
\* is out of date or another show's (selectSeat.dart 320-325, upi.dart 44-61,
\* card.dart 39-56).
QueueInv == \A d \in Devices : QueueOrdered(d)

\* A payment is a confirmed sale, and a seat write that reaches the server
\* enters it into the ledger.
Ledger == INSTANCE SeatLedger
  WITH Counters <- Devices,
       Price    <- PriceOf,
       MaxSales <- MaxPays,
       sales    <- paid,
       disputed <- outdated,
       due      <- [d \in Devices |-> Due(d)]

\* The booking path is a box office: every confirmed payment is stored once, in
\* order, with its seats and at their price, through any screens, late answers
\* and kills; and no write undoes another sale of a show unless phones have
\* worked with outdated lists of it (selectSeat.dart 320-348, finalPay.dart
\* 236-238, upi.dart 44-61).
ImplementsLedger == Ledger!Spec
==========================================================================
