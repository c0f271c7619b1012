--------------------------- MODULE SeatBooking ---------------------------
(***************************************************************************)
(* The ticket-booking path of the app, from the seat map of a show to the  *)
(* two Firestore documents a payment writes:                               *)
(*                                                                         *)
(*   SelectSeat -> FinalPay -> PaymentMethod -> UPI / Cards -> dialog      *)
(*                                                                         *)
(* Every device runs one copy of the app.  The devices share the document  *)
(* bookseats/movie_name (the sold seats of every show) and, per account,   *)
(* users/<uid> (the tickets of the account).  Everything on a device runs  *)
(* in one isolate: an action is a piece of Dart code that runs without     *)
(* reaching an await, or one answer of Firestore.                          *)
(*                                                                         *)
(* Lists of which the code only asks `contains' are sets: finallist and    *)
(* the sold seats.  So is seatIndex (with its twin seatsoften), which the  *)
(* code also measures but keeps free of duplicates.  The tickets of an     *)
(* account stay a sequence, the newest first.                              *)
(***************************************************************************)
EXTENDS Naturals, Sequences, FiniteSets

CONSTANTS
  Devices,      \* running copies of the app
  Accounts,     \* documents of the collection `users'
  AccountOf,    \* the account that is signed in on a device
  Shows,        \* film, cinema, date and time: one path in the document
  NoShow,       \* no seat screen is open
  Seats,        \* the cells of the seat grid (168 in the code)
  MaxSeats,     \* seats one selection may hold (6 in the code)
  Methods,      \* bound: the ways of paying that users choose
  MaxFetches,   \* bound: fetches of seats in flight on a device
  MaxPays       \* bound: payments made on a device

ASSUME AccountAssumption == AccountOf \in [Devices -> Accounts]
ASSUME ShowAssumption    == NoShow \notin Shows
ASSUME SeatAssumption    == IsFiniteSet(Seats)
ASSUME BoundAssumption   == /\ MaxSeats \in Nat \ {0}
                            /\ MaxFetches \in Nat
                            /\ MaxPays \in Nat

VARIABLES
  sold,       \* Firestore: bookseats/movie_name
  tickets,    \* Firestore: the field `ticket' of users/<uid>
  writes,     \* per device: writes the Firestore client has not yet sent
  screen,     \* per device: the route on top of the navigator
  show,       \* per device: the show of the open seat screen
  seatIndex,  \* per device: the selection of the open seat screen
  finallist,  \* per device: the list of sold seats a payment will write
  order,      \* per device: what FinalPay was given, and the amount to pay
  bloc,       \* per device: state of the one SeatsBloc of the app
  fetches,    \* per device: FetchSeats handlers waiting for their answer
  inserts,    \* per device: inserttickets calls of the open payment screen
  paid,       \* per device, history: the payments confirmed to the user
  outdated    \* history: the shows of which a phone may have worked with a
              \* list of sold seats that was no longer, or never, theirs

vars == <<sold, tickets, writes, screen, show, seatIndex, finallist, order,
          bloc, fetches, inserts, paid, outdated>>

seatVars   == <<show, seatIndex, finallist>>
serverVars == <<sold, tickets, outdated>>
--------------------------------------------------------------------------
(* Prices, as the code has them.                                           *)
price  == 200
fee    == 63
confee == 1

\* What n seats cost (SelectSeat's To Pay and FinalPay's total).
TotalPrice(n)  == n * price
TotalAmount(n) == TotalPrice(n) + fee + n * confee
--------------------------------------------------------------------------
Screens    == {"home", "select", "final", "method",
               "upi", "card", "upiDone", "cardDone"}
PayScreens == {"upi", "card", "upiDone", "cardDone"}

Slots   == 1 .. MaxFetches
PayNums == 1 .. MaxPays

\* A ticket of a users document.  dev and pay, which the code does not
\* store, name the payment the ticket stands for.
Ticket == [dev : Devices, pay : Nat, show : Shows, seats : SUBSET Seats]

SeatWrite   == [doc : {"bookseats"}, pay : Nat,
                show : Shows, seats : SUBSET Seats]
TicketWrite == [doc : {"users"}, list : Seq(Ticket)]

\* One FetchSeats handler: free, waiting for Firestore, or answered but not
\* yet resumed.
FetchRec == [st : {"idle", "sent", "served"}, show : Shows \cup {NoShow},
             value : SUBSET Seats]
NoFetch  == [st |-> "idle", show |-> NoShow, value |-> {}]

\* One inserttickets call, likewise; snap is the list it read.
InsertRec == [st : {"idle", "sent", "served"}, snap : Seq(Ticket)]
NoInsert  == [st |-> "idle", snap |-> <<>>]

\* What FinalPay is given, and the amount it hands on once Pay was pressed.
Order   == [tickets : Nat, totalprice : Nat, amount : Nat]
NoOrder == [tickets |-> 0, totalprice |-> 0, amount |-> 0]

\* State of the bloc; show names the show whose seats ticket holds.
SeatsState == [st : {"Initial", "Loading", "Loaded", "Error"},
               ticket : SUBSET Seats, show : Shows \cup {NoShow}]
SeatsInitial == [st |-> "Initial", ticket |-> {}, show |-> NoShow]
SeatsLoading == [st |-> "Loading", ticket |-> {}, show |-> NoShow]
SeatsError   == [st |-> "Error", ticket |-> {}, show |-> NoShow]

\* A payment confirmed to the user.
Payment == [show : Shows, seats : SUBSET Seats, amount : Nat]

\* Types of the variables, with the shape of the two documents
\* (upi.dart 49-55, 85-98).
TypeOK ==
  /\ sold \in [Shows -> SUBSET Seats]
  /\ tickets \in [Accounts -> Seq(Ticket)]
  /\ writes \in [Devices -> Seq(SeatWrite \cup TicketWrite)]
  /\ screen \in [Devices -> Screens]
  /\ show \in [Devices -> Shows \cup {NoShow}]
  /\ seatIndex \in [Devices -> SUBSET Seats]
  /\ finallist \in [Devices -> SUBSET Seats]
  /\ order \in [Devices -> Order]
  /\ bloc \in [Devices -> SeatsState]
  /\ fetches \in [Devices -> [Slots -> FetchRec]]
  /\ inserts \in [Devices -> [PayNums -> InsertRec]]
  /\ paid \in [Devices -> Seq(Payment)]
  /\ outdated \in SUBSET Shows

Init ==
  /\ sold = [s \in Shows |-> {}]
  /\ tickets = [a \in Accounts |-> <<>>]
  /\ writes = [d \in Devices |-> <<>>]
  /\ screen = [d \in Devices |-> "home"]
  /\ show = [d \in Devices |-> NoShow]
  /\ seatIndex = [d \in Devices |-> {}]
  /\ finallist = [d \in Devices |-> {}]
  /\ order = [d \in Devices |-> NoOrder]
  /\ bloc = [d \in Devices |-> SeatsInitial]
  /\ fetches = [d \in Devices |-> [k \in Slots |-> NoFetch]]
  /\ inserts = [d \in Devices |-> [n \in PayNums |-> NoInsert]]
  /\ paid = [d \in Devices |-> <<>>]
  /\ outdated = {}
--------------------------------------------------------------------------
(* The Firestore client.  A write is queued on the device, survives the    *)
(* process and is sent in order; a read sees the server's document with    *)
(* the device's own queued writes laid over it.                            *)

PendingSeats(d, s) ==
  {i \in DOMAIN writes[d] : /\ writes[d][i].doc = "bookseats"
                            /\ writes[d][i].show = s}

PendingTickets(d) == {i \in DOMAIN writes[d] : writes[d][i].doc = "users"}

\* v is what device d reads for show s.
ReadsSeats(d, s, v) ==
  \/ PendingSeats(d, s) = {} /\ v = sold[s]
  \/ \E i \in PendingSeats(d, s) : /\ \A j \in PendingSeats(d, s) : j <= i
                                   /\ v = writes[d][i].seats

\* The tickets device d reads for its own account.
ReadsTickets(d, l) ==
  \/ PendingTickets(d) = {} /\ l = tickets[AccountOf[d]]
  \/ \E i \in PendingTickets(d) : /\ \A j \in PendingTickets(d) : j <= i
                                  /\ l = writes[d][i].list

\* From now on lists of show s may be out of date, if c.
Marked(s, c) == IF c THEN outdated \cup {s} ELSE outdated

\* Device d has the seat screen of show s open, or a write of its list queued.
Selling(d, s) == show[d] = s \/ PendingSeats(d, s) # {}

\* Fault: the newest queued write is sent first.
SendWriteNewestFirst(d) ==
  /\ writes[d] # <<>>
  /\ LET w == writes[d][Len(writes[d])]
     IN IF w.doc = "bookseats"
          THEN /\ sold' = [sold EXCEPT ![w.show] = w.seats]
               /\ outdated' = Marked(w.show, \E e \in Devices \ {d} :
                                                Selling(e, w.show))
               /\ UNCHANGED tickets
          ELSE /\ tickets' = [tickets EXCEPT ![AccountOf[d]] = w.list]
               /\ UNCHANGED <<sold, outdated>>
  /\ writes' = [writes EXCEPT ![d] = SubSeq(@, 1, Len(@) - 1)]
  /\ UNCHANGED <<screen, seatVars, order, bloc, fetches, inserts, paid>>

\* The oldest queued write reaches the server.  set(.., merge: true)
\* replaces the list of its own show and leaves the other shows alone;
\* update replaces the field `ticket'.  No phone that sells the same show at
\* the time hears of it.
SendWrite(d) ==
  /\ writes[d] # <<>>
  /\ LET w == Head(writes[d])
     IN IF w.doc = "bookseats"
          THEN /\ sold' = [sold EXCEPT ![w.show] = w.seats]
               /\ outdated' = Marked(w.show, \E e \in Devices \ {d} :
                                                Selling(e, w.show))
               /\ UNCHANGED tickets
          ELSE /\ tickets' = [tickets EXCEPT ![AccountOf[d]] = w.list]
               /\ UNCHANGED <<sold, outdated>>
  /\ writes' = [writes EXCEPT ![d] = Tail(@)]
  /\ UNCHANGED <<screen, seatVars, order, bloc, fetches, inserts, paid>>
--------------------------------------------------------------------------
(* SeatsBloc.  Handlers run concurrently: an answer is emitted whenever it *)
(* comes, whatever was asked since.                                        *)

\* add(FetchSeats): the handler starts, emits SeatsLoading and asks.
FetchSeats(d, s) ==
  \E k \in Slots :
    /\ fetches[d][k].st = "idle"
    /\ \A j \in 1 .. (k - 1) : fetches[d][j].st # "idle"
    /\ fetches' = [fetches EXCEPT
                     ![d][k] = [st |-> "sent", show |-> s, value |-> {}]]
    /\ bloc' = [bloc EXCEPT ![d] = SeatsLoading]

\* Firestore answers the get of a handler.
ServeFetch(d, k) ==
  /\ fetches[d][k].st = "sent"
  /\ \E v \in SUBSET Seats :
       /\ ReadsSeats(d, fetches[d][k].show, v)
       /\ fetches' = [fetches EXCEPT ![d][k].st = "served", ![d][k].value = v]
  /\ UNCHANGED <<serverVars, writes, screen, seatVars, order, bloc, inserts,
                 paid>>

\* The handler resumes with the answer and emits SeatsLoaded.
EmitLoaded(d, k) ==
  /\ fetches[d][k].st = "served"
  /\ bloc' = [bloc EXCEPT ![d] = [st |-> "Loaded",
                                  ticket |-> fetches[d][k].value,
                                  show |-> fetches[d][k].show]]
  /\ fetches' = [fetches EXCEPT ![d][k] = NoFetch]
  /\ UNCHANGED <<serverVars, writes, screen, seatVars, order, inserts, paid>>

\* Fault: the catch block emits nothing.
EmitNoError(d, k) ==
  /\ fetches[d][k].st = "sent"
  /\ fetches' = [fetches EXCEPT ![d][k] = NoFetch]
  /\ UNCHANGED <<serverVars, writes, screen, seatVars, order, bloc, inserts,
                 paid>>

\* The get throws; the handler emits SeatsError.
EmitError(d, k) ==
  /\ fetches[d][k].st = "sent"
  /\ bloc' = [bloc EXCEPT ![d] = SeatsError]
  /\ fetches' = [fetches EXCEPT ![d][k] = NoFetch]
  /\ UNCHANGED <<serverVars, writes, screen, seatVars, order, inserts, paid>>
--------------------------------------------------------------------------
(* SelectSeat.                                                             *)

\* A showing is tapped on the cinema list: a new SelectSeat, whose initState
\* fetches the sold seats.  An answer from an earlier visit to the same show
\* may still be on its way to the bloc.
OpenShow(d, s) ==
  /\ screen[d] = "home"
  /\ screen' = [screen EXCEPT ![d] = "select"]
  /\ show' = [show EXCEPT ![d] = s]
  /\ FetchSeats(d, s)
  /\ outdated' = Marked(s, \E k \in Slots : /\ fetches[d][k].st = "served"
                                           /\ fetches[d][k].show = s)
  /\ UNCHANGED <<sold, tickets, writes, seatIndex, finallist, order, inserts,
                 paid>>

\* Pull to refresh.  The event is added a second after the gesture, when
\* another route may already cover the seat screen.
Refresh(d) ==
  /\ screen[d] # "home"
  /\ FetchSeats(d, show[d])
  /\ UNCHANGED <<serverVars, writes, screen, seatVars, order, inserts, paid>>

\* A seat that is not drawn as sold is tapped.
ToggleSeat(d, i) ==
  /\ screen[d] = "select"
  /\ bloc[d].st = "Loaded"
  /\ i \notin bloc[d].ticket
  /\ \/ /\ i \in seatIndex[d]
        /\ seatIndex' = [seatIndex EXCEPT ![d] = @ \ {i}]
     \/ /\ i \notin seatIndex[d]
        /\ Cardinality(seatIndex[d]) < MaxSeats
        /\ seatIndex' = [seatIndex EXCEPT ![d] = @ \cup {i}]
  /\ UNCHANGED <<serverVars, writes, screen, show, finallist, order, bloc,
                 fetches, inserts, paid>>

\* Proceed to Pay: list becomes the list to write, given what FinalPay gets.
\* FinalPay's initState fetches the seats again.  The list drawn as sold may
\* be another show's.
ProceedWith(d, list, given) ==
  /\ screen[d] = "select"
  /\ bloc[d].st = "Loaded"
  /\ seatIndex[d] # {}
  /\ finallist' = [finallist EXCEPT ![d] = list]
  /\ order' = [order EXCEPT ![d] = given]
  /\ screen' = [screen EXCEPT ![d] = "final"]
  /\ FetchSeats(d, show[d])
  /\ outdated' = Marked(show[d], bloc[d].show # show[d])
  /\ UNCHANGED <<sold, tickets, writes, show, seatIndex, inserts, paid>>

OrderFor(n) == [tickets |-> n, totalprice |-> TotalPrice(n), amount |-> 0]

\* Fault: the sold seats are left out of the list.
ProceedWithoutSold(d) ==
  ProceedWith(d, finallist[d] \cup seatIndex[d],
              OrderFor(Cardinality(seatIndex[d])))

\* Fault: the selection is left out of the list.
ProceedWithoutSelection(d) ==
  ProceedWith(d, finallist[d] \cup bloc[d].ticket,
              OrderFor(Cardinality(seatIndex[d])))

\* Fault: the order of the first visit is kept.
ProceedWithFirstOrder(d) ==
  ProceedWith(d, finallist[d] \cup bloc[d].ticket \cup seatIndex[d],
              IF order[d] = NoOrder THEN OrderFor(Cardinality(seatIndex[d]))
                                    ELSE [order[d] EXCEPT !.amount = 0])

\* finallist is a field of the SelectSeat widget: the seats drawn as sold and
\* the selection are added to it, and nothing ever leaves it.
ProceedToPay(d) ==
  ProceedWith(d, finallist[d] \cup bloc[d].ticket \cup seatIndex[d],
              OrderFor(Cardinality(seatIndex[d])))
--------------------------------------------------------------------------
(* FinalPay and PaymentMethod.                                             *)

\* Pay on FinalPay computes the amount from what the widget was given.
PressPay(d) ==
  /\ screen[d] = "final"
  /\ order' = [order EXCEPT ![d].amount =
                 order[d].totalprice + fee + order[d].tickets * confee]
  /\ screen' = [screen EXCEPT ![d] = "method"]
  /\ UNCHANGED <<serverVars, writes, seatVars, bloc, fetches, inserts, paid>>

ChooseUPI(d) ==
  /\ screen[d] = "method"
  /\ "upi" \in Methods
  /\ screen' = [screen EXCEPT ![d] = "upi"]
  /\ UNCHANGED <<serverVars, writes, seatVars, order, bloc, fetches, inserts,
                 paid>>

ChooseCard(d) ==
  /\ screen[d] = "method"
  /\ "card" \in Methods
  /\ screen' = [screen EXCEPT ![d] = "card"]
  /\ UNCHANGED <<serverVars, writes, seatVars, order, bloc, fetches, inserts,
                 paid>>
--------------------------------------------------------------------------
(* UPI and Cards.  Both hold the lists of the seat screen by reference:    *)
(* finalList is finallist[d] and currentList is seatIndex[d].              *)

\* Fault: the write overtakes what is queued.
InsertDataAhead(d) ==
  LET n == Len(paid[d]) + 1
  IN /\ n \in PayNums
     /\ writes' = [writes EXCEPT
                     ![d] = <<[doc |-> "bookseats", pay |-> n,
                               show |-> show[d],
                               seats |-> finallist[d]]>> \o @]
     /\ inserts' = [inserts EXCEPT ![d][n] = [st |-> "sent", snap |-> <<>>]]
     /\ paid' = [paid EXCEPT
                   ![d] = Append(@, [show |-> show[d], seats |-> seatIndex[d],
                                     amount |-> order[d].amount])]

\* insertData: queue the write of the sold seats, then start inserttickets,
\* which runs up to its first await.
InsertData(d) ==
  LET n == Len(paid[d]) + 1
  IN /\ n \in PayNums
     /\ writes' = [writes EXCEPT
                     ![d] = Append(@, [doc |-> "bookseats", pay |-> n,
                                       show |-> show[d],
                                       seats |-> finallist[d]])]
     /\ inserts' = [inserts EXCEPT ![d][n] = [st |-> "sent", snap |-> <<>>]]
     /\ paid' = [paid EXCEPT
                   ![d] = Append(@, [show |-> show[d], seats |-> seatIndex[d],
                                     amount |-> order[d].amount])]

\* Pay with the field filled in: insertData, then the success dialog.
PayUPI(d) ==
  /\ screen[d] = "upi"
  /\ InsertData(d)
  /\ screen' = [screen EXCEPT ![d] = "upiDone"]
  /\ UNCHANGED <<serverVars, seatVars, order, bloc, fetches>>

PayCard(d) ==
  /\ screen[d] = "card"
  /\ InsertData(d)
  /\ screen' = [screen EXCEPT ![d] = "cardDone"]
  /\ UNCHANGED <<serverVars, seatVars, order, bloc, fetches>>

\* Firestore answers the get of inserttickets.
ServeInsert(d, n) ==
  /\ inserts[d][n].st = "sent"
  /\ \E l \in {tickets[AccountOf[d]]}
              \cup {writes[d][i].list : i \in PendingTickets(d)} :
       /\ ReadsTickets(d, l)
       /\ inserts' = [inserts EXCEPT ![d][n] = [st |-> "served", snap |-> l]]
  /\ UNCHANGED <<serverVars, writes, screen, seatVars, order, bloc, fetches,
                 paid>>

\* inserttickets resumes: setState succeeds because the payment screen is
\* mounted; the ticket, built from the list the seat screen still owns, goes
\* in front of the tickets read, and the whole list is written back.
InsertTickets(d, n) ==
  /\ inserts[d][n].st = "served"
  /\ LET t == [dev |-> d, pay |-> n, show |-> show[d], seats |-> seatIndex[d]]
     IN writes' = [writes EXCEPT
                     ![d] = Append(@, [doc |-> "users",
                                       list |-> <<t>> \o inserts[d][n].snap])]
  /\ inserts' = [inserts EXCEPT ![d][n] = NoInsert]
  /\ UNCHANGED <<serverVars, screen, seatVars, order, bloc, fetches, paid>>

\* The get of inserttickets throws; nothing catches it.
InsertThrows(d, n) ==
  /\ inserts[d][n].st = "sent"
  /\ inserts' = [inserts EXCEPT ![d][n] = NoInsert]
  /\ UNCHANGED <<serverVars, writes, screen, seatVars, order, bloc, fetches,
                 paid>>
--------------------------------------------------------------------------
(* Leaving screens.  A widget's fields die with its route.  An inserttickets *)
(* call whose screen is gone throws in setState when it resumes, before it *)
(* writes the ticket: it is dropped here.                                  *)

DropInserts(d) == inserts' = [inserts EXCEPT ![d] = [n \in PayNums |-> NoInsert]]

\* SelectSeat and everything above it leave the navigator.
CloseSeatScreen(d) ==
  /\ screen' = [screen EXCEPT ![d] = "home"]
  /\ show' = [show EXCEPT ![d] = NoShow]
  /\ seatIndex' = [seatIndex EXCEPT ![d] = {}]
  /\ finallist' = [finallist EXCEPT ![d] = {}]
  /\ order' = [order EXCEPT ![d] = NoOrder]

\* Fault: inserttickets goes on although its screen is gone.
OkKeepsInserts(d) ==
  /\ screen[d] = "upiDone"
  /\ CloseSeatScreen(d)
  /\ UNCHANGED <<serverVars, writes, bloc, fetches, inserts, paid>>

\* OK on the dialog of UPI: pushAndRemoveUntil(MainScreen, all routes).
OkUPI(d) ==
  /\ screen[d] = "upiDone"
  /\ CloseSeatScreen(d)
  /\ DropInserts(d)
  /\ UNCHANGED <<serverVars, writes, bloc, fetches, paid>>

\* OK on the dialog of Cards: popUntil the first route.
OkCard(d) ==
  /\ screen[d] = "cardDone"
  /\ CloseSeatScreen(d)
  /\ DropInserts(d)
  /\ UNCHANGED <<serverVars, writes, bloc, fetches, paid>>

\* The system's back button: it closes the dialog too, which only a tap
\* beside it does not (barrierDismissible: false).
BackFromDialog(d) ==
  /\ \/ screen[d] = "upiDone"  /\ screen' = [screen EXCEPT ![d] = "upi"]
     \/ screen[d] = "cardDone" /\ screen' = [screen EXCEPT ![d] = "card"]
  /\ UNCHANGED <<serverVars, writes, seatVars, order, bloc, fetches, inserts,
                 paid>>

\* Fault: inserttickets goes on although its screen is gone.
BackKeepsInserts(d) ==
  /\ screen[d] \in {"upi", "card"}
  /\ screen' = [screen EXCEPT ![d] = "method"]
  /\ UNCHANGED <<serverVars, writes, seatVars, order, bloc, fetches, inserts,
                 paid>>

BackFromPayment(d) ==
  /\ screen[d] \in {"upi", "card"}
  /\ screen' = [screen EXCEPT ![d] = "method"]
  /\ DropInserts(d)
  /\ UNCHANGED <<serverVars, writes, seatVars, order, bloc, fetches, paid>>

Back(d) ==
  /\ \/ screen[d] = "method" /\ screen' = [screen EXCEPT ![d] = "final"]
     \/ screen[d] = "final"  /\ screen' = [screen EXCEPT ![d] = "select"]
  /\ UNCHANGED <<serverVars, writes, seatVars, order, bloc, fetches, inserts,
                 paid>>

BackFromSeats(d) ==
  /\ screen[d] = "select"
  /\ CloseSeatScreen(d)
  /\ UNCHANGED <<serverVars, writes, bloc, fetches, inserts, paid>>

\* The process dies and is started again.  Only Firestore's queue is on disk.
KillApp(d) ==
  /\ CloseSeatScreen(d)
  /\ DropInserts(d)
  /\ bloc' = [bloc EXCEPT ![d] = SeatsInitial]
  /\ fetches' = [fetches EXCEPT ![d] = [k \in Slots |-> NoFetch]]
  /\ UNCHANGED <<serverVars, writes, paid>>
--------------------------------------------------------------------------
UserStep(d) ==
  \/ \E s \in Shows : OpenShow(d, s)
  \/ Refresh(d)
  \/ \E i \in Seats : ToggleSeat(d, i)
  \/ ProceedToPay(d)
  \/ PressPay(d)
  \/ ChooseUPI(d)
  \/ ChooseCard(d)
  \/ PayUPI(d)
  \/ PayCard(d)
  \/ OkUPI(d)
  \/ OkCard(d)
  \/ BackFromDialog(d)
  \/ BackFromPayment(d)
  \/ Back(d)
  \/ BackFromSeats(d)
  \/ KillApp(d)

FetchStep(d, k)  == ServeFetch(d, k) \/ EmitLoaded(d, k) \/ EmitError(d, k)
InsertStep(d, n) == ServeInsert(d, n) \/ InsertTickets(d, n) \/ InsertThrows(d, n)

Next ==
  \E d \in Devices :
    \/ UserStep(d)
    \/ \E k \in Slots : FetchStep(d, k)
    \/ \E n \in PayNums : InsertStep(d, n)
    \/ SendWrite(d)

Spec == Init /\ [][Next]_vars

\* Firestore sends what is queued and every get ends, with an answer or an
\* error.  The user may stop at any moment, and nothing makes an
\* inserttickets call succeed.
Fairness ==
  \A d \in Devices : /\ WF_vars(SendWrite(d))
                     /\ \A k \in Slots : WF_vars(FetchStep(d, k))

FairSpec == Spec /\ Fairness
--------------------------------------------------------------------------
(* Properties.                                                             *)

SeatWriteQueued(d, n) ==
  \E i \in DOMAIN writes[d] : /\ writes[d][i].doc = "bookseats"
                              /\ writes[d][i].pay = n

\* The tickets of list l are true to the payments p.
HonestList(l, p) ==
  \A i \in DOMAIN l :
    /\ l[i].pay \in DOMAIN p[l[i].dev]
    /\ l[i].show = p[l[i].dev][l[i].pay].show
    /\ l[i].seats = p[l[i].dev][l[i].pay].seats

\* A ticket names the show and the seats of the payment it was issued for,
\* although inserttickets builds it, after an await, from the list the seat
\* screen still owns and may change (upi.dart 66-106, selectSeat.dart 209-237).
\* This goes for the documents, the queues and the lists inserttickets read.
TicketHonest ==
  /\ \A a \in Accounts : HonestList(tickets[a], paid)
  /\ \A d \in Devices : \A i \in PendingTickets(d) :
       HonestList(writes[d][i].list, paid)
  /\ \A d \in Devices : \A n \in PayNums :
       HonestList(inserts[d][n].snap, paid)

\* The dialog shows the price of the seats that go into the ticket: the
\* amount, computed two screens earlier, is never that of another selection
\* (selectSeat.dart 341-345, finalPay.dart 236-238, upi.dart 245).
PaidAmountRight ==
  \A d \in Devices : \A n \in DOMAIN paid[d] :
    LET p == paid[d][n]
    IN /\ Cardinality(p.seats) \in 1 .. MaxSeats
       /\ p.amount = TotalAmount(Cardinality(p.seats))

\* No ticket is on the server before the seats of its payment have been
\* sent: insertData queues the seats first (upi.dart 57-61).
SeatsBeforeTicket ==
  \A a \in Accounts : \A i \in DOMAIN tickets[a] :
    ~ SeatWriteQueued(tickets[a][i].dev, tickets[a][i].pay)

\* A sale that has reached the server stays there, because the later writes of
\* the whole list contain it (upi.dart 48-57), on any number of phones, until
\* a write arrives while another phone sells the same show, or a phone takes up
\* an answer to an earlier question: nothing else loses a sale.
NoSaleLost ==
  \A d \in Devices : \A n \in DOMAIN paid[d] :
    \/ SeatWriteQueued(d, n)
    \/ paid[d][n].seats \subseteq sold[paid[d][n].show]
    \/ paid[d][n].show \in outdated

\* A write of the list of a show takes a seat out of it only if lists of the
\* show were out of date before: by themselves kills, back steps, refreshes
\* and phones that sell one after the other never do (upi.dart 48-57).
SoldNeverShrinks ==
  [][\A s \in Shows : sold[s] \subseteq sold'[s] \/ s \in outdated]_vars

\* The seats drawn as sold on an open seat screen are those of its own show,
\* as README.md 17 has it (seats_bloc.dart 16-65, selectSeat.dart 184).  Not so
\* if the answer for a show that was left comes after the one for this show.
SeatMapOfThisShow ==
  \A d \in Devices : (show[d] # NoShow /\ bloc[d].st = "Loaded") =>
    bloc[d].show = show[d]

\* No seat of a show is paid for on two devices (selectSeat.dart 184-241:
\* a sold seat cannot be selected).
NoDoubleBooking ==
  \A d, e \in Devices : d # e =>
    \A m \in DOMAIN paid[d], n \in DOMAIN paid[e] :
      paid[d][m].show = paid[e][n].show =>
        paid[d][m].seats \cap paid[e][n].seats = {}

\* A seat stored as sold was paid for by somebody (selectSeat.dart 320-325,
\* upi.dart 48-57).
SoldSeatsWerePaid ==
  \A s \in Shows : \A i \in sold[s] :
    \E d \in Devices : \E n \in DOMAIN paid[d] :
      paid[d][n].show = s /\ i \in paid[d][n].seats

\* Once the call of inserttickets for a payment is over, the ticket is in the
\* account's document or on its way there (upi.dart 66-106).
TicketForEveryPayment ==
  \A d \in Devices : \A n \in DOMAIN paid[d] :
    \/ inserts[d][n].st # "idle"
    \/ \E l \in {tickets[AccountOf[d]]}
               \cup {writes[d][i].list : i \in PendingTickets(d)} :
         \E i \in DOMAIN l : l[i].dev = d /\ l[i].pay = n

\* The spinner of a seat screen ends (seats_bloc.dart 12-70).
LoadingEnds ==
  \A d \in Devices : (bloc[d].st = "Loading") ~> (bloc[d].st # "Loading")

\* The seats of a confirmed payment are at some time sold on the server,
\* whatever the user does and even if the app is killed (upi.dart 57).  That
\* they stay sold is NoSaleLost.
PaidSeatsGetSold ==
  \A d \in Devices : \A n \in PayNums :
    SeatWriteQueued(d, n) ~>
      (n \in DOMAIN paid[d] /\ paid[d][n].seats \subseteq sold[paid[d][n].show])
==========================================================================
