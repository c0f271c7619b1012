------------------------ MODULE SeatBookingProofs ------------------------
(***************************************************************************)
(* Theorems about SeatBooking that hold for any number of devices,         *)
(* accounts, shows and seats, whatever the users do.                       *)
(***************************************************************************)
EXTENDS SeatBookingInv, TLAPS, FiniteSetTheorems

\* Prices are numbers, and the amount is made up as FinalPay does
\* (finalPay.dart 236-238).
LEMMA PricesType ==
  ASSUME NEW n \in Nat
  PROVE  /\ TotalPrice(n) \in Nat
         /\ TotalAmount(n) \in Nat
         /\ TotalAmount(n) = TotalPrice(n) + fee + n * confee
BY DEF TotalPrice, TotalAmount, price, fee, confee

\* Appending to the queue of one device.
LEMMA AppendType ==
  ASSUME NEW S, NEW f \in [Devices -> Seq(S)], NEW d \in Devices, NEW e \in S
  PROVE  [f EXCEPT ![d] = Append(@, e)] \in [Devices -> Seq(S)]
OBVIOUS

\* The empty records have their types.
LEMMA Defaults ==
  /\ NoFetch \in FetchRec
  /\ NoInsert \in InsertRec
  /\ NoOrder \in Order
  /\ SeatsInitial \in SeatsState
  /\ SeatsLoading \in SeatsState
  /\ SeatsError \in SeatsState
BY DEF NoFetch, FetchRec, NoInsert, InsertRec, NoOrder, Order, SeatsInitial,
       SeatsLoading, SeatsError, SeatsState

\* Starting a fetch keeps the types of the two variables it changes.
LEMMA FetchSeatsType ==
  ASSUME TypeOK, NEW d \in Devices, NEW s \in Shows \cup {NoShow},
         FetchSeats(d, s)
  PROVE  /\ fetches' \in [Devices -> [Slots -> FetchRec]]
         /\ bloc' \in [Devices -> SeatsState]
<1>1. PICK k \in Slots :
        /\ fetches' = [fetches EXCEPT
                         ![d][k] = [st |-> "sent", show |-> s, value |-> {}]]
        /\ bloc' = [bloc EXCEPT ![d] = SeatsLoading]
  BY DEF FetchSeats
<1>2. [st |-> "sent", show |-> s, value |-> {}] \in FetchRec
  BY DEF FetchRec
<1>3. fetches' \in [Devices -> [Slots -> FetchRec]]
  BY <1>1, <1>2 DEF TypeOK
<1>4. QED BY <1>1, <1>3, Defaults DEF TypeOK

\* Closing the seat screen keeps the types of the variables it resets.
LEMMA CloseSeatScreenType ==
  ASSUME TypeOK, NEW d \in Devices, CloseSeatScreen(d)
  PROVE  /\ screen' \in [Devices -> Screens]
         /\ show' \in [Devices -> Shows \cup {NoShow}]
         /\ seatIndex' \in [Devices -> SUBSET Seats]
         /\ finallist' \in [Devices -> SUBSET Seats]
         /\ order' \in [Devices -> Order]
BY Defaults DEF TypeOK, CloseSeatScreen, Screens

\* Dropping the calls of a closed screen keeps the type of inserts.
LEMMA DropInsertsType ==
  ASSUME TypeOK, NEW d \in Devices, DropInserts(d)
  PROVE  inserts' \in [Devices -> [PayNums -> InsertRec]]
BY Defaults DEF TypeOK, DropInserts

\* A payment for an open show keeps the types of what insertData changes.
LEMMA InsertDataType ==
  ASSUME TypeOK, NEW d \in Devices, show[d] \in Shows, InsertData(d)
  PROVE  /\ writes' \in [Devices -> Seq(SeatWrite \cup TicketWrite)]
         /\ inserts' \in [Devices -> [PayNums -> InsertRec]]
         /\ paid' \in [Devices -> Seq(Payment)]
<1> DEFINE n == Len(paid[d]) + 1
           w == [doc |-> "bookseats", pay |-> n, show |-> show[d],
                 seats |-> finallist[d]]
           p == [show |-> show[d], seats |-> seatIndex[d],
                 amount |-> order[d].amount]
<1>1. w \in SeatWrite \cup TicketWrite /\ p \in Payment
  BY DEF TypeOK, SeatWrite, Payment, Order
<1>2. /\ writes' = [writes EXCEPT ![d] = Append(@, w)]
      /\ paid' = [paid EXCEPT ![d] = Append(@, p)]
  BY DEF InsertData
<1>3. [st |-> "sent", snap |-> <<>>] \in InsertRec
  BY DEF InsertRec
<1>4. inserts' \in [Devices -> [PayNums -> InsertRec]]
  BY <1>3 DEF InsertData, TypeOK
<1> HIDE DEF w, p
<1>5. QED BY <1>1, <1>2, <1>4, AppendType DEF TypeOK

\* A read of the tickets gives a list of tickets.
LEMMA ReadsTicketsType ==
  ASSUME TypeOK, NEW d \in Devices, NEW l, ReadsTickets(d, l)
  PROVE  l \in Seq(Ticket)
<1>1. CASE l = tickets[AccountOf[d]]
  BY <1>1, AccountAssumption DEF TypeOK
<1>2. CASE \E i \in PendingTickets(d) : l = writes[d][i].list
  <2>1. PICK i \in DOMAIN writes[d] : /\ writes[d][i].doc = "users"
                                     /\ l = writes[d][i].list
    BY <1>2 DEF PendingTickets
  <2>2. writes[d][i] \in SeatWrite \cup TicketWrite
    BY <2>1 DEF TypeOK
  <2>3. QED BY <2>1, <2>2 DEF SeatWrite, TicketWrite
<1>3. QED BY <1>1, <1>2 DEF ReadsTickets
--------------------------------------------------------------------------
\* Types, with a show on every open seat screen.
TypeInv == TypeOK /\ RouteInv

\* The types hold when the app starts.
LEMMA TypeInit == Init => TypeInv
<1> SUFFICES ASSUME Init PROVE TypeInv
  OBVIOUS
<1>1. TypeOK
  BY Defaults DEF Init, TypeOK, Screens
<1>2. RouteInv
  BY DEF Init, RouteInv
<1>3. QED BY <1>1, <1>2 DEF TypeInv

\* The routes: every action moves screen and show together.
LEMMA RouteStep == TypeInv /\ Next => RouteInv'
<1> SUFFICES ASSUME TypeInv, NEW d \in Devices,
                    \/ UserStep(d)
                    \/ \E k \in Slots : FetchStep(d, k)
                    \/ \E n \in PayNums : InsertStep(d, n)
                    \/ SendWrite(d)
             PROVE  RouteInv'
  BY DEF Next
<1> USE DEF TypeInv, TypeOK, RouteInv, Screens
<1>1. ASSUME NEW s \in Shows, OpenShow(d, s) PROVE RouteInv'
  BY <1>1, ShowAssumption DEF OpenShow
<1>2. ASSUME CloseSeatScreen(d) PROVE RouteInv'
  BY <1>2 DEF CloseSeatScreen
<1>3. ASSUME UNCHANGED show, screen[d] # "home",
             NEW r \in Screens \ {"home"},
             screen' = [screen EXCEPT ![d] = r]
      PROVE  RouteInv'
  BY <1>3
<1>4. ASSUME UNCHANGED <<screen, show>> PROVE RouteInv'
  BY <1>4
<1>5. CASE UserStep(d)
  <2>1. CASE \/ ProceedToPay(d) \/ PressPay(d) \/ ChooseUPI(d) \/ ChooseCard(d)
             \/ PayUPI(d) \/ PayCard(d) \/ BackFromDialog(d)
             \/ BackFromPayment(d) \/ Back(d)
    BY <2>1, <1>3 DEF ProceedToPay, ProceedWith, PressPay, ChooseUPI,
       ChooseCard, PayUPI, PayCard, BackFromDialog, BackFromPayment, Back,
       seatVars
  <2>2. CASE OkUPI(d) \/ OkCard(d) \/ BackFromSeats(d) \/ KillApp(d)
    BY <2>2, <1>2 DEF OkUPI, OkCard, BackFromSeats, KillApp
  <2>3. CASE Refresh(d) \/ \E i \in Seats : ToggleSeat(d, i)
    BY <2>3, <1>4 DEF Refresh, ToggleSeat, seatVars
  <2>4. QED BY <1>1, <1>5, <2>1, <2>2, <2>3 DEF UserStep
<1>6. CASE \/ \E k \in Slots : FetchStep(d, k)
           \/ \E n \in PayNums : InsertStep(d, n)
           \/ SendWrite(d)
  BY <1>6, <1>4 DEF FetchStep, InsertStep, ServeFetch, EmitLoaded, EmitError,
     ServeInsert, InsertTickets, InsertThrows, SendWrite, seatVars
<1>7. QED BY <1>5, <1>6

\* Seats can be counted.
LEMMA SeatCount ==
  ASSUME NEW S \in SUBSET Seats
  PROVE  IsFiniteSet(S) /\ Cardinality(S) \in Nat
BY SeatAssumption, FS_Subset, FS_CardinalityType

\* The user's taps keep the types (selectSeat.dart, finalPay.dart, upi.dart,
\* card.dart).
LEMMA UserTypeStep ==
  ASSUME TypeInv, NEW d \in Devices, UserStep(d)
  PROVE  TypeOK'
<1>0. /\ TypeOK
      /\ show[d] \in Shows \cup {NoShow}
      /\ screen[d] # "home" => show[d] \in Shows
  BY DEF TypeInv, TypeOK, RouteInv
<1> USE DEF serverVars, seatVars
<1>1. ASSUME NEW s \in Shows, OpenShow(d, s) PROVE TypeOK'
  <2>1. /\ fetches' \in [Devices -> [Slots -> FetchRec]]
        /\ bloc' \in [Devices -> SeatsState]
    BY <1>0, <1>1, FetchSeatsType DEF OpenShow
  <2>2. outdated' \in SUBSET Shows
    BY <1>0, <1>1 DEF OpenShow, Marked, TypeOK
  <2>3. QED BY <1>0, <1>1, <2>1, <2>2 DEF OpenShow, TypeOK, Screens
<1>2. CASE Refresh(d)
  <2>1. /\ fetches' \in [Devices -> [Slots -> FetchRec]]
        /\ bloc' \in [Devices -> SeatsState]
    BY <1>0, <1>2, FetchSeatsType DEF Refresh
  <2>2. QED BY <1>0, <1>2, <2>1 DEF Refresh, TypeOK
<1>3. ASSUME NEW i \in Seats, ToggleSeat(d, i) PROVE TypeOK'
  <2>1. /\ seatIndex[d] \ {i} \in SUBSET Seats
        /\ seatIndex[d] \cup {i} \in SUBSET Seats
    BY <1>0 DEF TypeOK
  <2>2. seatIndex' \in [Devices -> SUBSET Seats]
    BY <1>0, <1>3, <2>1 DEF ToggleSeat, TypeOK
  <2>3. QED BY <1>0, <1>3, <2>2 DEF ToggleSeat, TypeOK
<1>4. CASE ProceedToPay(d)
  <2>1. /\ fetches' \in [Devices -> [Slots -> FetchRec]]
        /\ bloc' \in [Devices -> SeatsState]
    BY <1>0, <1>4, FetchSeatsType DEF ProceedToPay, ProceedWith
  <2>2. OrderFor(Cardinality(seatIndex[d])) \in Order
    BY <1>0, SeatCount, PricesType DEF OrderFor, Order, TypeOK
  <2>3. finallist[d] \cup bloc[d].ticket \cup seatIndex[d] \in SUBSET Seats
    BY <1>0 DEF TypeOK, SeatsState
  <2>4. outdated' \in SUBSET Shows
    BY <1>0, <1>4 DEF ProceedToPay, ProceedWith, Marked, TypeOK
  <2>5. QED BY <1>0, <1>4, <2>1, <2>2, <2>3, <2>4
            DEF ProceedToPay, ProceedWith, TypeOK, Screens
<1>5. CASE PressPay(d)
  <2> DEFINE a == order[d].totalprice + fee + order[d].tickets * confee
  <2>a. order[d] \in Order
    BY <1>0 DEF TypeOK
  <2>b. a \in Nat
    BY <2>a DEF Order, fee, confee
  <2> HIDE DEF a
  <2>1. [order[d] EXCEPT !.amount = a] \in Order
    BY <2>a, <2>b DEF Order
  <2>2. order' \in [Devices -> Order]
    BY <1>0, <1>5, <2>1 DEF PressPay, TypeOK, a
  <2>3. QED BY <1>0, <1>5, <2>2 DEF PressPay, TypeOK, Screens
<1>6. CASE PayUPI(d) \/ PayCard(d)
  <2>1. /\ writes' \in [Devices -> Seq(SeatWrite \cup TicketWrite)]
        /\ inserts' \in [Devices -> [PayNums -> InsertRec]]
        /\ paid' \in [Devices -> Seq(Payment)]
    BY <1>0, <1>6, InsertDataType DEF PayUPI, PayCard
  <2>2. QED BY <1>0, <1>6, <2>1 DEF PayUPI, PayCard, TypeOK, Screens
<1>7. CASE OkUPI(d) \/ OkCard(d) \/ BackFromSeats(d)
  BY <1>0, <1>7, CloseSeatScreenType, DropInsertsType
     DEF OkUPI, OkCard, BackFromSeats, TypeOK
<1>8. CASE KillApp(d)
  <2>1. /\ bloc' \in [Devices -> SeatsState]
        /\ fetches' \in [Devices -> [Slots -> FetchRec]]
    BY <1>0, <1>8, Defaults DEF KillApp, TypeOK
  <2>2. QED BY <1>0, <1>8, <2>1, CloseSeatScreenType, DropInsertsType
            DEF KillApp, TypeOK
<1>9. CASE \/ ChooseUPI(d) \/ ChooseCard(d) \/ BackFromDialog(d) \/ Back(d)
           \/ BackFromPayment(d)
  BY <1>0, <1>9, DropInsertsType
     DEF ChooseUPI, ChooseCard, BackFromDialog, Back, BackFromPayment, TypeOK,
         Screens
<1>10. QED BY <1>1, <1>2, <1>3, <1>4, <1>5, <1>6, <1>7, <1>8, <1>9 DEF UserStep

\* The answers of SeatsBloc keep the types (seats_bloc.dart 12-70).
LEMMA FetchTypeStep ==
  ASSUME TypeOK, NEW d \in Devices, NEW k \in Slots, FetchStep(d, k)
  PROVE  TypeOK'
<1> USE DEF serverVars, seatVars
<1>0. fetches[d][k] \in FetchRec
  BY DEF TypeOK
<1>1. CASE ServeFetch(d, k)
  <2>1. PICK v \in SUBSET Seats :
          fetches' = [fetches EXCEPT ![d][k].st = "served", ![d][k].value = v]
    BY <1>1 DEF ServeFetch
  <2>2. [fetches[d][k] EXCEPT !.st = "served", !.value = v] \in FetchRec
    BY <1>0 DEF FetchRec
  <2>3. fetches' = [fetches EXCEPT
           ![d][k] = [fetches[d][k] EXCEPT !.st = "served", !.value = v]]
    BY <2>1 DEF TypeOK
  <2>4. fetches' \in [Devices -> [Slots -> FetchRec]]
    BY <2>2, <2>3 DEF TypeOK
  <2>5. QED BY <1>1, <2>4 DEF ServeFetch, TypeOK
<1>2. CASE EmitLoaded(d, k)
  <2>1. [st |-> "Loaded", ticket |-> fetches[d][k].value,
         show |-> fetches[d][k].show] \in SeatsState
    BY <1>0 DEF FetchRec, SeatsState
  <2>2. QED BY <1>2, <2>1, Defaults DEF EmitLoaded, TypeOK
<1>3. CASE EmitError(d, k)
  BY <1>3, Defaults DEF EmitError, TypeOK
<1>4. QED BY <1>1, <1>2, <1>3 DEF FetchStep

\* The steps of inserttickets keep the types as long as its screen, and with
\* it a show, exists (upi.dart 66-106).
LEMMA InsertTypeStep ==
  ASSUME TypeInv, NEW d \in Devices, NEW n \in PayNums, InsertStep(d, n),
         inserts[d][n].st # "idle" => show[d] \in Shows
  PROVE  TypeOK'
<1> USE DEF serverVars, seatVars, TypeInv
<1>0. inserts[d][n] \in InsertRec
  BY DEF TypeOK
<1>1. CASE ServeInsert(d, n)
  <2>1. PICK l : /\ ReadsTickets(d, l)
                 /\ inserts' = [inserts EXCEPT
                                  ![d][n] = [st |-> "served", snap |-> l]]
    BY <1>1 DEF ServeInsert
  <2>2. [st |-> "served", snap |-> l] \in InsertRec
    BY <2>1, ReadsTicketsType DEF InsertRec
  <2>3. QED BY <1>1, <2>1, <2>2 DEF ServeInsert, TypeOK
<1>2. CASE InsertTickets(d, n)
  <2> DEFINE t == [dev |-> d, pay |-> n, show |-> show[d],
                   seats |-> seatIndex[d]]
             w == [doc |-> "users", list |-> <<t>> \o inserts[d][n].snap]
  <2>1. t \in Ticket
    BY <1>2, BoundAssumption DEF InsertTickets, Ticket, TypeOK, PayNums
  <2>2. inserts[d][n].snap \in Seq(Ticket)
    BY <1>0 DEF InsertRec
  <2> HIDE DEF t
  <2>3. <<t>> \o inserts[d][n].snap \in Seq(Ticket)
    BY <2>1, <2>2
  <2>4. w \in SeatWrite \cup TicketWrite
    BY <2>3 DEF TicketWrite
  <2>5. writes' = [writes EXCEPT ![d] = Append(@, w)]
    BY <1>2 DEF InsertTickets, t
  <2> HIDE DEF w
  <2>6. writes' \in [Devices -> Seq(SeatWrite \cup TicketWrite)]
    BY <2>4, <2>5, AppendType DEF TypeOK
  <2>7. QED BY <1>2, <2>6, Defaults DEF InsertTickets, TypeOK
<1>3. CASE InsertThrows(d, n)
  BY <1>3, Defaults DEF InsertThrows, TypeOK
<1>4. QED BY <1>1, <1>2, <1>3 DEF InsertStep

\* Sending a queued write keeps the types of the two documents.
LEMMA SendTypeStep ==
  ASSUME TypeOK, NEW d \in Devices, SendWrite(d)
  PROVE  TypeOK'
<1> USE DEF serverVars, seatVars
<1> DEFINE w == Head(writes[d])
<1>1. w \in SeatWrite \cup TicketWrite
      /\ Tail(writes[d]) \in Seq(SeatWrite \cup TicketWrite)
  BY DEF SendWrite, TypeOK
<1> HIDE DEF w
<1>2. CASE w.doc = "bookseats"
  <2>1. w.show \in Shows /\ w.seats \in SUBSET Seats
    BY <1>1, <1>2 DEF SeatWrite, TicketWrite
  <2>2. sold' = [sold EXCEPT ![w.show] = w.seats] /\ UNCHANGED tickets
    BY <1>2 DEF SendWrite, w
  <2>3. outdated' \in SUBSET Shows
    BY <1>2, <2>1 DEF SendWrite, Marked, TypeOK, w
  <2>4. QED BY <1>1, <2>1, <2>2, <2>3 DEF SendWrite, TypeOK
<1>3. CASE w.doc # "bookseats"
  <2>1. w.list \in Seq(Ticket)
    BY <1>1, <1>3 DEF SeatWrite, TicketWrite
  <2>2. tickets' = [tickets EXCEPT ![AccountOf[d]] = w.list] 
        /\ UNCHANGED <<sold, outdated>>
    BY <1>3 DEF SendWrite, w
  <2>3. QED BY <1>1, <2>1, <2>2, AccountAssumption DEF SendWrite, TypeOK
<1>4. QED BY <1>2, <1>3
--------------------------------------------------------------------------
(* The selection, the order and the calls of inserttickets.                *)

\* Taps never leave a later screen open on an empty selection, nor let the
\* selection grow past the limit (selectSeat.dart 209-237, 313-348).
LEMMA SelectionStep ==
  ASSUME TypeOK, SelectionInv, NEW d \in Devices, UserStep(d)
  PROVE  SelectionInv'
<1> USE DEF serverVars, seatVars, Paying, Screens
<1>1. ASSUME NEW i \in Seats, ToggleSeat(d, i) PROVE SelectionInv'
  <2>1. /\ seatIndex[d] \in SUBSET Seats
        /\ IsFiniteSet(seatIndex[d])
        /\ Cardinality(seatIndex[d]) \in Nat
        /\ Cardinality(seatIndex[d] \ {i}) \in Nat
    BY SeatCount DEF TypeOK
  <2>2. Cardinality(seatIndex[d] \ {i}) <= Cardinality(seatIndex[d])
    BY <2>1, FS_Subset
  <2>3. i \notin seatIndex[d] =>
           Cardinality(seatIndex[d] \cup {i}) = Cardinality(seatIndex[d]) + 1
    BY <2>1, FS_AddElement
  <2>4. Cardinality(seatIndex[d] \ {i}) <= MaxSeats
    BY <2>1, <2>2, BoundAssumption DEF SelectionInv
  <2>5. i \notin seatIndex[d] /\ Cardinality(seatIndex[d]) < MaxSeats =>
           Cardinality(seatIndex[d] \cup {i}) <= MaxSeats
    BY <2>1, <2>3, BoundAssumption
  <2>6. Cardinality(seatIndex'[d]) <= MaxSeats
    BY <1>1, <2>4, <2>5 DEF ToggleSeat, TypeOK
  <2>7. screen'[d] = "select" /\ UNCHANGED screen
        /\ \A e \in Devices \ {d} : seatIndex'[e] = seatIndex[e]
    BY <1>1 DEF ToggleSeat, TypeOK
  <2>8. QED BY <2>6, <2>7 DEF SelectionInv
<1>2. ASSUME CloseSeatScreen(d) PROVE SelectionInv'
  <2>1. Cardinality({}) <= MaxSeats
    BY FS_EmptySet, BoundAssumption
  <2>2. QED BY <1>2, <2>1 DEF CloseSeatScreen, SelectionInv, TypeOK
<1>3. CASE OkUPI(d) \/ OkCard(d) \/ BackFromSeats(d) \/ KillApp(d)
  BY <1>2, <1>3 DEF OkUPI, OkCard, BackFromSeats, KillApp
<1>4. CASE \/ \E s \in Shows : OpenShow(d, s)
           \/ Refresh(d) \/ ProceedToPay(d) \/ PressPay(d) \/ ChooseUPI(d)
           \/ ChooseCard(d) \/ PayUPI(d) \/ PayCard(d) \/ BackFromDialog(d)
           \/ BackFromPayment(d) \/ Back(d)
  BY <1>4 DEF OpenShow, Refresh, ProceedToPay, ProceedWith, PressPay,
     ChooseUPI, ChooseCard, PayUPI, PayCard, BackFromDialog, BackFromPayment,
     Back, SelectionInv, TypeOK
<1>5. QED BY <1>1, <1>3, <1>4 DEF UserStep

\* Taps never separate the order from the selection it was computed for
\* (selectSeat.dart 328-348, finalPay.dart 235-255).
LEMMA OrderStep ==
  ASSUME TypeOK, OrderInv, NEW d \in Devices, UserStep(d)
  PROVE  OrderInv'
<1> USE DEF serverVars, seatVars, Paying, Screens
<1>1. CASE ProceedToPay(d)
  BY <1>1 DEF ProceedToPay, ProceedWith, OrderFor, OrderInv, TypeOK
<1>2. CASE PressPay(d)
  <2>1. Cardinality(seatIndex[d]) \in Nat
    BY SeatCount DEF TypeOK
  <2>2. /\ order[d] \in Order
        /\ order[d].tickets = Cardinality(seatIndex[d])
        /\ order[d].totalprice = TotalPrice(Cardinality(seatIndex[d]))
    BY <1>2 DEF PressPay, OrderInv, TypeOK
  <2>3. /\ order'[d].tickets = order[d].tickets
        /\ order'[d].totalprice = order[d].totalprice
        /\ order'[d].amount = TotalAmount(Cardinality(seatIndex[d]))
    BY <1>2, <2>1, <2>2, PricesType DEF PressPay, TypeOK, Order
  <2>4. UNCHANGED seatIndex /\ screen'[d] = "method"
        /\ \A e \in Devices \ {d} : order'[e] = order[e]
                                   /\ screen'[e] = screen[e]
    BY <1>2 DEF PressPay, TypeOK
  <2>5. QED BY <2>2, <2>3, <2>4 DEF OrderInv
<1>3. ASSUME CloseSeatScreen(d) PROVE OrderInv'
  BY <1>3 DEF CloseSeatScreen, OrderInv, TypeOK
<1>4. CASE OkUPI(d) \/ OkCard(d) \/ BackFromSeats(d) \/ KillApp(d)
  BY <1>3, <1>4 DEF OkUPI, OkCard, BackFromSeats, KillApp
<1>5. ASSUME NEW i \in Seats, ToggleSeat(d, i) PROVE OrderInv'
  BY <1>5 DEF ToggleSeat, OrderInv, TypeOK
<1>6. CASE \/ \E s \in Shows : OpenShow(d, s)
           \/ Refresh(d) \/ ChooseUPI(d)
           \/ ChooseCard(d) \/ PayUPI(d) \/ PayCard(d) \/ BackFromDialog(d)
           \/ BackFromPayment(d) \/ Back(d)
  BY <1>6 DEF OpenShow, Refresh, ChooseUPI, ChooseCard, PayUPI, PayCard,
     BackFromDialog, BackFromPayment, Back, OrderInv, TypeOK
<1>7. QED BY <1>1, <1>2, <1>4, <1>5, <1>6 DEF UserStep

\* A payment adds one to the list and leaves the earlier ones alone.
LEMMA PaidGrows ==
  ASSUME TypeOK, NEW d \in Devices, InsertData(d)
  PROVE  /\ Len(paid[d]) + 1 \in PayNums
         /\ DOMAIN paid'[d] = DOMAIN paid[d] \cup {Len(paid[d]) + 1}
         /\ \A m \in DOMAIN paid[d] : paid'[d][m] = paid[d][m]
         /\ Len(paid[d]) + 1 \notin DOMAIN paid[d]
         /\ paid'[d][Len(paid[d]) + 1] =
              [show |-> show[d], seats |-> seatIndex[d],
               amount |-> order[d].amount]
         /\ \A e \in Devices \ {d} : paid'[e] = paid[e]
<1> DEFINE n == Len(paid[d]) + 1
           p == [show |-> show[d], seats |-> seatIndex[d],
                 amount |-> order[d].amount]
<1>1. /\ n \in PayNums
      /\ paid' = [paid EXCEPT ![d] = Append(@, p)]
  BY DEF InsertData
<1> HIDE DEF p
<1>2. paid[d] \in Seq(Payment) /\ paid'[d] = Append(paid[d], p)
  BY <1>1 DEF TypeOK
<1>3. /\ DOMAIN paid'[d] = DOMAIN paid[d] \cup {n}
      /\ n \notin DOMAIN paid[d]
      /\ paid'[d][n] = p
      /\ \A m \in DOMAIN paid[d] : paid'[d][m] = paid[d][m]
  BY <1>2
<1>4. QED BY <1>1, <1>3 DEF TypeOK, p

\* A payment: the new call belongs to it, the older ones keep theirs.
LEMMA InsertInvPay ==
  ASSUME TypeOK, RouteInv, InsertInv, NEW d \in Devices,
         PayUPI(d) \/ PayCard(d)
  PROVE  InsertInv'
<1> DEFINE n == Len(paid[d]) + 1
<1>1. /\ InsertData(d)
      /\ screen'[d] \in PayScreens
      /\ UNCHANGED <<show, seatIndex>>
      /\ \A e \in Devices \ {d} : screen'[e] = screen[e]
  BY DEF PayUPI, PayCard, PayScreens, seatVars, TypeOK
<1>p. /\ DOMAIN paid'[d] = DOMAIN paid[d] \cup {n}
      /\ \A m \in DOMAIN paid[d] : paid'[d][m] = paid[d][m]
      /\ paid'[d][n] = [show |-> show[d], seats |-> seatIndex[d],
                       amount |-> order[d].amount]
      /\ \A e \in Devices \ {d} : paid'[e] = paid[e]
  BY <1>1, PaidGrows
<1>2. /\ \A e \in Devices \ {d} : inserts'[e] = inserts[e]
      /\ \A m \in PayNums \ {n} : inserts'[d][m] = inserts[d][m]
  BY <1>1 DEF InsertData, TypeOK
<1> HIDE DEF n
<1>3. ASSUME NEW e \in Devices \ {d}, NEW m \in PayNums,
             inserts'[e][m].st # "idle"
      PROVE  /\ screen'[e] \in PayScreens
             /\ m \in DOMAIN paid'[e]
             /\ paid'[e][m].show = show'[e]
             /\ paid'[e][m].seats = seatIndex'[e]
  BY <1>1, <1>2, <1>3, <1>p DEF InsertInv
<1>4. ASSUME NEW m \in PayNums \ {n}, inserts'[d][m].st # "idle"
      PROVE  /\ m \in DOMAIN paid'[d]
             /\ paid'[d][m].show = show'[d]
             /\ paid'[d][m].seats = seatIndex'[d]
  BY <1>1, <1>2, <1>4, <1>p DEF InsertInv
<1>5. /\ n \in DOMAIN paid'[d]
      /\ paid'[d][n].show = show'[d]
      /\ paid'[d][n].seats = seatIndex'[d]
  BY <1>1, <1>p
<1>6. QED BY <1>1, <1>3, <1>4, <1>5 DEF InsertInv

\* Taps never change the selection under a call of inserttickets in progress
\* (upi.dart 61, 275-291).
LEMMA InsertInvStep ==
  ASSUME TypeOK, RouteInv, InsertInv, NEW d \in Devices, UserStep(d)
  PROVE  InsertInv'
<1> USE DEF serverVars, seatVars, PayScreens
<1>1. CASE PayUPI(d) \/ PayCard(d)
  BY <1>1, InsertInvPay
<1>2. ASSUME DropInserts(d), UNCHANGED paid,
             \A e \in Devices \ {d} : /\ screen'[e] = screen[e]
                                      /\ show'[e] = show[e]
                                      /\ seatIndex'[e] = seatIndex[e]
      PROVE  InsertInv'
  <2>1. \A n \in PayNums : inserts'[d][n].st = "idle"
    BY <1>2 DEF DropInserts, NoInsert, TypeOK
  <2>2. \A e \in Devices \ {d} : inserts'[e] = inserts[e]
    BY <1>2 DEF DropInserts, TypeOK
  <2>3. QED BY <1>2, <2>1, <2>2 DEF InsertInv
<1>3. CASE OkUPI(d) \/ OkCard(d) \/ KillApp(d)
  BY <1>2, <1>3 DEF OkUPI, OkCard, KillApp, CloseSeatScreen, TypeOK
<1>4. CASE BackFromPayment(d)
  BY <1>2, <1>4 DEF BackFromPayment, TypeOK
<1>5. ASSUME screen[d] \notin PayScreens, UNCHANGED <<inserts, paid>>,
             \A e \in Devices \ {d} : /\ screen'[e] = screen[e]
                                      /\ show'[e] = show[e]
                                      /\ seatIndex'[e] = seatIndex[e]
      PROVE  InsertInv'
  BY <1>5 DEF InsertInv
<1>6. CASE \/ \E s \in Shows : OpenShow(d, s)
           \/ \E i \in Seats : ToggleSeat(d, i)
           \/ ProceedToPay(d) \/ PressPay(d) \/ ChooseUPI(d) \/ ChooseCard(d)
           \/ Back(d) \/ BackFromSeats(d)
  BY <1>5, <1>6 DEF OpenShow, ToggleSeat, ProceedToPay, ProceedWith, PressPay,
     ChooseUPI, ChooseCard, Back, BackFromSeats, CloseSeatScreen, TypeOK
<1>7. CASE Refresh(d) \/ BackFromDialog(d)
  BY <1>7 DEF Refresh, BackFromDialog, InsertInv, TypeOK
<1>8. QED BY <1>1, <1>3, <1>4, <1>6, <1>7 DEF UserStep
--------------------------------------------------------------------------
(* Tickets are true to their payments.                                     *)

\* q contains the payments of p.
Extends(p, q) ==
  \A d \in Devices : \A n \in DOMAIN p[d] :
    n \in DOMAIN q[d] /\ q[d][n] = p[d][n]

\* A list of tickets stays true to its payments when payments are added.
LEMMA HonestKept ==
  ASSUME NEW l \in Seq(Ticket), NEW p, NEW q, HonestList(l, p), Extends(p, q)
  PROVE  HonestList(l, q)
<1>1. \A i \in DOMAIN l : l[i] \in Ticket
  OBVIOUS
<1>2. \A t \in Ticket : t.dev \in Devices
  BY DEF Ticket
<1>3. QED BY <1>1, <1>2 DEF HonestList, Extends

\* The list of a queued write of tickets.
LEMMA PendingTicketsType ==
  ASSUME TypeOK, NEW d \in Devices, NEW i \in PendingTickets(d)
  PROVE  /\ writes[d][i] \in TicketWrite
         /\ writes[d][i].list \in Seq(Ticket)
<1>1. writes[d][i] \in SeatWrite \cup TicketWrite /\ writes[d][i].doc = "users"
  BY DEF TypeOK, PendingTickets
<1>2. QED BY <1>1 DEF SeatWrite, TicketWrite

\* Steps that leave documents and queues alone and at most forget calls.
LEMMA HonestQuiet ==
  ASSUME TypeOK, TicketHonest, UNCHANGED <<tickets, writes>>,
         Extends(paid, paid'),
         \A d \in Devices : \A n \in PayNums :
           inserts'[d][n].snap = inserts[d][n].snap \/ inserts'[d][n].snap = <<>>
  PROVE  TicketHonest'
<1>1. ASSUME NEW a \in Accounts PROVE HonestList(tickets'[a], paid')
  <2>1. tickets[a] \in Seq(Ticket) /\ HonestList(tickets[a], paid)
    BY DEF TypeOK, TicketHonest
  <2>2. QED BY <2>1, HonestKept
<1>2. ASSUME NEW d \in Devices, NEW i \in PendingTickets(d)'
      PROVE  HonestList(writes'[d][i].list, paid')
  <2>1. i \in PendingTickets(d)
    BY DEF PendingTickets
  <2>2. /\ writes[d][i].list \in Seq(Ticket)
        /\ HonestList(writes[d][i].list, paid)
    BY <2>1, PendingTicketsType DEF TicketHonest
  <2>3. QED BY <2>2, HonestKept
<1>3. ASSUME NEW d \in Devices, NEW n \in PayNums
      PROVE  HonestList(inserts'[d][n].snap, paid')
  <2>1. /\ inserts[d][n].snap \in Seq(Ticket)
        /\ HonestList(inserts[d][n].snap, paid)
    BY DEF TypeOK, InsertRec, TicketHonest
  <2>2. HonestList(inserts[d][n].snap, paid')
    BY <2>1, HonestKept
  <2>3. HonestList(<<>>, paid')
    BY DEF HonestList
  <2>4. QED BY <2>2, <2>3
<1>4. QED BY <1>1, <1>2, <1>3 DEF TicketHonest

\* The entries of a queue to which w was appended.
LEMMA QueueAppend ==
  ASSUME TypeOK, NEW d \in Devices, NEW w \in SeatWrite \cup TicketWrite,
         writes' = [writes EXCEPT ![d] = Append(@, w)]
  PROVE  /\ \A e \in Devices \ {d} : writes'[e] = writes[e]
         /\ DOMAIN writes'[d] = DOMAIN writes[d] \cup {Len(writes[d]) + 1}
         /\ \A i \in DOMAIN writes[d] : writes'[d][i] = writes[d][i]
         /\ \A i \in DOMAIN writes[d] : i < Len(writes[d]) + 1
         /\ writes'[d][Len(writes[d]) + 1] = w
<1>1. /\ writes[d] \in Seq(SeatWrite \cup TicketWrite)
      /\ writes'[d] = Append(writes[d], w)
      /\ \A e \in Devices \ {d} : writes'[e] = writes[e]
  BY DEF TypeOK
<1>2. QED BY <1>1

\* The entries of a queue whose head was sent.
LEMMA QueueTail ==
  ASSUME TypeOK, NEW d \in Devices, SendWrite(d)
  PROVE  /\ \A e \in Devices \ {d} : writes'[e] = writes[e]
         /\ 1 \in DOMAIN writes[d]
         /\ \A i \in DOMAIN writes'[d] : /\ i + 1 \in DOMAIN writes[d]
                                         /\ writes'[d][i] = writes[d][i + 1]
         /\ \A i \in DOMAIN writes[d] :
              i # 1 => /\ i - 1 \in DOMAIN writes'[d]
                       /\ writes'[d][i - 1] = writes[d][i]
         /\ Head(writes[d]) = writes[d][1]
<1>1. /\ writes[d] \in Seq(SeatWrite \cup TicketWrite)
      /\ writes[d] # <<>>
      /\ writes'[d] = Tail(writes[d])
      /\ \A e \in Devices \ {d} : writes'[e] = writes[e]
  BY DEF TypeOK, SendWrite
<1>2. QED BY <1>1

\* A payment appends to the history, and the tickets issued before stay true
\* to it (upi.dart 44-64).
LEMMA HonestPay ==
  ASSUME TypeOK, TicketHonest, NEW d \in Devices, show[d] \in Shows,
         PayUPI(d) \/ PayCard(d)
  PROVE  TicketHonest'
<1> DEFINE w == [doc |-> "bookseats", pay |-> Len(paid[d]) + 1,
                 show |-> show[d], seats |-> finallist[d]]
<1>1. InsertData(d) /\ UNCHANGED tickets
  BY DEF PayUPI, PayCard, serverVars
<1>2. Extends(paid, paid')
  BY <1>1, PaidGrows DEF Extends
<1>3. w \in SeatWrite \cup TicketWrite
  BY DEF TypeOK, SeatWrite
<1>4. writes' = [writes EXCEPT ![d] = Append(@, w)] /\ w.doc # "users"
  BY <1>1 DEF InsertData
<1> HIDE DEF w
<1>5. ASSUME NEW e \in Devices, NEW i \in PendingTickets(e)'
      PROVE  HonestList(writes'[e][i].list, paid')
  <2>1. i \in PendingTickets(e) /\ writes'[e][i] = writes[e][i]
    BY <1>3, <1>4, QueueAppend DEF PendingTickets
  <2>2. /\ writes[e][i].list \in Seq(Ticket)
        /\ HonestList(writes[e][i].list, paid)
    BY <2>1, PendingTicketsType DEF TicketHonest
  <2>3. QED BY <1>2, <2>1, <2>2, HonestKept
<1>6. ASSUME NEW a \in Accounts PROVE HonestList(tickets'[a], paid')
  <2>1. tickets[a] \in Seq(Ticket) /\ HonestList(tickets[a], paid)
    BY DEF TypeOK, TicketHonest
  <2>2. QED BY <1>1, <1>2, <2>1, HonestKept
<1>7. ASSUME NEW e \in Devices, NEW n \in PayNums
      PROVE  HonestList(inserts'[e][n].snap, paid')
  <2>1. \/ inserts'[e][n].snap = inserts[e][n].snap
        \/ inserts'[e][n].snap = <<>>
    BY <1>1 DEF InsertData, TypeOK
  <2>2. /\ inserts[e][n].snap \in Seq(Ticket)
        /\ HonestList(inserts[e][n].snap, paid)
    BY DEF TypeOK, InsertRec, TicketHonest
  <2>3. HonestList(inserts[e][n].snap, paid')
    BY <1>2, <2>2, HonestKept
  <2>4. HonestList(<<>>, paid')
    BY DEF HonestList
  <2>5. QED BY <2>1, <2>3, <2>4
<1>8. QED BY <1>5, <1>6, <1>7 DEF TicketHonest

\* Sending a list of tickets puts a true list in the place of another
\* (upi.dart 104).
LEMMA HonestSend ==
  ASSUME TypeOK, TicketHonest, NEW d \in Devices, SendWrite(d)
  PROVE  TicketHonest'
<1> USE DEF seatVars
<1>1. ASSUME NEW e \in Devices, NEW i \in PendingTickets(e)'
      PROVE  HonestList(writes'[e][i].list, paid')
  <2>1. PICK j \in PendingTickets(e) : writes'[e][i] = writes[e][j]
    BY QueueTail DEF PendingTickets
  <2>2. QED BY <2>1 DEF TicketHonest, SendWrite
<1>2. ASSUME NEW a \in Accounts PROVE HonestList(tickets'[a], paid')
  <2>1. \/ tickets'[a] = tickets[a]
        \/ Head(writes[d]).doc # "bookseats" /\ tickets'[a] = Head(writes[d]).list
    BY AccountAssumption DEF SendWrite, TypeOK
  <2>2. ASSUME Head(writes[d]).doc # "bookseats"
        PROVE  HonestList(Head(writes[d]).list, paid)
    <3>1. 1 \in DOMAIN writes[d] /\ Head(writes[d]) = writes[d][1]
      BY QueueTail
    <3>2. writes[d][1] \in SeatWrite \cup TicketWrite
      BY <3>1 DEF TypeOK
    <3>3. writes[d][1].doc = "users"
      BY <2>2, <3>1, <3>2 DEF SeatWrite, TicketWrite
    <3>4. 1 \in PendingTickets(d)
      BY <3>1, <3>3 DEF PendingTickets
    <3>5. QED BY <3>1, <3>4 DEF TicketHonest
  <2>3. HonestList(tickets[a], paid) /\ UNCHANGED paid
    BY DEF TicketHonest, SendWrite
  <2>4. QED BY <2>1, <2>2, <2>3
<1>3. QED BY <1>1, <1>2 DEF TicketHonest, SendWrite

\* The list inserttickets reads is true, from the server or from the queue
\* (upi.dart 72-75).
LEMMA HonestServe ==
  ASSUME TypeOK, TicketHonest, NEW d \in Devices, NEW n \in PayNums,
         ServeInsert(d, n)
  PROVE  TicketHonest'
<1> USE DEF serverVars, seatVars
<1>1. PICK l : /\ ReadsTickets(d, l)
               /\ inserts' = [inserts EXCEPT
                                ![d][n] = [st |-> "served", snap |-> l]]
  BY DEF ServeInsert
<1>2. HonestList(l, paid)
  BY <1>1, AccountAssumption DEF ReadsTickets, TicketHonest
<1>3. \A e \in Devices : \A m \in PayNums :
        \/ inserts'[e][m].snap = inserts[e][m].snap
        \/ inserts'[e][m].snap = l
  BY <1>1 DEF TypeOK
<1>4. UNCHANGED <<tickets, writes, paid>>
  BY DEF ServeInsert
<1>5. QED BY <1>2, <1>3, <1>4 DEF TicketHonest, PendingTickets

\* The ticket inserttickets builds after its await names what was paid for
\* (upi.dart 85-104).
LEMMA HonestInsert ==
  ASSUME TypeOK, TicketHonest, RouteInv, InsertInv, NEW d \in Devices,
         NEW n \in PayNums, InsertTickets(d, n)
  PROVE  TicketHonest'
<1> USE DEF serverVars, seatVars
<1> DEFINE t == [dev |-> d, pay |-> n, show |-> show[d], seats |-> seatIndex[d]]
           l == <<t>> \o inserts[d][n].snap
           w == [doc |-> "users", list |-> l]
<1>1. /\ n \in DOMAIN paid[d]
      /\ paid[d][n].show = show[d]
      /\ paid[d][n].seats = seatIndex[d]
      /\ screen[d] # "home"
  BY DEF InsertTickets, InsertInv, PayScreens
<1>2. t \in Ticket
  BY <1>1, BoundAssumption DEF Ticket, TypeOK, PayNums, RouteInv
<1>3. /\ inserts[d][n].snap \in Seq(Ticket)
      /\ HonestList(inserts[d][n].snap, paid)
  BY DEF TypeOK, InsertRec, TicketHonest
<1>4. t.dev = d /\ t.pay = n /\ t.show = show[d] /\ t.seats = seatIndex[d]
  OBVIOUS
<1>5. writes' = [writes EXCEPT ![d] = Append(@, w)]
  BY DEF InsertTickets
<1> HIDE DEF t
<1>6. l \in Seq(Ticket)
  BY <1>2, <1>3
<1>7. \A i \in DOMAIN l : l[i] = t \/ \E j \in DOMAIN inserts[d][n].snap :
                                       l[i] = inserts[d][n].snap[j]
  BY <1>2, <1>3
<1> HIDE DEF l
<1>8. HonestList(l, paid)
  BY <1>1, <1>3, <1>4, <1>7 DEF HonestList
<1>9. w \in SeatWrite \cup TicketWrite /\ w.list = l
  BY <1>6 DEF TicketWrite
<1> HIDE DEF w
<1>10. UNCHANGED <<tickets, paid>>
  BY DEF InsertTickets
<1>11. ASSUME NEW e \in Devices, NEW i \in PendingTickets(e)'
       PROVE  HonestList(writes'[e][i].list, paid')
  <2>1. \/ i \in PendingTickets(e) /\ writes'[e][i] = writes[e][i]
        \/ writes'[e][i] = w
    BY <1>5, <1>9, QueueAppend DEF PendingTickets
  <2>2. QED BY <1>8, <1>9, <1>10, <2>1 DEF TicketHonest
<1>12. ASSUME NEW e \in Devices, NEW m \in PayNums
       PROVE  HonestList(inserts'[e][m].snap, paid')
  <2>1. \/ inserts'[e][m].snap = inserts[e][m].snap
        \/ inserts'[e][m].snap = <<>>
    BY DEF InsertTickets, NoInsert, TypeOK
  <2>2. HonestList(<<>>, paid)
    BY DEF HonestList
  <2>3. QED BY <1>10, <2>1, <2>2 DEF TicketHonest
<1>13. QED BY <1>10, <1>11, <1>12 DEF TicketHonest
--------------------------------------------------------------------------
(* The amount paid.                                                        *)

\* A payment is made with the amount of its own seats (upi.dart 235-245).
LEMMA AmountPay ==
  ASSUME TypeOK, SelectionInv, OrderInv, PaidAmountRight, NEW d \in Devices,
         PayUPI(d) \/ PayCard(d)
  PROVE  PaidAmountRight'
<1> DEFINE n == Len(paid[d]) + 1
<1>1. InsertData(d) /\ Paying(d) /\ screen[d] # "final"
  BY DEF PayUPI, PayCard, Paying, Screens
<1>2. /\ seatIndex[d] \in SUBSET Seats
      /\ IsFiniteSet(seatIndex[d])
      /\ Cardinality(seatIndex[d]) \in Nat
  BY SeatCount DEF TypeOK
<1>3. Cardinality(seatIndex[d]) \in 1 .. MaxSeats
  <2>1. Cardinality(seatIndex[d]) # 0
    BY <1>1, <1>2, FS_EmptySet DEF SelectionInv
  <2>2. Cardinality(seatIndex[d]) <= MaxSeats
    BY DEF SelectionInv
  <2>3. QED BY <1>2, <2>1, <2>2, BoundAssumption
<1>4. order[d].amount = TotalAmount(Cardinality(seatIndex[d]))
  BY <1>1 DEF OrderInv
<1>5. /\ DOMAIN paid'[d] = DOMAIN paid[d] \cup {n}
      /\ \A m \in DOMAIN paid[d] : paid'[d][m] = paid[d][m]
      /\ paid'[d][n] = [show |-> show[d], seats |-> seatIndex[d],
                       amount |-> order[d].amount]
      /\ \A e \in Devices \ {d} : paid'[e] = paid[e]
  BY <1>1, PaidGrows
<1> HIDE DEF n
<1>6. /\ paid'[d][n].seats = seatIndex[d]
      /\ paid'[d][n].amount = order[d].amount
  BY <1>5
<1>7. QED BY <1>3, <1>4, <1>5, <1>6 DEF PaidAmountRight
--------------------------------------------------------------------------
(* The whole step.                                                         *)

\* The steps of Firestore and of the handlers leave the screens alone.
LEMMA SystemStep ==
  ASSUME TypeOK, NEW d \in Devices,
         \/ \E k \in Slots : FetchStep(d, k)
         \/ \E n \in PayNums : InsertStep(d, n)
         \/ SendWrite(d)
  PROVE  /\ UNCHANGED <<screen, show, seatIndex, order, paid>>
         /\ \A e \in Devices : \A n \in PayNums :
              inserts[e][n].st = "idle" => inserts'[e][n].st = "idle"
<1> USE DEF serverVars, seatVars
<1>1. CASE \E k \in Slots : FetchStep(d, k)
  BY <1>1 DEF FetchStep, ServeFetch, EmitLoaded, EmitError
<1>2. ASSUME NEW m \in PayNums, InsertStep(d, m)
      PROVE  /\ UNCHANGED <<screen, show, seatIndex, order, paid>>
             /\ \A e \in Devices : \A n \in PayNums :
                  inserts[e][n].st = "idle" => inserts'[e][n].st = "idle"
  <2>1. UNCHANGED <<screen, show, seatIndex, order, paid>>
    BY <1>2 DEF InsertStep, ServeInsert, InsertTickets, InsertThrows
  <2>2. inserts[d][m].st # "idle"
    BY <1>2 DEF InsertStep, ServeInsert, InsertTickets, InsertThrows
  <2>3. \E r : inserts' = [inserts EXCEPT ![d][m] = r]
    BY <1>2 DEF InsertStep, ServeInsert, InsertTickets, InsertThrows
  <2>4. QED BY <2>1, <2>2, <2>3 DEF TypeOK
<1>3. CASE SendWrite(d)
  BY <1>3 DEF SendWrite
<1>4. QED BY <1>1, <1>2, <1>3

\* No tap makes a ticket false.
LEMMA HonestUser ==
  ASSUME TypeOK, RouteInv, TicketHonest, NEW d \in Devices, UserStep(d)
  PROVE  TicketHonest'
<1> USE DEF serverVars, seatVars
<1>1. CASE PayUPI(d) \/ PayCard(d)
  <2>1. show[d] \in Shows
    BY <1>1 DEF PayUPI, PayCard, RouteInv, TypeOK
  <2>2. QED BY <1>1, <2>1, HonestPay
<1>2. CASE ~ (PayUPI(d) \/ PayCard(d))
  <2>1. UNCHANGED <<tickets, writes, paid>> /\ (UNCHANGED inserts \/ DropInserts(d))
    BY <1>2 DEF UserStep, OpenShow, Refresh, ToggleSeat, ProceedToPay,
       ProceedWith, PressPay, ChooseUPI, ChooseCard, OkUPI, OkCard,
       BackFromDialog, BackFromPayment, Back, BackFromSeats, KillApp
  <2>2. \A e \in Devices : \A n \in PayNums :
          inserts'[e][n].snap = inserts[e][n].snap \/ inserts'[e][n].snap = <<>>
    <3>1. CASE DropInserts(d)
      <4>1. \A n \in PayNums : inserts'[d][n] = NoInsert
        BY <3>1 DEF DropInserts, TypeOK
      <4>2. \A e \in Devices \ {d} : inserts'[e] = inserts[e]
        BY <3>1 DEF DropInserts, TypeOK
      <4>3. QED BY <4>1, <4>2 DEF NoInsert
    <3>2. QED BY <2>1, <3>1
  <2>3. Extends(paid, paid')
    BY <2>1 DEF Extends
  <2>4. QED BY <2>1, <2>2, <2>3, HonestQuiet
<1>3. QED BY <1>1, <1>2

\* No tap makes the amount of a payment wrong.
LEMMA AmountUser ==
  ASSUME TypeOK, SelectionInv, OrderInv, PaidAmountRight, NEW d \in Devices,
         UserStep(d)
  PROVE  PaidAmountRight'
<1>1. CASE PayUPI(d) \/ PayCard(d)
  BY <1>1, AmountPay
<1>2. CASE ~ (PayUPI(d) \/ PayCard(d))
  <2>1. UNCHANGED paid
    BY <1>2 DEF UserStep, OpenShow, Refresh, ToggleSeat, ProceedToPay,
       ProceedWith, PressPay, ChooseUPI, ChooseCard, OkUPI, OkCard,
       BackFromDialog, BackFromPayment, Back, BackFromSeats, KillApp
  <2>2. QED BY <2>1 DEF PaidAmountRight
<1>3. QED BY <1>1, <1>2

\* The invariant holds when the app starts.
LEMMA BookingInit == Init => BookingInv
<1> SUFFICES ASSUME Init PROVE BookingInv
  OBVIOUS
<1>1. TypeOK /\ RouteInv
  BY TypeInit DEF TypeInv
<1>2. SelectionInv
  BY FS_EmptySet, BoundAssumption DEF Init, SelectionInv, Paying
<1>3. OrderInv /\ InsertInv
  BY DEF Init, OrderInv, InsertInv, Paying, NoInsert
<1>4. TicketHonest /\ PaidAmountRight
  BY DEF Init, TicketHonest, PaidAmountRight, HonestList, PendingTickets,
         NoInsert
<1>5. QED BY <1>1, <1>2, <1>3, <1>4 DEF BookingInv

\* Every step keeps the invariant: taps, answers of SeatsBloc, steps of
\* inserttickets and writes that are sent.
LEMMA BookingNext ==
  ASSUME BookingInv, Next
  PROVE  BookingInv'
<1>0. PICK d \in Devices :
        \/ UserStep(d)
        \/ \E k \in Slots : FetchStep(d, k)
        \/ \E n \in PayNums : InsertStep(d, n)
        \/ SendWrite(d)
  BY DEF Next
<1>1. RouteInv'
  BY RouteStep DEF TypeInv, BookingInv
<1> USE DEF BookingInv
<1>2. CASE UserStep(d)
  <2>1. TypeOK'
    BY <1>2, UserTypeStep DEF TypeInv
  <2>2. SelectionInv' /\ OrderInv' /\ InsertInv'
    BY <1>2, SelectionStep, OrderStep, InsertInvStep
  <2>3. TicketHonest' /\ PaidAmountRight'
    BY <1>2, HonestUser, AmountUser
  <2>4. QED BY <1>1, <2>1, <2>2, <2>3
<1>3. CASE \/ \E k \in Slots : FetchStep(d, k)
           \/ \E n \in PayNums : InsertStep(d, n)
           \/ SendWrite(d)
  <2>1. /\ UNCHANGED <<screen, show, seatIndex, order, paid>>
        /\ \A e \in Devices : \A n \in PayNums :
             inserts[e][n].st = "idle" => inserts'[e][n].st = "idle"
    BY <1>3, SystemStep
  <2>2. SelectionInv' /\ OrderInv' /\ InsertInv' /\ PaidAmountRight'
    BY <2>1 DEF SelectionInv, OrderInv, InsertInv, PaidAmountRight, Paying
  <2>3. \A n \in PayNums : inserts[d][n].st # "idle" => show[d] \in Shows
    BY DEF InsertInv, RouteInv, PayScreens, TypeOK
  <2>4. TypeOK'
    BY <1>3, <2>3, FetchTypeStep, InsertTypeStep, SendTypeStep DEF TypeInv
  <2>5. TicketHonest'
    <3>1. CASE \E k \in Slots : FetchStep(d, k)
      BY <3>1 DEF FetchStep, ServeFetch, EmitLoaded, EmitError, serverVars,
         TicketHonest, PendingTickets
    <3>2. ASSUME NEW n \in PayNums, InsertStep(d, n) PROVE TicketHonest'
      <4>1. CASE InsertThrows(d, n)
        <5>1. UNCHANGED <<tickets, writes, paid>>
          BY <4>1 DEF InsertThrows, serverVars
        <5>2. \A e \in Devices : \A m \in PayNums :
                \/ inserts'[e][m].snap = inserts[e][m].snap
                \/ inserts'[e][m].snap = <<>>
          BY <4>1 DEF InsertThrows, NoInsert, TypeOK
        <5>3. Extends(paid, paid')
          BY <5>1 DEF Extends
        <5>4. QED BY <5>1, <5>2, <5>3, HonestQuiet
      <4>2. QED BY <3>2, <4>1, HonestServe, HonestInsert DEF InsertStep
    <3>3. QED BY <1>3, <3>1, <3>2, HonestSend
  <2>6. QED BY <1>1, <2>2, <2>4, <2>5
<1>4. QED BY <1>0, <1>2, <1>3

\* So does a step that changes nothing.
LEMMA BookingStutter ==
  ASSUME BookingInv, UNCHANGED vars
  PROVE  BookingInv'
BY DEF vars, TypeOK, BookingInv, RouteInv, SelectionInv, OrderInv, InsertInv,
       TicketHonest, PaidAmountRight, Paying, PendingTickets

\* The inductive invariant of the booking path: screens, orders, calls of
\* inserttickets and tickets fit the payments they belong to, for any number
\* of devices, shows and seats (selectSeat.dart 209-348, finalPay.dart
\* 235-255, upi.dart 44-106).
THEOREM BookingInvariant == Spec => []BookingInv
<1>1. Init => BookingInv
  BY BookingInit
<1>2. BookingInv /\ [Next]_vars => BookingInv'
  BY BookingNext, BookingStutter
<1>3. QED BY <1>1, <1>2, PTL DEF Spec

\* Every variable keeps its type (upi.dart 49-55, 85-98 for the documents).
THEOREM TypeCorrect == Spec => []TypeOK
<1>1. BookingInv => TypeOK
  BY DEF BookingInv
<1>2. QED BY <1>1, BookingInvariant, PTL

\* No ticket ever names seats or a show other than those that were paid for,
\* although inserttickets reads the selection after an await
\* (upi.dart 66-106).
THEOREM TicketsAreHonest == Spec => []TicketHonest
<1>1. BookingInv => TicketHonest
  BY DEF BookingInv
<1>2. QED BY <1>1, BookingInvariant, PTL

\* The amount shown as paid is the price of the seats that were paid for
\* (finalPay.dart 236-238).
THEOREM AmountsAreRight == Spec => []PaidAmountRight
<1>1. BookingInv => PaidAmountRight
  BY DEF BookingInv
<1>2. QED BY <1>1, BookingInvariant, PTL
--------------------------------------------------------------------------
(* Seats go ahead of their ticket.                                         *)

\* Every ticket of a list names a device and a payment.
LEMMA TicketFields ==
  ASSUME NEW l \in Seq(Ticket), NEW k \in DOMAIN l
  PROVE  l[k].dev \in Devices /\ l[k].pay \in Nat
<1>1. l[k] \in Ticket
  OBVIOUS
<1>2. \A t \in Ticket : t.dev \in Devices /\ t.pay \in Nat
  BY DEF Ticket
<1>3. QED BY <1>1, <1>2

\* What is known of a list of tickets stays known while seat writes are only
\* sent.
LEMMA SentKept ==
  ASSUME NEW d \in Devices, NEW l \in Seq(Ticket), SentByOthers(d, l),
         \A e \in Devices, n \in Nat : SeatWriteQueued(e, n)' => SeatWriteQueued(e, n)
  PROVE  SentByOthers(d, l)'
<1>1. \A k \in DOMAIN l : l[k].dev \in Devices /\ l[k].pay \in Nat
  BY TicketFields
<1>2. QED BY <1>1 DEF SentByOthers

\* What is known of a true list stays known when a payment queues its seats:
\* no ticket of that payment exists yet.
LEMMA SentKeptByPayment ==
  ASSUME NEW d \in Devices, NEW l \in Seq(Ticket), HonestList(l, paid),
         NEW e \in Devices, NEW m, m \notin DOMAIN paid[e],
         \A f \in Devices, n \in Nat :
           SeatWriteQueued(f, n)' => SeatWriteQueued(f, n) \/ (f = e /\ n = m)
  PROVE  /\ SentByOthers(d, l) => SentByOthers(d, l)'
         /\ \A k \in DOMAIN l : ~ SeatWriteQueued(l[k].dev, l[k].pay) =>
                                ~ SeatWriteQueued(l[k].dev, l[k].pay)'
<1>1. \A k \in DOMAIN l : l[k].dev \in Devices /\ l[k].pay \in Nat
  BY TicketFields
<1>2. \A k \in DOMAIN l : ~ (l[k].dev = e /\ l[k].pay = m)
  BY DEF HonestList
<1>3. \A k \in DOMAIN l : ~ SeatWriteQueued(l[k].dev, l[k].pay) =>
                            ~ SeatWriteQueued(l[k].dev, l[k].pay)'
  BY <1>1, <1>2
<1>4. QED BY <1>3 DEF SentByOthers

\* Steps that leave documents and queues alone and at most forget calls.
LEMMA OrderQuiet ==
  ASSUME TypeOK, TicketOrderInv, UNCHANGED <<tickets, writes>>,
         \A d \in Devices : \A n \in PayNums :
           inserts'[d][n].snap = inserts[d][n].snap \/ inserts'[d][n].snap = <<>>
  PROVE  TicketOrderInv'
<1>1. \A e, n : SeatWriteQueued(e, n)' <=> SeatWriteQueued(e, n)
  BY DEF SeatWriteQueued
<1>2. SeatsBeforeTicket'
  BY <1>1 DEF TicketOrderInv, SeatsBeforeTicket
<1>3. ASSUME NEW d \in Devices, NEW i \in PendingTickets(d)'
      PROVE  SentByOthers(d, writes[d][i].list)' /\ SeatsAhead(d, i, writes[d][i].list)'
  <2>1. i \in PendingTickets(d)
    BY DEF PendingTickets
  <2>2. SentByOthers(d, writes[d][i].list) /\ SeatsAhead(d, i, writes[d][i].list)
    BY <2>1 DEF TicketOrderInv
  <2>3. QED BY <1>1, <2>2 DEF SentByOthers, SeatsAhead
<1>4. ASSUME NEW d \in Devices, NEW n \in PayNums
      PROVE  SentByOthers(d, inserts[d][n].snap)'
  <2>1. SentByOthers(d, inserts[d][n].snap)
    BY DEF TicketOrderInv
  <2>2. CASE inserts'[d][n].snap = inserts[d][n].snap
    BY <1>1, <2>1, <2>2 DEF SentByOthers
  <2>3. CASE inserts'[d][n].snap = <<>>
    BY <2>3 DEF SentByOthers
  <2>4. QED BY <2>2, <2>3
<1>5. QED BY <1>2, <1>3, <1>4 DEF TicketOrderInv

\* A payment queues its seats behind all lists of tickets, none of which can
\* hold its ticket (upi.dart 44-64).
LEMMA OrderPay ==
  ASSUME TypeOK, TicketHonest, TicketOrderInv, NEW d \in Devices, show[d] \in Shows,
         PayUPI(d) \/ PayCard(d)
  PROVE  TicketOrderInv'
<1>1. InsertData(d) /\ UNCHANGED tickets
  BY DEF PayUPI, PayCard, serverVars
<1>2. PICK m \in Nat : m = Len(paid[d]) + 1
  BY DEF TypeOK
<1>3. m \notin DOMAIN paid[d]
  BY <1>1, <1>2, PaidGrows
<1>4. PICK w \in SeatWrite : /\ w.doc = "bookseats"
                             /\ w.pay = m
                             /\ writes' = [writes EXCEPT ![d] = Append(@, w)]
  BY <1>1, <1>2 DEF InsertData, TypeOK, SeatWrite
<1>5. PICK z \in Nat : z = Len(writes[d]) + 1
  BY DEF TypeOK
<1>6. /\ \A e \in Devices \ {d} : writes'[e] = writes[e]
      /\ DOMAIN writes'[d] = DOMAIN writes[d] \cup {z}
      /\ \A i \in DOMAIN writes[d] : writes'[d][i] = writes[d][i]
      /\ writes'[d][z] = w
  BY <1>4, <1>5, QueueAppend
<1>7. \A f \in Devices, n \in Nat :
        SeatWriteQueued(f, n)' => SeatWriteQueued(f, n) \/ (f = d /\ n = m)
  BY <1>4, <1>6 DEF SeatWriteQueued
<1>8. ASSUME NEW l \in Seq(Ticket), HonestList(l, paid)
      PROVE  /\ \A e \in Devices : SentByOthers(e, l) => SentByOthers(e, l)'
             /\ \A k \in DOMAIN l : ~ SeatWriteQueued(l[k].dev, l[k].pay) =>
                                    ~ SeatWriteQueued(l[k].dev, l[k].pay)'
  BY <1>3, <1>7, <1>8, SentKeptByPayment
<1>9. ASSUME NEW a \in Accounts, NEW i \in DOMAIN tickets'[a]
      PROVE  ~ SeatWriteQueued(tickets[a][i].dev, tickets[a][i].pay)'
  <2>1. PICK l \in Seq(Ticket) : l = tickets[a]
    BY DEF TypeOK
  <2>2. HonestList(l, paid) /\ tickets'[a] = l
    BY <1>1, <2>1 DEF TicketHonest
  <2>3. ~ SeatWriteQueued(l[i].dev, l[i].pay)
    BY <1>1, <2>1 DEF TicketOrderInv, SeatsBeforeTicket
  <2>4. ~ SeatWriteQueued(l[i].dev, l[i].pay)'
    BY <1>8, <2>2, <2>3
  <2>5. QED BY <2>2, <2>4
<1>10. ASSUME NEW e \in Devices, NEW i \in PendingTickets(e)'
       PROVE  SentByOthers(e, writes[e][i].list)' /\ SeatsAhead(e, i, writes[e][i].list)'
  <2>1. i \in PendingTickets(e) /\ writes'[e][i] = writes[e][i]
    BY <1>4, <1>6 DEF PendingTickets
  <2>2. PICK l \in Seq(Ticket) : l = writes[e][i].list
    BY <2>1, PendingTicketsType
  <2>3. /\ HonestList(l, paid)
        /\ SentByOthers(e, l)
        /\ SeatsAhead(e, i, l)
    BY <2>1, <2>2 DEF TicketHonest, TicketOrderInv
  <2>4. SentByOthers(e, l)'
    BY <1>8, <2>3
  <2>5. \A k \in DOMAIN l : ~ (l[k].dev = d /\ l[k].pay = m)
    BY <1>3, <2>3 DEF HonestList
  <2>6. SeatsAhead(e, i, l)'
    BY <1>4, <1>6, <2>3, <2>5 DEF SeatsAhead
  <2>7. writes'[e][i].list = l
    BY <2>1, <2>2
  <2>8. QED BY <2>4, <2>6, <2>7
<1>11. ASSUME NEW e \in Devices, NEW n \in PayNums
       PROVE  SentByOthers(e, inserts[e][n].snap)'
  <2>1. \/ inserts'[e][n].snap = inserts[e][n].snap
        \/ inserts'[e][n].snap = <<>>
    BY <1>1 DEF InsertData, TypeOK
  <2>2. PICK l \in Seq(Ticket) : l = inserts[e][n].snap
    BY DEF TypeOK, InsertRec
  <2>3. HonestList(l, paid) /\ SentByOthers(e, l)
    BY <2>2 DEF TicketHonest, TicketOrderInv
  <2>4. SentByOthers(e, l)'
    BY <1>8, <2>3
  <2>5. SentByOthers(e, <<>>)'
    BY DEF SentByOthers
  <2>6. QED BY <2>1, <2>2, <2>4, <2>5
<1>12. QED BY <1>9, <1>10, <1>11 DEF TicketOrderInv, SeatsBeforeTicket

\* A list of tickets that reaches the server has no seats queued behind it
\* (upi.dart 57-61, 104).
LEMMA OrderSend ==
  ASSUME TypeOK, TicketOrderInv, NEW d \in Devices, SendWrite(d)
  PROVE  TicketOrderInv'
<1>1. /\ \A e \in Devices \ {d} : writes'[e] = writes[e]
      /\ 1 \in DOMAIN writes[d]
      /\ \A i \in DOMAIN writes'[d] : /\ i + 1 \in DOMAIN writes[d]
                                      /\ writes'[d][i] = writes[d][i + 1]
      /\ Head(writes[d]) = writes[d][1]
      /\ UNCHANGED inserts
  BY QueueTail DEF SendWrite
<1>n. \A i \in DOMAIN writes'[d] : i \in Nat /\ 1 < i + 1
  <2>1. writes'[d] \in Seq(SeatWrite \cup TicketWrite)
    BY DEF SendWrite, TypeOK
  <2>2. \A i \in DOMAIN writes'[d] : i \in Nat \ {0}
    BY <2>1
  <2>3. QED BY <2>2
<1>2. \A e \in Devices, n \in Nat : SeatWriteQueued(e, n)' => SeatWriteQueued(e, n)
  BY <1>1 DEF SeatWriteQueued
<1>3. ASSUME NEW a \in Accounts, NEW i \in DOMAIN tickets'[a]
      PROVE  ~ SeatWriteQueued(tickets[a][i].dev, tickets[a][i].pay)'
  <2>1. \/ tickets'[a] = tickets[a]
        \/ Head(writes[d]).doc # "bookseats" /\ tickets'[a] = Head(writes[d]).list
    BY AccountAssumption DEF SendWrite, TypeOK
  <2>2. CASE tickets'[a] = tickets[a]
    <3>1. PICK l \in Seq(Ticket) : l = tickets[a]
      BY DEF TypeOK
    <3>2. ~ SeatWriteQueued(l[i].dev, l[i].pay)
      BY <2>2, <3>1 DEF TicketOrderInv, SeatsBeforeTicket
    <3>3. l[i].dev \in Devices /\ l[i].pay \in Nat
      BY <2>2, <3>1, TicketFields
    <3>4. ~ SeatWriteQueued(l[i].dev, l[i].pay)'
      BY <1>2, <3>2, <3>3
    <3>5. QED BY <2>2, <3>1, <3>4
  <2>3. CASE Head(writes[d]).doc # "bookseats" /\ tickets'[a] = Head(writes[d]).list
    <3>1. 1 \in PendingTickets(d)
      <4>1. writes[d][1] \in SeatWrite \cup TicketWrite
        BY <1>1 DEF TypeOK
      <4>2. writes[d][1].doc = "users"
        BY <1>1, <2>3, <4>1 DEF SeatWrite, TicketWrite
      <4>3. QED BY <1>1, <4>2 DEF PendingTickets
    <3>2. PICK l \in Seq(Ticket) : l = writes[d][1].list
      BY <3>1, PendingTicketsType
    <3>3. tickets'[a] = l
      BY <1>1, <2>3, <3>2
    <3>4. SentByOthers(d, l) /\ SeatsAhead(d, 1, l)
      BY <3>1, <3>2 DEF TicketOrderInv
    <3>5. i \in DOMAIN l /\ l[i].dev \in Devices /\ l[i].pay \in Nat
      BY <3>3, TicketFields
    <3>6. CASE l[i].dev # d
      <4>1. ~ SeatWriteQueued(l[i].dev, l[i].pay)
        BY <3>4, <3>5, <3>6 DEF SentByOthers
      <4>2. ~ SeatWriteQueued(l[i].dev, l[i].pay)'
        BY <1>2, <3>5, <4>1
      <4>3. QED BY <3>3, <4>2
    <3>7. CASE l[i].dev = d
      <4>1. \A j \in DOMAIN writes[d] :
              (1 < j /\ writes[d][j].doc = "bookseats") => writes[d][j].pay # l[i].pay
        BY <3>4, <3>5, <3>7 DEF SeatsAhead
      <4>2. \A j \in DOMAIN writes'[d] :
              writes'[d][j].doc = "bookseats" => writes'[d][j].pay # l[i].pay
        BY <1>1, <1>n, <4>1
      <4>3. ~ SeatWriteQueued(l[i].dev, l[i].pay)'
        BY <3>7, <4>2 DEF SeatWriteQueued
      <4>4. QED BY <3>3, <4>3
    <3>8. QED BY <3>6, <3>7
  <2>4. QED BY <2>1, <2>2, <2>3
<1>4. ASSUME NEW e \in Devices, NEW i \in PendingTickets(e)'
      PROVE  SentByOthers(e, writes[e][i].list)' /\ SeatsAhead(e, i, writes[e][i].list)'
  <2>1. PICK h \in PendingTickets(e) : /\ writes'[e][i] = writes[e][h]
                                       /\ h = IF e = d THEN i + 1 ELSE i
    BY <1>1 DEF PendingTickets
  <2>2. PICK l \in Seq(Ticket) : l = writes[e][h].list
    BY PendingTicketsType
  <2>3. SentByOthers(e, l) /\ SeatsAhead(e, h, l)
    BY <2>2 DEF TicketOrderInv
  <2>4. SentByOthers(e, l)'
    BY <1>2, <2>3, SentKept
  <2>5. SeatsAhead(e, i, l)'
    <3>1. CASE e # d
      BY <1>1, <2>1, <2>3, <3>1 DEF SeatsAhead
    <3>2. CASE e = d
      <4>1. h = i + 1 /\ i \in DOMAIN writes'[d]
        BY <2>1, <3>2 DEF PendingTickets
      <4>2. \A j \in DOMAIN writes'[d] : i < j => h < j + 1
        BY <1>n, <4>1
      <4>3. QED BY <1>1, <2>3, <3>2, <4>2 DEF SeatsAhead
    <3>3. QED BY <3>1, <3>2
  <2>6. writes'[e][i].list = l
    BY <2>1, <2>2
  <2>7. QED BY <2>4, <2>5, <2>6
<1>5. ASSUME NEW e \in Devices, NEW n \in PayNums
      PROVE  SentByOthers(e, inserts[e][n].snap)'
  <2>1. PICK l \in Seq(Ticket) : l = inserts[e][n].snap
    BY DEF TypeOK, InsertRec
  <2>2. SentByOthers(e, l)'
    BY <1>2, <2>1, SentKept DEF TicketOrderInv
  <2>3. QED BY <1>1, <2>1, <2>2
<1>6. QED BY <1>3, <1>4, <1>5 DEF TicketOrderInv, SeatsBeforeTicket

\* The list inserttickets reads holds tickets of other devices only when their
\* seats have been sent (upi.dart 72-75).
LEMMA OrderServe ==
  ASSUME TypeOK, TicketOrderInv, NEW d \in Devices, NEW n \in PayNums,
         ServeInsert(d, n)
  PROVE  TicketOrderInv'
<1>1. PICK l : /\ ReadsTickets(d, l)
               /\ inserts' = [inserts EXCEPT
                                ![d][n] = [st |-> "served", snap |-> l]]
  BY DEF ServeInsert
<1>2. UNCHANGED <<tickets, writes>>
  BY DEF ServeInsert, serverVars
<1>3. \A e, m : SeatWriteQueued(e, m)' <=> SeatWriteQueued(e, m)
  BY <1>2 DEF SeatWriteQueued
<1>4. SentByOthers(d, l)
  <2>1. CASE l = tickets[AccountOf[d]]
    BY <2>1, AccountAssumption DEF TicketOrderInv, SeatsBeforeTicket, SentByOthers
  <2>2. CASE \E i \in PendingTickets(d) : l = writes[d][i].list
    BY <2>2 DEF TicketOrderInv
  <2>3. QED BY <1>1, <2>1, <2>2 DEF ReadsTickets
<1>5. SeatsBeforeTicket'
  BY <1>2, <1>3 DEF TicketOrderInv, SeatsBeforeTicket
<1>6. ASSUME NEW e \in Devices, NEW i \in PendingTickets(e)'
      PROVE  SentByOthers(e, writes[e][i].list)' /\ SeatsAhead(e, i, writes[e][i].list)'
  <2>1. i \in PendingTickets(e)
    BY <1>2 DEF PendingTickets
  <2>2. SentByOthers(e, writes[e][i].list) /\ SeatsAhead(e, i, writes[e][i].list)
    BY <2>1 DEF TicketOrderInv
  <2>3. QED BY <1>2, <1>3, <2>2 DEF SentByOthers, SeatsAhead
<1>7. ASSUME NEW e \in Devices, NEW m \in PayNums
      PROVE  SentByOthers(e, inserts[e][m].snap)'
  <2>1. \/ inserts'[e][m].snap = inserts[e][m].snap
        \/ e = d /\ inserts'[e][m].snap = l
    BY <1>1 DEF TypeOK
  <2>2. SentByOthers(e, inserts[e][m].snap)
    BY DEF TicketOrderInv
  <2>3. CASE inserts'[e][m].snap = inserts[e][m].snap
    BY <1>3, <2>2, <2>3 DEF SentByOthers
  <2>4. CASE e = d /\ inserts'[e][m].snap = l
    BY <1>3, <1>4, <2>4 DEF SentByOthers
  <2>5. QED BY <2>1, <2>3, <2>4
<1>8. QED BY <1>5, <1>6, <1>7 DEF TicketOrderInv

\* The list inserttickets writes back goes behind all seats of its device
\* (upi.dart 85-104).
LEMMA OrderInsert ==
  ASSUME TypeOK, RouteInv, InsertInv, TicketOrderInv, NEW d \in Devices,
         NEW n \in PayNums, InsertTickets(d, n)
  PROVE  TicketOrderInv'
<1>1. PICK s \in Seq(Ticket) : s = inserts[d][n].snap
  BY DEF TypeOK, InsertRec
<1>2. PICK t \in Ticket : t = [dev |-> d, pay |-> n, show |-> show[d],
                               seats |-> seatIndex[d]]
  <2>1. screen[d] # "home"
    BY DEF InsertTickets, InsertInv, PayScreens
  <2>2. [dev |-> d, pay |-> n, show |-> show[d], seats |-> seatIndex[d]] \in Ticket
    BY <2>1, BoundAssumption DEF Ticket, TypeOK, PayNums, RouteInv
  <2>3. QED BY <2>2
<1>3. PICK l \in Seq(Ticket) : l = <<t>> \o s
  <2>1. <<t>> \in Seq(Ticket)
    OBVIOUS
  <2>2. \A u \in Seq(Ticket) : u \o s \in Seq(Ticket)
    OBVIOUS
  <2>3. QED BY <2>1, <2>2
<1>4. t.dev = d
  BY <1>2
<1>5. \A i \in DOMAIN l : l[i] = t \/ \E j \in DOMAIN s : l[i] = s[j]
  BY <1>3
<1>6. PICK w \in TicketWrite : /\ w.doc = "users"
                               /\ w.list = l
                               /\ writes' = [writes EXCEPT ![d] = Append(@, w)]
  <2>1. [doc |-> "users", list |-> l] \in TicketWrite
    BY DEF TicketWrite
  <2>2. writes' = [writes EXCEPT ![d] = Append(@, [doc |-> "users", list |-> l])]
    BY <1>1, <1>2, <1>3 DEF InsertTickets
  <2>3. QED BY <2>1, <2>2
<1>7. PICK z \in Nat : z = Len(writes[d]) + 1
  BY DEF TypeOK
<1>8. /\ \A e \in Devices \ {d} : writes'[e] = writes[e]
      /\ DOMAIN writes'[d] = DOMAIN writes[d] \cup {z}
      /\ \A i \in DOMAIN writes[d] : writes'[d][i] = writes[d][i]
      /\ \A i \in DOMAIN writes[d] : i \in Nat /\ i < z
      /\ writes'[d][z] = w
  BY <1>6, <1>7, QueueAppend DEF TypeOK
<1>9. UNCHANGED tickets
  BY DEF InsertTickets, serverVars
<1>10. \A e \in Devices, m \in Nat : SeatWriteQueued(e, m)' => SeatWriteQueued(e, m)
  BY <1>6, <1>8 DEF SeatWriteQueued
<1>11. ASSUME NEW a \in Accounts, NEW i \in DOMAIN tickets'[a]
       PROVE  ~ SeatWriteQueued(tickets[a][i].dev, tickets[a][i].pay)'
  <2>1. PICK r \in Ticket : r = tickets[a][i]
    BY <1>9 DEF TypeOK
  <2>2. ~ SeatWriteQueued(r.dev, r.pay) /\ r.dev \in Devices /\ r.pay \in Nat
    BY <1>9, <2>1 DEF TicketOrderInv, SeatsBeforeTicket, Ticket
  <2>3. ~ SeatWriteQueued(r.dev, r.pay)'
    BY <1>10, <2>2
  <2>4. QED BY <1>9, <2>1, <2>3
<1>12. SentByOthers(d, l)'
  <2>1. SentByOthers(d, s)
    BY <1>1 DEF TicketOrderInv
  <2>2. SentByOthers(d, l)
    BY <1>4, <1>5, <2>1 DEF SentByOthers
  <2>3. QED BY <1>10, <2>2, SentKept
<1>13. ASSUME NEW e \in Devices, NEW i \in PendingTickets(e)'
       PROVE  SentByOthers(e, writes[e][i].list)' /\ SeatsAhead(e, i, writes[e][i].list)'
  <2>1. \/ i \in PendingTickets(e) /\ writes'[e][i] = writes[e][i]
        \/ e = d /\ i = z /\ writes'[e][i] = w
    BY <1>8 DEF PendingTickets
  <2>2. CASE i \in PendingTickets(e) /\ writes'[e][i] = writes[e][i]
    <3>1. PICK q \in Seq(Ticket) : q = writes[e][i].list
      BY <2>2, PendingTicketsType
    <3>2. SentByOthers(e, q) /\ SeatsAhead(e, i, q)
      BY <2>2, <3>1 DEF TicketOrderInv
    <3>3. SentByOthers(e, q)'
      BY <1>10, <3>2, SentKept
    <3>4. SeatsAhead(e, i, q)'
      BY <1>6, <1>8, <3>2 DEF SeatsAhead
    <3>5. writes'[e][i].list = q
      BY <2>2, <3>1
    <3>6. QED BY <3>3, <3>4, <3>5
  <2>3. CASE e = d /\ i = z /\ writes'[e][i] = w
    <3>1. \A j \in DOMAIN writes'[d] : ~ (z < j)
      BY <1>8
    <3>2. SeatsAhead(d, z, l)'
      BY <3>1 DEF SeatsAhead
    <3>3. writes'[e][i].list = l
      BY <1>6, <2>3
    <3>4. QED BY <1>12, <2>3, <3>2, <3>3
  <2>4. QED BY <2>1, <2>2, <2>3
<1>14. ASSUME NEW e \in Devices, NEW m \in PayNums
       PROVE  SentByOthers(e, inserts[e][m].snap)'
  <2>1. \/ inserts'[e][m].snap = inserts[e][m].snap
        \/ inserts'[e][m].snap = <<>>
    BY DEF InsertTickets, NoInsert, TypeOK
  <2>2. PICK q \in Seq(Ticket) : q = inserts[e][m].snap
    BY DEF TypeOK, InsertRec
  <2>3. SentByOthers(e, q)'
    BY <1>10, <2>2, SentKept DEF TicketOrderInv
  <2>4. SentByOthers(e, <<>>)'
    BY DEF SentByOthers
  <2>5. QED BY <2>1, <2>2, <2>3, <2>4
<1>15. QED BY <1>11, <1>13, <1>14 DEF TicketOrderInv, SeatsBeforeTicket

\* No tap lets a ticket overtake its seats.
LEMMA OrderUser ==
  ASSUME TypeOK, RouteInv, TicketHonest, TicketOrderInv, NEW d \in Devices, UserStep(d)
  PROVE  TicketOrderInv'
<1> USE DEF serverVars, seatVars
<1>1. CASE PayUPI(d) \/ PayCard(d)
  <2>1. show[d] \in Shows
    BY <1>1 DEF PayUPI, PayCard, RouteInv, TypeOK
  <2>2. QED BY <1>1, <2>1, OrderPay
<1>2. CASE ~ (PayUPI(d) \/ PayCard(d))
  <2>1. UNCHANGED <<tickets, writes>> /\ (UNCHANGED inserts \/ DropInserts(d))
    BY <1>2 DEF UserStep, OpenShow, Refresh, ToggleSeat, ProceedToPay,
       ProceedWith, PressPay, ChooseUPI, ChooseCard, OkUPI, OkCard,
       BackFromDialog, BackFromPayment, Back, BackFromSeats, KillApp
  <2>2. \A e \in Devices : \A n \in PayNums :
          inserts'[e][n].snap = inserts[e][n].snap \/ inserts'[e][n].snap = <<>>
    <3>1. CASE DropInserts(d)
      <4>1. \A n \in PayNums : inserts'[d][n] = NoInsert
        BY <3>1 DEF DropInserts, TypeOK
      <4>2. \A e \in Devices \ {d} : inserts'[e] = inserts[e]
        BY <3>1 DEF DropInserts, TypeOK
      <4>3. QED BY <4>1, <4>2 DEF NoInsert
    <3>2. QED BY <2>1, <3>1
  <2>3. QED BY <2>1, <2>2, OrderQuiet
<1>3. QED BY <1>1, <1>2

\* Every step keeps seats ahead of their ticket.
LEMMA TicketOrderNext ==
  ASSUME BookingInv, TicketOrderInv, [Next]_vars
  PROVE  TicketOrderInv'
<1> USE DEF BookingInv
<1>1. ASSUME NEW d \in Devices, \E k \in Slots : FetchStep(d, k)
      PROVE  TicketOrderInv'
  <2>1. UNCHANGED <<tickets, writes, inserts>>
    BY <1>1 DEF FetchStep, ServeFetch, EmitLoaded, EmitError, serverVars
  <2>2. QED BY <2>1, OrderQuiet
<1>2. ASSUME NEW d \in Devices, NEW n \in PayNums, InsertStep(d, n)
      PROVE  TicketOrderInv'
  <2>1. CASE InsertThrows(d, n)
    <3>1. UNCHANGED <<tickets, writes>>
      BY <2>1 DEF InsertThrows, serverVars
    <3>2. \A e \in Devices : \A m \in PayNums :
            \/ inserts'[e][m].snap = inserts[e][m].snap
            \/ inserts'[e][m].snap = <<>>
      BY <2>1 DEF InsertThrows, NoInsert, TypeOK
    <3>3. QED BY <3>1, <3>2, OrderQuiet
  <2>2. QED BY <1>2, <2>1, OrderServe, OrderInsert DEF InsertStep
<1>3. CASE UNCHANGED vars
  BY <1>3, OrderQuiet DEF vars
<1>4. QED BY <1>1, <1>2, <1>3, OrderUser, OrderSend DEF Next

\* Seats go ahead of their ticket on every way it can take, for any number of
\* phones of an account (upi.dart 57-61, 72-75, 85-104).
THEOREM TicketOrderInvariant == Spec => []TicketOrderInv
<1>1. Init => TicketOrderInv
  <2> SUFFICES ASSUME Init PROVE TicketOrderInv
    OBVIOUS
  <2>1. SeatsBeforeTicket
    BY DEF Init, SeatsBeforeTicket
  <2>2. \A d \in Devices : PendingTickets(d) = {}
    BY DEF Init, PendingTickets
  <2>3. \A d \in Devices : \A n \in PayNums : SentByOthers(d, inserts[d][n].snap)
    BY DEF Init, NoInsert, SentByOthers
  <2>4. QED BY <2>1, <2>2, <2>3 DEF TicketOrderInv
<1>2. BookingInv /\ TicketOrderInv /\ [Next]_vars => TicketOrderInv'
  BY TicketOrderNext
<1>3. QED BY <1>1, <1>2, BookingInvariant, PTL DEF Spec

\* No ticket is on the server before the seats of its payment, although both
\* are queued by a call that waits in between, and other phones of the account
\* write the whole list of tickets back (upi.dart 57-61).
THEOREM SeatsComeFirst == Spec => []SeatsBeforeTicket
<1>1. TicketOrderInv => SeatsBeforeTicket
  BY DEF TicketOrderInv
<1>2. QED BY <1>1, TicketOrderInvariant, PTL
==========================================================================
