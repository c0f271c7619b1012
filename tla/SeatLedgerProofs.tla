------------------------ MODULE SeatLedgerProofs ------------------------
(***************************************************************************)
(* The list of sold seats, for any number of phones, whatever their users  *)
(* do.  The list a payment writes contains the list it replaces, however   *)
(* fetches, writes, back steps and crashes interleave, until the lists of  *)
(* its show get out of date; and what makes them so is only a write that   *)
(* arrives while another phone sells the show, or an answer to an earlier  *)
(* question that is taken up.                                              *)
(***************************************************************************)
EXTENDS SeatBookingProofs

\* A show whose lists are out of date stays so.
LEMMA OutdatedGrows ==
  ASSUME NEW d \in Devices,
         \/ UserStep(d)
         \/ \E k \in Slots : FetchStep(d, k)
         \/ \E n \in PayNums : InsertStep(d, n)
         \/ SendWrite(d)
  PROVE  outdated \subseteq outdated'
<1> USE DEF serverVars
<1>1. CASE \/ \E s \in Shows : OpenShow(d, s)
           \/ ProceedToPay(d)
           \/ SendWrite(d)
  BY <1>1 DEF OpenShow, ProceedToPay, ProceedWith, SendWrite, Marked
<1>2. CASE \/ Refresh(d) \/ PayUPI(d) \/ PayCard(d)
           \/ \E i \in Seats : ToggleSeat(d, i)
           \/ PressPay(d) \/ ChooseUPI(d) \/ ChooseCard(d) \/ OkUPI(d) \/ OkCard(d)
           \/ BackFromDialog(d) \/ BackFromPayment(d) \/ Back(d)
           \/ BackFromSeats(d) \/ KillApp(d)
  BY <1>2 DEF Refresh, PayUPI, PayCard, ToggleSeat, PressPay, ChooseUPI,
     ChooseCard, OkUPI, OkCard, BackFromDialog, BackFromPayment, Back,
     BackFromSeats, KillApp
<1>3. CASE \E k \in Slots : FetchStep(d, k)
  BY <1>3 DEF FetchStep, ServeFetch, EmitLoaded, EmitError
<1>4. CASE \E n \in PayNums : InsertStep(d, n)
  BY <1>4 DEF InsertStep, ServeInsert, InsertTickets, InsertThrows
<1>5. QED BY <1>1, <1>2, <1>3, <1>4 DEF UserStep

\* A larger list misses no sale either.
LEMMA CoversMore ==
  ASSUME NEW d, NEW s, NEW x, NEW y, Covers(d, s, x), x \subseteq y
  PROVE  Covers(d, s, y)
BY DEF Covers

\* Payments are for shows.
LEMMA PaidShow ==
  ASSUME TypeOK, NEW d \in Devices, NEW n \in DOMAIN paid[d]
  PROVE  paid[d][n].show \in Shows
<1>1. paid[d][n] \in Payment
  BY DEF TypeOK
<1>2. QED BY <1>1 DEF Payment

\* What a read returns misses no sale.
LEMMA ReadCovers ==
  ASSUME NEW d \in Devices, NEW s \in Shows \ outdated, QueueGrows(d), TypeOK,
         NEW v, ReadsSeats(d, s, v)
  PROVE  Covers(d, s, v)
<1>1. CASE PendingSeats(d, s) = {} /\ v = sold[s]
  BY <1>1 DEF Covers
<1>2. ASSUME NEW i \in PendingSeats(d, s),
             \A j \in PendingSeats(d, s) : j <= i, v = writes[d][i].seats
      PROVE  Covers(d, s, v)
  <2>1. \A j \in PendingSeats(d, s) : j = i \/ j < i
    BY <1>2 DEF PendingSeats, TypeOK
  <2>2. QED BY <1>2, <2>1 DEF Covers, QueueGrows
<1>3. QED BY <1>1, <1>2 DEF ReadsSeats

\* Another device's step may change what is sold of the shows this device does
\* not sell, without taking a seat away, or else it makes lists outdated.
LEMMA OtherDevice ==
  ASSUME TypeOK, NEW e \in Devices, DeviceLedger(e),
         writes'[e] = writes[e], paid'[e] = paid[e], show'[e] = show[e],
         screen'[e] = screen[e], finallist'[e] = finallist[e],
         seatIndex'[e] = seatIndex[e], fetches'[e] = fetches[e],
         bloc'[e] = bloc[e], outdated \subseteq outdated',
         \A s \in Shows \ outdated' :
           /\ sold[s] \subseteq sold'[s]
           /\ Selling(e, s) => sold'[s] = sold[s]
  PROVE  DeviceLedger(e)'
<1>0. \A s : PendingSeats(e, s)' = PendingSeats(e, s)
  BY DEF PendingSeats
<1>1. QueueGrows(e)'
  <2> SUFFICES ASSUME NEW s \in Shows \ outdated', NEW i \in PendingSeats(e, s)
               PROVE  /\ sold'[s] \subseteq writes[e][i].seats
                      /\ \A j \in PendingSeats(e, s) :
                           i < j => writes[e][i].seats \subseteq writes[e][j].seats
    BY <1>0 DEF QueueGrows
  <2>1. sold'[s] = sold[s] /\ s \in Shows \ outdated
    BY DEF Selling
  <2>2. QED BY <2>1 DEF DeviceLedger, QueueGrows
<1>2. PaymentKept(e)'
  <2> SUFFICES ASSUME NEW n \in DOMAIN paid[e], paid[e][n].show \notin outdated'
               PROVE  \/ paid[e][n].seats \subseteq sold'[paid[e][n].show]
                      \/ \E i \in PendingSeats(e, paid[e][n].show) :
                           /\ writes[e][i].pay = n
                           /\ paid[e][n].seats \subseteq writes[e][i].seats
    BY DEF PaymentKept, PendingSeats
  <2>1. paid[e][n].show \in Shows \ outdated'
    BY PaidShow
  <2>2. QED BY <2>1 DEF DeviceLedger, PaymentKept
<1>3. MapCurrent(e)'
  <2> SUFFICES ASSUME show[e] \in Shows \ outdated'
               PROVE  MapCurrent(e)'
    BY DEF MapCurrent
  <2>1. show[e] \in Shows \ outdated /\ sold'[show[e]] = sold[show[e]]
    BY DEF Selling
  <2>2. \A x : Covers(e, show[e], x) => Covers(e, show[e], x)'
    BY <2>1 DEF Covers, PendingSeats
  <2>3. QED BY <2>1, <2>2 DEF DeviceLedger, MapCurrent, Paying
<1>4. ListHasSelection(e)'
  BY DEF DeviceLedger, ListHasSelection, Paying
<1>5. QED BY <1>1, <1>2, <1>3, <1>4 DEF DeviceLedger
--------------------------------------------------------------------------
(* SendWrite.                                                              *)

\* The write that is sent contains what it replaces.
LEMMA SendGrows ==
  ASSUME TypeOK, NEW d \in Devices, DeviceLedger(d), SendWrite(d)
  PROVE  /\ \A s \in Shows \ outdated : sold[s] \subseteq sold'[s]
         /\ \A s \in Shows : sold'[s] = sold[s]
                            \/ /\ 1 \in PendingSeats(d, s)
                               /\ sold'[s] = writes[d][1].seats
         /\ \A s \in Shows : 1 \in PendingSeats(d, s) =>
                               sold'[s] = writes[d][1].seats
         /\ \A s \in Shows \ outdated' : \A e \in Devices \ {d} :
              Selling(e, s) => sold'[s] = sold[s]
<1>1. 1 \in DOMAIN writes[d] /\ Head(writes[d]) = writes[d][1]
  BY QueueTail
<1>2. writes[d][1] \in SeatWrite \cup TicketWrite
  BY <1>1 DEF TypeOK
<1>3. CASE writes[d][1].doc = "bookseats"
  <2> DEFINE w == writes[d][1]
  <2>1. /\ sold' = [sold EXCEPT ![w.show] = w.seats]
        /\ outdated' = Marked(w.show, \E e \in Devices \ {d} : Selling(e, w.show))
    BY <1>1, <1>3 DEF SendWrite
  <2>2. 1 \in PendingSeats(d, w.show)
    BY <1>1, <1>3 DEF PendingSeats
  <2>3. \A s : 1 \in PendingSeats(d, s) => s = w.show
    BY DEF PendingSeats
  <2>4. w.show \in Shows
    BY <1>2, <1>3 DEF SeatWrite, TicketWrite
  <2>5. w.show \notin outdated => sold[w.show] \subseteq w.seats
    BY <2>2, <2>4 DEF DeviceLedger, QueueGrows
  <2> HIDE DEF w
  <2>6. /\ sold'[w.show] = w.seats
        /\ \A s \in Shows : s # w.show => sold'[s] = sold[s]
    BY <2>1, <2>4 DEF TypeOK
  <2>7. w.show \notin outdated' => \A e \in Devices \ {d} : ~ Selling(e, w.show)
    BY <2>1 DEF Marked
  <2>8. QED BY <2>2, <2>3, <2>5, <2>6, <2>7 DEF w
<1>4. CASE writes[d][1].doc # "bookseats"
  BY <1>1, <1>4 DEF SendWrite, PendingSeats
<1>5. QED BY <1>3, <1>4

\* Sending shifts the queue by one.
LEMMA PendingTail ==
  ASSUME TypeOK, NEW d \in Devices, SendWrite(d), NEW s
  PROVE  /\ \A i \in PendingSeats(d, s)' :
              i + 1 \in PendingSeats(d, s) /\ writes'[d][i] = writes[d][i + 1]
         /\ \A i \in PendingSeats(d, s) :
              i # 1 => /\ i - 1 \in PendingSeats(d, s)'
                       /\ writes'[d][i - 1] = writes[d][i]
         /\ \A i \in PendingSeats(d, s)' : i \in Nat /\ i >= 1
<1>1. /\ \A i \in DOMAIN writes'[d] : /\ i + 1 \in DOMAIN writes[d]
                                      /\ writes'[d][i] = writes[d][i + 1]
      /\ \A i \in DOMAIN writes[d] :
           i # 1 => /\ i - 1 \in DOMAIN writes'[d]
                    /\ writes'[d][i - 1] = writes[d][i]
  BY QueueTail
<1>2. \A i \in DOMAIN writes'[d] : i \in Nat /\ i >= 1
  <2>1. writes'[d] = Tail(writes[d]) /\ writes[d] # <<>>
        /\ writes[d] \in Seq(SeatWrite \cup TicketWrite)
    BY DEF SendWrite, TypeOK
  <2>2. writes'[d] \in Seq(SeatWrite \cup TicketWrite)
    BY <2>1
  <2>3. QED BY <2>2
<1>3. QED BY <1>1, <1>2 DEF PendingSeats

\* What covers the sales of a show covers them after a write was sent.
LEMMA CoversSend ==
  ASSUME TypeOK, NEW d \in Devices, DeviceLedger(d), SendWrite(d),
         NEW s \in Shows, NEW x, Covers(d, s, x)
  PROVE  Covers(d, s, x)'
<1>2. sold'[s] \subseteq x
  BY SendGrows DEF Covers
<1>3. \A i \in PendingSeats(d, s)' : writes'[d][i].seats \subseteq x
  BY PendingTail DEF Covers
<1>4. QED BY <1>2, <1>3 DEF Covers

\* The oldest write contains what is sold and is contained in the later ones,
\* so sending it loses nothing (upi.dart 57).
LEMMA LedgerSend ==
  ASSUME TypeOK, NEW d \in Devices, DeviceLedger(d), SendWrite(d)
  PROVE  DeviceLedger(d)'
<1>0. /\ UNCHANGED <<screen, show, seatIndex, finallist, bloc, fetches, paid>>
      /\ outdated \subseteq outdated'
  BY OutdatedGrows DEF SendWrite, seatVars
<1>1. ListHasSelection(d)'
  BY <1>0 DEF DeviceLedger, ListHasSelection, Paying
<1>2. QueueGrows(d)'
  <2> SUFFICES ASSUME NEW s \in Shows \ outdated', NEW i \in PendingSeats(d, s)'
               PROVE  /\ sold'[s] \subseteq writes'[d][i].seats
                      /\ \A j \in PendingSeats(d, s)' :
                           i < j => writes'[d][i].seats \subseteq writes'[d][j].seats
    BY DEF QueueGrows
  <2>1. s \in Shows \ outdated
    BY <1>0
  <2>2. /\ i + 1 \in PendingSeats(d, s)
        /\ writes'[d][i] = writes[d][i + 1]
        /\ i \in Nat /\ i >= 1
    BY PendingTail
  <2>3. 1 \in PendingSeats(d, s) => writes[d][1].seats \subseteq writes[d][i + 1].seats
    BY <2>1, <2>2 DEF DeviceLedger, QueueGrows
  <2>4. sold[s] \subseteq writes[d][i + 1].seats
    BY <2>1, <2>2 DEF DeviceLedger, QueueGrows
  <2>5. sold'[s] \subseteq writes'[d][i].seats
    BY <2>1, <2>2, <2>3, <2>4, SendGrows
  <2>6. ASSUME NEW j \in PendingSeats(d, s)', i < j
        PROVE  writes'[d][i].seats \subseteq writes'[d][j].seats
    <3>1. /\ j + 1 \in PendingSeats(d, s)
          /\ writes'[d][j] = writes[d][j + 1]
          /\ j \in Nat
      BY PendingTail
    <3>2. i + 1 < j + 1
      BY <2>2, <2>6, <3>1
    <3>3. QED BY <2>1, <2>2, <3>1, <3>2 DEF DeviceLedger, QueueGrows
  <2>7. QED BY <2>5, <2>6
<1>3. PaymentKept(d)'
  <2> SUFFICES ASSUME NEW n \in DOMAIN paid[d], NEW s, s = paid[d][n].show,
                      s \notin outdated'
               PROVE  \/ paid[d][n].seats \subseteq sold'[s]
                      \/ \E i \in PendingSeats(d, s)' :
                           /\ writes'[d][i].pay = n
                           /\ paid[d][n].seats \subseteq writes'[d][i].seats
    BY <1>0 DEF PaymentKept, PendingSeats
  <2>1. s \in Shows \ outdated
    BY <1>0, PaidShow
  <2>2. CASE paid[d][n].seats \subseteq sold[s]
    BY <2>1, <2>2, SendGrows
  <2>3. ASSUME NEW i \in PendingSeats(d, s), writes[d][i].pay = n,
               paid[d][n].seats \subseteq writes[d][i].seats
        PROVE  \/ paid[d][n].seats \subseteq sold'[s]
               \/ \E j \in PendingSeats(d, s)' :
                    /\ writes'[d][j].pay = n
                    /\ paid[d][n].seats \subseteq writes'[d][j].seats
    <3>1. CASE i = 1
      BY <2>1, <2>3, <3>1, SendGrows
    <3>2. CASE i # 1
      <4>1. i - 1 \in PendingSeats(d, s)' /\ writes'[d][i - 1] = writes[d][i]
        BY <3>2, PendingTail
      <4>2. QED BY <2>3, <4>1
    <3>3. QED BY <3>1, <3>2
  <2>4. QED BY <2>1, <2>2, <2>3 DEF DeviceLedger, PaymentKept
<1>4. MapCurrent(d)'
  <2> SUFFICES ASSUME show[d] \in Shows \ outdated' PROVE MapCurrent(d)'
    BY <1>0 DEF MapCurrent
  <2>1. show[d] \in Shows \ outdated
    BY <1>0
  <2>2. \A x : Covers(d, show[d], x) => Covers(d, show[d], x)'
    BY <1>0, <2>1, CoversSend DEF Covers, PendingSeats
  <2>3. QED BY <1>0, <2>1, <2>2 DEF DeviceLedger, MapCurrent, Paying
<1>5. QED BY <1>1, <1>2, <1>3, <1>4 DEF DeviceLedger
--------------------------------------------------------------------------
(* Payments and tickets: the two appends to the queue.                     *)

\* A payment queues a list that contains every list before it
\* (selectSeat.dart 320-325, upi.dart 48-57).
LEMMA LedgerPay ==
  ASSUME TypeOK, RouteInv, NEW d \in Devices, DeviceLedger(d),
         PayUPI(d) \/ PayCard(d)
  PROVE  DeviceLedger(d)'
<1> DEFINE n == Len(paid[d]) + 1
           m == Len(writes[d]) + 1
           w == [doc |-> "bookseats", pay |-> n, show |-> show[d],
                 seats |-> finallist[d]]
<1>1. /\ InsertData(d)
      /\ UNCHANGED <<sold, show, seatIndex, finallist, bloc, fetches, outdated>>
      /\ Paying(d)
      /\ Paying(d)'
      /\ show[d] # NoShow
  BY DEF PayUPI, PayCard, serverVars, seatVars, Paying, Screens, RouteInv, TypeOK
<1>2. show[d] \in Shows
  BY <1>1 DEF TypeOK
<1>3. /\ seatIndex[d] \subseteq finallist[d]
      /\ show[d] \notin outdated => Covers(d, show[d], finallist[d])
  BY <1>1, <1>2 DEF DeviceLedger, MapCurrent, ListHasSelection
<1>4. w \in SeatWrite \cup TicketWrite
  BY <1>2 DEF TypeOK, SeatWrite
<1>5. writes' = [writes EXCEPT ![d] = Append(@, w)]
  BY <1>1 DEF InsertData
<1>6. w.doc = "bookseats" /\ w.pay = n /\ w.show = show[d] /\ w.seats = finallist[d]
  OBVIOUS
<1>7. /\ DOMAIN paid'[d] = DOMAIN paid[d] \cup {n}
      /\ \A k \in DOMAIN paid[d] : paid'[d][k] = paid[d][k]
      /\ paid'[d][n] = [show |-> show[d], seats |-> seatIndex[d],
                       amount |-> order[d].amount]
  BY <1>1, PaidGrows
<1> HIDE DEF w, n
<1>8. /\ DOMAIN writes'[d] = DOMAIN writes[d] \cup {m}
      /\ \A i \in DOMAIN writes[d] : writes'[d][i] = writes[d][i]
      /\ \A i \in DOMAIN writes[d] : i < m /\ i \in Nat
      /\ m \in Nat
      /\ writes'[d][m] = w
  BY <1>4, <1>5, QueueAppend DEF TypeOK
<1> HIDE DEF m
<1>9. \A s : PendingSeats(d, s)' =
         IF s = show[d] THEN PendingSeats(d, s) \cup {m} ELSE PendingSeats(d, s)
  BY <1>6, <1>8 DEF PendingSeats
<1>10. ListHasSelection(d)'
  BY <1>1, <1>3 DEF ListHasSelection
<1>11. QueueGrows(d)'
  <2> SUFFICES ASSUME NEW s \in Shows \ outdated, NEW i \in PendingSeats(d, s)'
               PROVE  /\ sold[s] \subseteq writes'[d][i].seats
                      /\ \A j \in PendingSeats(d, s)' :
                           i < j => writes'[d][i].seats \subseteq writes'[d][j].seats
    BY <1>1 DEF QueueGrows
  <2>1. CASE i \in PendingSeats(d, s)
    <3>1. writes'[d][i] = writes[d][i]
      BY <1>8, <2>1 DEF PendingSeats
    <3>2. ASSUME NEW j \in PendingSeats(d, s)', i < j
          PROVE  writes'[d][i].seats \subseteq writes'[d][j].seats
      <4>1. CASE j \in PendingSeats(d, s)
        BY <1>8, <2>1, <3>1, <3>2, <4>1 DEF DeviceLedger, QueueGrows, PendingSeats
      <4>2. CASE j = m /\ s = show[d]
        BY <1>3, <1>6, <1>8, <2>1, <3>1, <4>2 DEF Covers
      <4>3. QED BY <1>9, <4>1, <4>2
    <3>3. QED BY <2>1, <3>1, <3>2 DEF DeviceLedger, QueueGrows
  <2>2. CASE i = m /\ s = show[d]
    <3>1. \A j \in PendingSeats(d, s)' : ~ (i < j)
      BY <1>8, <1>9, <2>2 DEF PendingSeats
    <3>2. sold[s] \subseteq writes'[d][i].seats
      BY <1>3, <1>6, <1>8, <2>2 DEF Covers
    <3>3. QED BY <3>1, <3>2
  <2>3. QED BY <1>9, <2>1, <2>2
<1>12. PaymentKept(d)'
  <2>1. ASSUME NEW k \in DOMAIN paid[d], paid[d][k].show \notin outdated
        PROVE  \/ paid[d][k].seats \subseteq sold[paid[d][k].show]
               \/ \E i \in DOMAIN writes'[d] :
                    /\ writes'[d][i].doc = "bookseats"
                    /\ writes'[d][i].show = paid[d][k].show
                    /\ writes'[d][i].pay = k
                    /\ paid[d][k].seats \subseteq writes'[d][i].seats
    BY <1>8, <2>1 DEF DeviceLedger, PaymentKept, PendingSeats
  <2>2. \E i \in DOMAIN writes'[d] :
           /\ writes'[d][i].doc = "bookseats"
           /\ writes'[d][i].show = paid'[d][n].show
           /\ writes'[d][i].pay = n
           /\ paid'[d][n].seats \subseteq writes'[d][i].seats
    BY <1>3, <1>6, <1>7, <1>8
  <2>3. QED BY <1>1, <1>7, <2>1, <2>2 DEF PaymentKept, PendingSeats
<1>13. MapCurrent(d)'
  <2> SUFFICES ASSUME show[d] \notin outdated PROVE MapCurrent(d)'
    BY <1>1 DEF MapCurrent
  <2>1. \A x : finallist[d] \subseteq x /\ Covers(d, show[d], x) =>
           /\ sold[show[d]] \subseteq x
           /\ \A i \in DOMAIN writes'[d] :
                /\ writes'[d][i].doc = "bookseats"
                /\ writes'[d][i].show = show[d]
                => writes'[d][i].seats \subseteq x
    BY <1>6, <1>8 DEF Covers, PendingSeats
  <2>2. \A x : finallist[d] \subseteq x /\ Covers(d, show[d], x) =>
           Covers(d, show[d], x)'
    BY <1>1, <2>1 DEF Covers, PendingSeats
  <2>3. \A y : finallist[d] \subseteq finallist[d] \cup y
    OBVIOUS
  <2>4. QED BY <1>1, <1>2, <1>3, <2>2, <2>3 DEF DeviceLedger, MapCurrent
<1>14. QED BY <1>10, <1>11, <1>12, <1>13 DEF DeviceLedger

\* A queued write of tickets is no sale.
LEMMA LedgerInsert ==
  ASSUME TypeOK, TypeOK', NEW d \in Devices, DeviceLedger(d),
         NEW n \in PayNums, InsertTickets(d, n)
  PROVE  DeviceLedger(d)'
<1> DEFINE t == [dev |-> d, pay |-> n, show |-> show[d], seats |-> seatIndex[d]]
           w == [doc |-> "users", list |-> <<t>> \o inserts[d][n].snap]
<1>1. /\ writes' = [writes EXCEPT ![d] = Append(@, w)]
      /\ UNCHANGED <<sold, screen, show, seatIndex, finallist, bloc, fetches,
                     paid, outdated>>
  BY DEF InsertTickets, serverVars, seatVars
<1>2. w.doc # "bookseats"
  OBVIOUS
<1> HIDE DEF w
<1>3. writes[d] \in Seq(SeatWrite \cup TicketWrite) /\ writes'[d] = Append(writes[d], w)
  BY <1>1 DEF TypeOK
<1>4. /\ DOMAIN writes'[d] = DOMAIN writes[d] \cup {Len(writes[d]) + 1}
      /\ \A i \in DOMAIN writes[d] : writes'[d][i] = writes[d][i]
      /\ writes'[d][Len(writes[d]) + 1] = w
  BY <1>3
<1>5. \A s : /\ PendingSeats(d, s)' = PendingSeats(d, s)
             /\ \A i \in PendingSeats(d, s) : writes'[d][i] = writes[d][i]
  BY <1>2, <1>4 DEF PendingSeats
<1>6. ListHasSelection(d)'
  BY <1>1 DEF DeviceLedger, ListHasSelection, Paying
<1>7. QueueGrows(d)'
  <2> SUFFICES ASSUME NEW s \in Shows \ outdated, NEW i \in PendingSeats(d, s)'
               PROVE  /\ sold[s] \subseteq writes'[d][i].seats
                      /\ \A j \in PendingSeats(d, s)' :
                           i < j => writes'[d][i].seats \subseteq writes'[d][j].seats
    BY <1>1 DEF QueueGrows
  <2>1. i \in PendingSeats(d, s) /\ writes'[d][i] = writes[d][i]
    BY <1>5
  <2>2. \A j \in PendingSeats(d, s)' :
          j \in PendingSeats(d, s) /\ writes'[d][j] = writes[d][j]
    BY <1>5
  <2>3. QED BY <2>1, <2>2 DEF DeviceLedger, QueueGrows
<1>8. PaymentKept(d)'
  <2>1. ASSUME NEW k \in DOMAIN paid[d], paid[d][k].show \notin outdated
        PROVE  \/ paid[d][k].seats \subseteq sold[paid[d][k].show]
               \/ \E i \in DOMAIN writes'[d] :
                    /\ writes'[d][i].doc = "bookseats"
                    /\ writes'[d][i].show = paid[d][k].show
                    /\ writes'[d][i].pay = k
                    /\ paid[d][k].seats \subseteq writes'[d][i].seats
    BY <1>4, <2>1 DEF DeviceLedger, PaymentKept, PendingSeats
  <2>2. QED BY <1>1, <2>1 DEF PaymentKept, PendingSeats
<1>9. MapCurrent(d)'
  <2>1. \A x : Covers(d, show[d], x) =>
           /\ sold[show[d]] \subseteq x
           /\ \A i \in DOMAIN writes'[d] :
                /\ writes'[d][i].doc = "bookseats"
                /\ writes'[d][i].show = show[d]
                => writes'[d][i].seats \subseteq x
    BY <1>2, <1>4 DEF Covers, PendingSeats
  <2>2. \A x : Covers(d, show[d], x) => Covers(d, show[d], x)'
    BY <1>1, <2>1 DEF Covers, PendingSeats
  <2>3. QED BY <1>1, <2>2 DEF DeviceLedger, MapCurrent, Paying
<1>10. QED BY <1>6, <1>7, <1>8, <1>9 DEF DeviceLedger
--------------------------------------------------------------------------
(* The steps that leave documents, queues and payments alone.              *)

\* Then only the seat screen has to be looked at.
LEMMA LedgerScreen ==
  ASSUME TypeOK, NEW d \in Devices, DeviceLedger(d),
         UNCHANGED <<sold, writes, paid>>, outdated \subseteq outdated',
         MapCurrent(d)', ListHasSelection(d)'
  PROVE  DeviceLedger(d)'
<1>1. QueueGrows(d)' /\ PaymentKept(d)'
  BY DEF DeviceLedger, QueueGrows, PaymentKept, PendingSeats
<1>2. QED BY <1>1 DEF DeviceLedger

\* An answer misses no sale of its show, and so neither does the map drawn
\* from it (seats_bloc.dart 16-65).
LEMMA LedgerFetch ==
  ASSUME TypeOK, NEW d \in Devices, DeviceLedger(d),
         NEW k \in Slots, FetchStep(d, k)
  PROVE  DeviceLedger(d)'
<1>0. /\ UNCHANGED <<sold, writes, paid, show, screen, seatIndex, finallist,
                     outdated>>
      /\ \A s, x : Covers(d, s, x)' <=> Covers(d, s, x)
  BY DEF FetchStep, ServeFetch, EmitLoaded, EmitError, serverVars, seatVars,
         Covers, PendingSeats
<1>1. ListHasSelection(d)'
  BY <1>0 DEF DeviceLedger, ListHasSelection, Paying
<1> SUFFICES ASSUME show[d] \in Shows \ outdated PROVE MapCurrent(d)'
  BY <1>0, <1>1, LedgerScreen DEF MapCurrent
<1>2. MapCurrent(d)
  BY DEF DeviceLedger
<1>3. \A x : Covers(d, show[d], x)' <=> Covers(d, show[d], x)
  BY <1>0 DEF Covers, PendingSeats
<1>4. CASE ServeFetch(d, k)
  <2>1. PICK v \in SUBSET Seats :
          /\ ReadsSeats(d, fetches[d][k].show, v)
          /\ fetches' = [fetches EXCEPT ![d][k].st = "served", ![d][k].value = v]
    BY <1>4 DEF ServeFetch
  <2>2. fetches[d][k].show = show[d] => Covers(d, show[d], v)
    BY <2>1, ReadCovers DEF DeviceLedger
  <2>4. fetches[d][k].show = show[d] => Covers(d, show[d], finallist[d] \cup v)
    BY <2>2, CoversMore
  <2>5. /\ fetches'[d][k].show = fetches[d][k].show
        /\ fetches'[d][k].value = v
        /\ \A j \in Slots \ {k} : fetches'[d][j] = fetches[d][j]
    BY <2>1 DEF TypeOK, FetchRec
  <2>6. UNCHANGED bloc
    BY <1>4 DEF ServeFetch
  <2>7. \A j \in Slots :
          (fetches'[d][j].st = "served" /\ fetches'[d][j].show = show[d]) =>
            Covers(d, show[d], finallist[d] \cup fetches'[d][j].value)
    BY <1>2, <2>4, <2>5 DEF MapCurrent
  <2>8. QED BY <1>0, <1>2, <1>3, <2>6, <2>7 DEF MapCurrent, Paying
<1>5. CASE EmitLoaded(d, k) \/ EmitError(d, k)
  <2>1. \A j \in Slots : fetches'[d][j] = fetches[d][j]
                          \/ fetches'[d][j].st = "idle"
    BY <1>5 DEF EmitLoaded, EmitError, NoFetch, TypeOK
  <2>2. bloc'[d].st = "Loaded" =>
          /\ bloc'[d].show = fetches[d][k].show
          /\ bloc'[d].ticket = fetches[d][k].value
          /\ fetches[d][k].st = "served"
    BY <1>5 DEF EmitLoaded, EmitError, SeatsError, TypeOK, SeatsState
  <2>3. \A j \in Slots :
          (fetches'[d][j].st = "served" /\ fetches'[d][j].show = show[d]) =>
            Covers(d, show[d], finallist[d] \cup fetches'[d][j].value)
    BY <1>2, <2>1 DEF MapCurrent
  <2>4. (bloc'[d].st = "Loaded" /\ bloc'[d].show = show[d]) =>
          Covers(d, show[d], finallist[d] \cup bloc'[d].ticket)
    BY <1>2, <2>2 DEF MapCurrent
  <2>5. QED BY <1>0, <1>2, <1>3, <2>3, <2>4 DEF MapCurrent, Paying
<1>6. QED BY <1>4, <1>5 DEF FetchStep

\* A fetch that starts is for the show it was asked for and has no answer.
LEMMA FetchStarts ==
  ASSUME TypeOK, NEW d \in Devices, NEW s, FetchSeats(d, s)
  PROVE  /\ \A j \in Slots :
              \/ fetches'[d][j] = fetches[d][j]
              \/ fetches'[d][j].st = "sent" /\ fetches'[d][j].show = s
         /\ bloc'[d].st = "Loading"
BY DEF FetchSeats, SeatsLoading, TypeOK, SeatsState

\* No other tap makes a device's lists older than the sales, unless it takes up
\* an answer to an earlier question and so marks the show (selectSeat.dart
\* 44-52, 320-325).
LEMMA LedgerUser ==
  ASSUME TypeOK, RouteInv, NEW d \in Devices, DeviceLedger(d),
         UserStep(d), ~ (PayUPI(d) \/ PayCard(d))
  PROVE  DeviceLedger(d)'
<1> USE DEF serverVars, seatVars, Screens
<1>0. UNCHANGED <<sold, writes, paid>>
  BY DEF UserStep, OpenShow, Refresh, ToggleSeat, ProceedToPay, ProceedWith,
         PressPay, ChooseUPI, ChooseCard, OkUPI, OkCard, BackFromDialog,
         BackFromPayment, Back, BackFromSeats, KillApp
<1>a. /\ MapCurrent(d) /\ ListHasSelection(d)
      /\ outdated \subseteq outdated'
  BY OutdatedGrows DEF DeviceLedger
<1>1. ASSUME NEW s \in Shows, OpenShow(d, s) PROVE DeviceLedger(d)'
  <2>1. /\ show'[d] = s /\ screen'[d] = "select"
        /\ s \notin outdated' => \A k \in Slots :
             ~ (fetches[d][k].st = "served" /\ fetches[d][k].show = s)
    BY <1>1 DEF OpenShow, TypeOK, Marked
  <2>2. /\ \A j \in Slots :
             \/ fetches'[d][j] = fetches[d][j]
             \/ fetches'[d][j].st = "sent" /\ fetches'[d][j].show = s
        /\ bloc'[d].st = "Loading"
    BY <1>1, FetchStarts DEF OpenShow
  <2>3. MapCurrent(d)' /\ ListHasSelection(d)'
    BY <2>1, <2>2 DEF MapCurrent, ListHasSelection, Paying
  <2>4. QED BY <1>0, <1>a, <2>3, LedgerScreen
<1>2. CASE Refresh(d)
  <2>1. UNCHANGED <<show, screen, seatIndex, finallist, outdated>>
    BY <1>2 DEF Refresh
  <2>2. /\ \A j \in Slots :
             \/ fetches'[d][j] = fetches[d][j]
             \/ fetches'[d][j].st = "sent" /\ fetches'[d][j].show = show[d]
        /\ bloc'[d].st = "Loading"
    BY <1>2, FetchStarts DEF Refresh
  <2>3. MapCurrent(d)'
    BY <1>0, <1>a, <2>1, <2>2 DEF MapCurrent, Paying, Covers, PendingSeats
  <2>4. ListHasSelection(d)'
    BY <1>a, <2>1 DEF ListHasSelection, Paying
  <2>5. QED BY <1>0, <1>a, <2>3, <2>4, LedgerScreen
<1>3. CASE ProceedToPay(d)
  <2> DEFINE f == finallist[d] \cup bloc[d].ticket \cup seatIndex[d]
  <2>1. /\ UNCHANGED <<show, seatIndex>>
        /\ finallist'[d] = f
        /\ bloc[d].st = "Loaded"
        /\ show[d] # NoShow
        /\ show[d] \notin outdated' =>
             bloc[d].show = show[d] /\ show[d] \notin outdated
    BY <1>3 DEF ProceedToPay, ProceedWith, TypeOK, RouteInv, Marked
  <2>2. /\ \A j \in Slots :
             \/ fetches'[d][j] = fetches[d][j]
             \/ fetches'[d][j].st = "sent" /\ fetches'[d][j].show = show[d]
        /\ bloc'[d].st = "Loading"
    BY <1>3, FetchStarts DEF ProceedToPay, ProceedWith
  <2>3. show[d] \notin outdated' => Covers(d, show[d], f)
    <3>1. show[d] \notin outdated' =>
            Covers(d, show[d], finallist[d] \cup bloc[d].ticket)
      BY <1>a, <2>1 DEF MapCurrent, TypeOK
    <3>2. finallist[d] \cup bloc[d].ticket \subseteq f
      OBVIOUS
    <3>3. QED BY <3>1, <3>2, CoversMore
  <2>4. \A y : show[d] \notin outdated' => Covers(d, show[d], f \cup y)
    <3>1. \A y : f \subseteq f \cup y
      OBVIOUS
    <3>2. QED BY <2>3, <3>1, CoversMore
  <2>5. seatIndex[d] \subseteq f
    OBVIOUS
  <2> HIDE DEF f
  <2>6. \A x : Covers(d, show[d], x)' <=> Covers(d, show[d], x)
    BY <1>0, <2>1 DEF Covers, PendingSeats
  <2>7. MapCurrent(d)' /\ ListHasSelection(d)'
    BY <1>a, <2>1, <2>2, <2>3, <2>4, <2>5, <2>6 DEF MapCurrent, ListHasSelection
  <2>8. QED BY <1>0, <1>a, <2>7, LedgerScreen
<1>4. ASSUME CloseSeatScreen(d) PROVE DeviceLedger(d)'
  <2>1. show'[d] = NoShow /\ screen'[d] = "home"
    BY <1>4 DEF CloseSeatScreen, TypeOK
  <2>2. MapCurrent(d)' /\ ListHasSelection(d)'
    BY <2>1, ShowAssumption DEF MapCurrent, ListHasSelection, Paying
  <2>3. QED BY <1>0, <1>a, <2>2, LedgerScreen
<1>5. ASSUME UNCHANGED <<show, finallist, fetches, bloc, outdated>>,
             Paying(d)' => Paying(d) /\ UNCHANGED seatIndex
      PROVE  DeviceLedger(d)'
  <2>1. \A x : Covers(d, show[d], x)' <=> Covers(d, show[d], x)
    BY <1>0, <1>5 DEF Covers, PendingSeats
  <2>2. MapCurrent(d)' /\ ListHasSelection(d)'
    BY <1>a, <1>5, <2>1 DEF MapCurrent, ListHasSelection
  <2>3. QED BY <1>0, <1>a, <2>2, LedgerScreen
<1>6. CASE OkUPI(d) \/ OkCard(d) \/ BackFromSeats(d) \/ KillApp(d)
  BY <1>4, <1>6 DEF OkUPI, OkCard, BackFromSeats, KillApp
<1>7. CASE \/ \E i \in Seats : ToggleSeat(d, i)
           \/ PressPay(d) \/ ChooseUPI(d) \/ ChooseCard(d) \/ BackFromDialog(d)
           \/ BackFromPayment(d) \/ Back(d)
  <2>1. UNCHANGED <<show, finallist, fetches, bloc, outdated>>
    BY <1>7 DEF ToggleSeat, PressPay, ChooseUPI, ChooseCard, BackFromDialog,
       BackFromPayment, Back
  <2>2. Paying(d)' => Paying(d) /\ UNCHANGED seatIndex
    BY <1>7 DEF ToggleSeat, PressPay, ChooseUPI, ChooseCard, BackFromDialog,
       BackFromPayment, Back, Paying, TypeOK
  <2>3. QED BY <1>5, <2>1, <2>2
<1>8. QED BY <1>1, <1>2, <1>3, <1>6, <1>7 DEF UserStep
--------------------------------------------------------------------------
(* The whole step.                                                         *)

\* A step of device d touches no variable of another device.
LEMMA Frame ==
  ASSUME TypeOK, NEW d \in Devices, NEW e \in Devices, e # d,
         \/ UserStep(d)
         \/ \E k \in Slots : FetchStep(d, k)
         \/ \E n \in PayNums : InsertStep(d, n)
         \/ SendWrite(d)
  PROVE  /\ writes'[e] = writes[e] /\ paid'[e] = paid[e]
         /\ show'[e] = show[e] /\ screen'[e] = screen[e]
         /\ finallist'[e] = finallist[e] /\ seatIndex'[e] = seatIndex[e]
         /\ fetches'[e] = fetches[e] /\ bloc'[e] = bloc[e]
         /\ ~ SendWrite(d) => UNCHANGED sold
<1> USE DEF serverVars, seatVars, TypeOK
<1>1. CASE UserStep(d)
  <2>1. CASE \E s \in Shows : OpenShow(d, s)
    BY <2>1 DEF OpenShow, FetchSeats
  <2>2. CASE Refresh(d) \/ ProceedToPay(d)
    BY <2>2 DEF Refresh, ProceedToPay, ProceedWith, FetchSeats
  <2>3. CASE PayUPI(d) \/ PayCard(d)
    BY <2>3 DEF PayUPI, PayCard, InsertData
  <2>4. CASE OkUPI(d) \/ OkCard(d) \/ BackFromSeats(d) \/ KillApp(d)
    BY <2>4 DEF OkUPI, OkCard, BackFromSeats, KillApp, CloseSeatScreen
  <2>5. CASE \/ \E i \in Seats : ToggleSeat(d, i)
             \/ PressPay(d) \/ ChooseUPI(d) \/ ChooseCard(d)
             \/ BackFromDialog(d) \/ BackFromPayment(d) \/ Back(d)
    BY <2>5 DEF ToggleSeat, PressPay, ChooseUPI, ChooseCard, BackFromDialog,
       BackFromPayment, Back
  <2>6. QED BY <1>1, <2>1, <2>2, <2>3, <2>4, <2>5 DEF UserStep
<1>2. CASE \E k \in Slots : FetchStep(d, k)
  BY <1>2 DEF FetchStep, ServeFetch, EmitLoaded, EmitError
<1>3. CASE \E n \in PayNums : InsertStep(d, n)
  BY <1>3 DEF InsertStep, ServeInsert, InsertTickets, InsertThrows
<1>4. CASE SendWrite(d)
  BY <1>4 DEF SendWrite
<1>5. QED BY <1>1, <1>2, <1>3, <1>4

\* Every step keeps the ledger of every device: the write of one device adds to
\* the shows others do not sell at the moment, and marks the others.
LEMMA LedgerNext ==
  ASSUME TypeOK, BookingInv, LedgerInv, Next, TypeOK'
  PROVE  LedgerInv'
<1>0. PICK d \in Devices :
        \/ UserStep(d)
        \/ \E k \in Slots : FetchStep(d, k)
        \/ \E n \in PayNums : InsertStep(d, n)
        \/ SendWrite(d)
  BY DEF Next
<1>a. DeviceLedger(d) /\ RouteInv
  BY DEF LedgerInv, BookingInv
<1>1. DeviceLedger(d)'
  <2>1. CASE UserStep(d)
    BY <1>a, <2>1, LedgerUser, LedgerPay
  <2>2. ASSUME NEW k \in Slots, FetchStep(d, k) PROVE DeviceLedger(d)'
    BY <1>a, <2>2, LedgerFetch
  <2>3. ASSUME NEW n \in PayNums, InsertStep(d, n) PROVE DeviceLedger(d)'
    <3>1. CASE InsertTickets(d, n)
      BY <1>a, <3>1, LedgerInsert
    <3>2. CASE ServeInsert(d, n) \/ InsertThrows(d, n)
      BY <1>a, <3>2 DEF ServeInsert, InsertThrows, serverVars, seatVars,
         DeviceLedger, QueueGrows, PaymentKept, MapCurrent, Covers,
         ListHasSelection, PendingSeats, Paying
    <3>3. QED BY <2>3, <3>1, <3>2 DEF InsertStep
  <2>4. CASE SendWrite(d)
    BY <1>a, <2>4, LedgerSend
  <2>5. QED BY <1>0, <2>1, <2>2, <2>3, <2>4
<1>2. ASSUME NEW e \in Devices, e # d PROVE DeviceLedger(e)'
  <2>1. /\ writes'[e] = writes[e] /\ paid'[e] = paid[e]
        /\ show'[e] = show[e] /\ screen'[e] = screen[e]
        /\ finallist'[e] = finallist[e] /\ seatIndex'[e] = seatIndex[e]
        /\ fetches'[e] = fetches[e] /\ bloc'[e] = bloc[e]
        /\ ~ SendWrite(d) => UNCHANGED sold
    BY <1>0, <1>2, Frame
  <2>2. outdated \subseteq outdated'
    BY <1>0, OutdatedGrows
  <2>3. \A s \in Shows \ outdated' : /\ sold[s] \subseteq sold'[s]
                                     /\ Selling(e, s) => sold'[s] = sold[s]
    BY <1>a, <1>2, <2>1, <2>2, SendGrows
  <2>4. DeviceLedger(e)
    BY DEF LedgerInv
  <2>5. QED BY <2>1, <2>2, <2>3, <2>4, OtherDevice
<1>3. QED BY <1>1, <1>2 DEF LedgerInv

\* So does a step that changes nothing.
LEMMA LedgerStutter ==
  ASSUME LedgerInv, UNCHANGED vars
  PROVE  LedgerInv'
BY DEF vars, LedgerInv, DeviceLedger, QueueGrows, PaymentKept, MapCurrent,
       ListHasSelection, Covers, PendingSeats, Paying

\* The inductive invariant of the ledger: on any number of phones, whatever
\* their users do, every list of sold seats that is queued, under way or on the
\* screen contains the sales before it, until the lists of the show get out of
\* date (seats_bloc.dart 12-70, selectSeat.dart 320-325, upi.dart 44-59).
THEOREM LedgerInvariant == Spec => []LedgerInv
<1>1. Init => LedgerInv
  BY ShowAssumption DEF Init, LedgerInv, DeviceLedger, QueueGrows,
     PaymentKept, MapCurrent, ListHasSelection, PendingSeats, Paying
<1>2. BookingInv /\ BookingInv' /\ LedgerInv
        /\ [Next]_vars => LedgerInv'
  BY LedgerNext, LedgerStutter DEF BookingInv
<1>3. QED BY <1>1, <1>2, BookingInvariant, PTL DEF Spec

\* A payment whose write has left the queue stays in the stored list, unless
\* phones sold the show at the same time or one took up an answer to an earlier
\* question (upi.dart 48-57).
THEOREM SalesAreKept == Spec => []NoSaleLost
<1>1. LedgerInv => NoSaleLost
  BY DEF LedgerInv, DeviceLedger, PaymentKept, NoSaleLost, SeatWriteQueued,
         PendingSeats
<1>2. QED BY <1>1, LedgerInvariant, PTL

\* No write takes a seat out of the stored list of a show whose lists are not
\* out of date (upi.dart 48-57).
THEOREM SoldOnlyGrows == Spec => SoldNeverShrinks
<1>1. TypeOK /\ LedgerInv /\ [Next]_vars =>
        [\A s \in Shows : sold[s] \subseteq sold'[s] \/ s \in outdated]_vars
  <2> SUFFICES ASSUME TypeOK, LedgerInv, Next
               PROVE  \A s \in Shows : sold[s] \subseteq sold'[s] \/ s \in outdated
    BY DEF vars
  <2>0. PICK d \in Devices :
          \/ UserStep(d)
          \/ \E k \in Slots : FetchStep(d, k)
          \/ \E n \in PayNums : InsertStep(d, n)
          \/ SendWrite(d)
    BY DEF Next
  <2>1. CASE SendWrite(d)
    BY <2>1, SendGrows DEF LedgerInv
  <2>2. CASE ~ SendWrite(d)
    BY <2>0, <2>2 DEF UserStep, OpenShow, Refresh, ToggleSeat, ProceedToPay,
       ProceedWith, PressPay, ChooseUPI, ChooseCard, PayUPI, PayCard, OkUPI,
       OkCard, BackFromDialog, BackFromPayment, Back, BackFromSeats, KillApp,
       FetchStep, ServeFetch, EmitLoaded, EmitError, InsertStep, ServeInsert,
       InsertTickets, InsertThrows, serverVars
  <2>3. QED BY <2>1, <2>2
<1>2. QED BY <1>1, LedgerInvariant, TypeCorrect, PTL DEF Spec, SoldNeverShrinks

--------------------------------------------------------------------------
(* The booking path implements the box office of SeatLedger.  A payment    *)
(* confirms a sale, the write of its seats enters it, a step that takes up *)
(* an old answer disputes the show, and every other step is none of the    *)
(* box office's business.                                                  *)

\* A step pays, queues a ticket, sends a write, or leaves payments, queues and
\* sold seats alone and marks at most one show.
LEMMA StepKinds ==
  ASSUME TypeOK, RouteInv, NEW d \in Devices,
         \/ UserStep(d)
         \/ \E k \in Slots : FetchStep(d, k)
         \/ \E n \in PayNums : InsertStep(d, n)
         \/ SendWrite(d)
  PROVE  \/ PayUPI(d) \/ PayCard(d)
         \/ \E n \in PayNums : InsertTickets(d, n)
         \/ SendWrite(d)
         \/ /\ UNCHANGED <<sold, writes, paid>>
            /\ \/ UNCHANGED outdated
               \/ \E s \in Shows : outdated' = outdated \cup {s}
<1> USE DEF serverVars
<1>1. CASE UserStep(d)
  <2>1. CASE \E s \in Shows : OpenShow(d, s)
    BY <2>1 DEF OpenShow, Marked
  <2>2. CASE ProceedToPay(d)
    <3>1. show[d] \in Shows
      BY <2>2 DEF ProceedToPay, ProceedWith, TypeOK, RouteInv
    <3>2. QED BY <2>2, <3>1 DEF ProceedToPay, ProceedWith, Marked
  <2>3. CASE \/ Refresh(d) \/ \E i \in Seats : ToggleSeat(d, i)
             \/ PressPay(d) \/ ChooseUPI(d) \/ ChooseCard(d) \/ OkUPI(d)
             \/ OkCard(d) \/ BackFromDialog(d) \/ BackFromPayment(d) \/ Back(d)
             \/ BackFromSeats(d) \/ KillApp(d)
    BY <2>3 DEF Refresh, ToggleSeat, PressPay, ChooseUPI, ChooseCard, OkUPI,
       OkCard, BackFromDialog, BackFromPayment, Back, BackFromSeats, KillApp
  <2>4. QED BY <1>1, <2>1, <2>2, <2>3 DEF UserStep
<1>2. CASE \E k \in Slots : FetchStep(d, k)
  BY <1>2 DEF FetchStep, ServeFetch, EmitLoaded, EmitError
<1>3. CASE \E n \in PayNums : InsertStep(d, n)
  BY <1>3 DEF InsertStep, ServeInsert, InsertThrows
<1>4. QED BY <1>1, <1>2, <1>3

\* Pay queues a seat write with the number of the new payment.
LEMMA PayQueues ==
  ASSUME TypeOK, RouteInv, NEW d \in Devices, PayUPI(d) \/ PayCard(d)
  PROVE  LET n == Len(paid[d]) + 1
             m == Len(writes[d]) + 1
         IN /\ UNCHANGED <<sold, outdated>>
            /\ show[d] \in Shows
            /\ DOMAIN paid[d] = 1 .. Len(paid[d])
            /\ Len(paid[d]) \in Nat
            /\ n \in PayNums
            /\ paid' = [paid EXCEPT ![d] = Append(@,
                          [show |-> show[d], seats |-> seatIndex[d],
                           amount |-> order[d].amount])]
            /\ DOMAIN writes'[d] = DOMAIN writes[d] \cup {m}
            /\ \A i \in DOMAIN writes[d] : i \in Nat /\ i < m
            /\ \A i \in DOMAIN writes[d] : writes'[d][i] = writes[d][i]
            /\ writes'[d][m].doc = "bookseats"
            /\ writes'[d][m].pay = n
            /\ writes'[d][m].show = show[d]
            /\ writes'[d][m].seats = finallist[d]
            /\ \A e \in Devices \ {d} : writes'[e] = writes[e]
<1> DEFINE n == Len(paid[d]) + 1
           m == Len(writes[d]) + 1
           w == [doc |-> "bookseats", pay |-> n, show |-> show[d],
                 seats |-> finallist[d]]
<1>1. InsertData(d) /\ UNCHANGED <<sold, outdated>> /\ show[d] # NoShow
  BY DEF PayUPI, PayCard, serverVars, RouteInv
<1>2. show[d] \in Shows
  BY <1>1 DEF TypeOK
<1>3. /\ paid[d] \in Seq(Payment)
      /\ DOMAIN paid[d] = 1 .. Len(paid[d])
      /\ Len(paid[d]) \in Nat
  BY DEF TypeOK
<1>4. w \in SeatWrite \cup TicketWrite
  BY <1>2, <1>3 DEF TypeOK, SeatWrite
<1>5. writes' = [writes EXCEPT ![d] = Append(@, w)]
  BY <1>1 DEF InsertData
<1>6. w.doc = "bookseats" /\ w.pay = n /\ w.show = show[d] /\ w.seats = finallist[d]
  OBVIOUS
<1>7. /\ n \in PayNums
      /\ paid' = [paid EXCEPT ![d] = Append(@,
                    [show |-> show[d], seats |-> seatIndex[d],
                     amount |-> order[d].amount])]
  BY <1>1 DEF InsertData
<1>8. \A i \in DOMAIN writes[d] : i \in Nat
  BY DEF TypeOK
<1> HIDE DEF w
<1>9. QED BY <1>1, <1>2, <1>3, <1>4, <1>5, <1>6, <1>7, <1>8, QueueAppend

\* A ticket is queued behind the seat writes and changes none of them.
LEMMA InsertQueues ==
  ASSUME TypeOK, NEW d \in Devices, NEW n \in PayNums, InsertTickets(d, n)
  PROVE  LET m == Len(writes[d]) + 1
         IN /\ UNCHANGED <<sold, paid, outdated>>
            /\ DOMAIN writes'[d] = DOMAIN writes[d] \cup {m}
            /\ \A i \in DOMAIN writes[d] : writes'[d][i] = writes[d][i]
            /\ writes'[d][m].doc = "users"
            /\ \A e \in Devices \ {d} : writes'[e] = writes[e]
<1> DEFINE t == [dev |-> d, pay |-> n, show |-> show[d], seats |-> seatIndex[d]]
           w == [doc |-> "users", list |-> <<t>> \o inserts[d][n].snap]
<1>1. /\ writes' = [writes EXCEPT ![d] = Append(@, w)]
      /\ UNCHANGED <<sold, paid, outdated>>
  BY DEF InsertTickets, serverVars
<1>2. w.doc = "users"
  OBVIOUS
<1> HIDE DEF w
<1>3. /\ writes[d] \in Seq(SeatWrite \cup TicketWrite)
      /\ writes'[d] = Append(writes[d], w)
      /\ \A e \in Devices \ {d} : writes'[e] = writes[e]
  BY <1>1 DEF TypeOK
<1>4. QED BY <1>1, <1>2, <1>3
--------------------------------------------------------------------------
(* The order of the queue.                                                 *)

\* A payment is the newest, and so is its write, which has its seats
\* (selectSeat.dart 320-325, upi.dart 44-61).
LEMMA OrderedPay ==
  ASSUME TypeOK, RouteInv, NEW d \in Devices, QueueOrdered(d),
         ListHasSelection(d), PayUPI(d) \/ PayCard(d)
  PROVE  QueueOrdered(d)'
<1> DEFINE n == Len(paid[d]) + 1
           m == Len(writes[d]) + 1
<1>1. InsertData(d)
  BY DEF PayUPI, PayCard
<1>2. /\ DOMAIN paid'[d] = DOMAIN paid[d] \cup {n}
      /\ \A k \in DOMAIN paid[d] : paid'[d][k] = paid[d][k]
      /\ paid'[d][n] = [show |-> show[d], seats |-> seatIndex[d],
                       amount |-> order[d].amount]
  BY <1>1, PaidGrows
<1>a. /\ paid'[d][n].show = show[d]
      /\ paid'[d][n].seats \subseteq finallist[d]
  BY <1>2 DEF ListHasSelection, Paying, PayUPI, PayCard, Screens
<1>3. \A k \in DOMAIN paid[d] : k < n
  <2>1. DOMAIN paid[d] = 1 .. Len(paid[d]) /\ Len(paid[d]) \in Nat
    BY DEF TypeOK
  <2>2. QED BY <2>1
<1>4. /\ DOMAIN writes'[d] = DOMAIN writes[d] \cup {m}
      /\ \A i \in DOMAIN writes[d] : i \in Nat /\ i < m
      /\ \A i \in DOMAIN writes[d] : writes'[d][i] = writes[d][i]
      /\ writes'[d][m].doc = "bookseats"
      /\ writes'[d][m].pay = n
      /\ writes'[d][m].show = show[d]
      /\ writes'[d][m].seats = finallist[d]
  BY PayQueues
<1>5. m \in Nat
  BY DEF TypeOK
<1> HIDE DEF n, m
<1> SUFFICES ASSUME NEW i \in DOMAIN writes'[d], writes'[d][i].doc = "bookseats"
             PROVE  /\ writes'[d][i].pay \in DOMAIN paid'[d]
                    /\ writes'[d][i].show = paid'[d][writes'[d][i].pay].show
                    /\ paid'[d][writes'[d][i].pay].seats \subseteq writes'[d][i].seats
                    /\ \A j \in DOMAIN writes'[d] :
                         (i < j /\ writes'[d][j].doc = "bookseats") =>
                            writes'[d][i].pay < writes'[d][j].pay
  BY DEF QueueOrdered
<1>6. CASE i \in DOMAIN writes[d]
  <2>1. /\ writes[d][i].pay \in DOMAIN paid[d]
        /\ writes[d][i].show = paid[d][writes[d][i].pay].show
        /\ paid[d][writes[d][i].pay].seats \subseteq writes[d][i].seats
        /\ \A j \in DOMAIN writes[d] :
             (i < j /\ writes[d][j].doc = "bookseats") =>
                writes[d][i].pay < writes[d][j].pay
    BY <1>4, <1>6 DEF QueueOrdered
  <2>2. QED BY <1>2, <1>3, <1>4, <1>6, <2>1
<1>7. CASE i = m
  <2>1. \A j \in DOMAIN writes'[d] : ~ (i < j)
    BY <1>4, <1>5, <1>7
  <2>2. QED BY <1>2, <1>a, <1>4, <1>7, <2>1
<1>8. QED BY <1>4, <1>6, <1>7

\* Sending takes the oldest write away.
LEMMA OrderedSend ==
  ASSUME TypeOK, NEW d \in Devices, QueueOrdered(d), SendWrite(d)
  PROVE  QueueOrdered(d)'
<1>1. /\ UNCHANGED paid
      /\ \A i \in DOMAIN writes'[d] : /\ i + 1 \in DOMAIN writes[d]
                                      /\ writes'[d][i] = writes[d][i + 1]
  BY QueueTail DEF SendWrite
<1>2. \A i \in DOMAIN writes'[d] : i \in Nat
  <2>1. writes'[d] = Tail(writes[d]) /\ writes[d] # <<>>
        /\ writes[d] \in Seq(SeatWrite \cup TicketWrite)
    BY DEF SendWrite, TypeOK
  <2>2. writes'[d] \in Seq(SeatWrite \cup TicketWrite)
    BY <2>1
  <2>3. QED BY <2>2
<1>3. \A i, j \in DOMAIN writes'[d] : i < j => i + 1 < j + 1
  BY <1>2
<1>4. QED BY <1>1, <1>3 DEF QueueOrdered

\* Every step keeps the order of every queue.
LEMMA QueueNext ==
  ASSUME TypeOK, RouteInv, LedgerInv, QueueInv, Next
  PROVE  QueueInv'
<1>0. PICK d \in Devices :
        \/ UserStep(d)
        \/ \E k \in Slots : FetchStep(d, k)
        \/ \E n \in PayNums : InsertStep(d, n)
        \/ SendWrite(d)
  BY DEF Next
<1>1. QueueOrdered(d) /\ ListHasSelection(d)
  BY DEF QueueInv, LedgerInv, DeviceLedger
<1>2. QueueOrdered(d)'
  <2>1. CASE PayUPI(d) \/ PayCard(d)
    BY <1>1, <2>1, OrderedPay
  <2>2. ASSUME NEW n \in PayNums, InsertTickets(d, n) PROVE QueueOrdered(d)'
    <3>1. /\ UNCHANGED paid
          /\ \A i \in DOMAIN writes'[d] :
               writes'[d][i].doc = "bookseats" =>
                 i \in DOMAIN writes[d] /\ writes'[d][i] = writes[d][i]
      BY <2>2, InsertQueues
    <3>2. QED BY <1>1, <3>1 DEF QueueOrdered
  <2>3. CASE SendWrite(d)
    BY <1>1, <2>3, OrderedSend
  <2>4. CASE UNCHANGED <<sold, writes, paid>>
    BY <1>1, <2>4 DEF QueueOrdered
  <2>5. QED BY <1>0, <2>1, <2>2, <2>3, <2>4, StepKinds
<1>3. ASSUME NEW e \in Devices, e # d PROVE QueueOrdered(e)'
  <2>1. writes'[e] = writes[e] /\ paid'[e] = paid[e]
    BY <1>0, <1>3, Frame
  <2>2. QED BY <2>1 DEF QueueInv, QueueOrdered
<1>4. QED BY <1>2, <1>3 DEF QueueInv
--------------------------------------------------------------------------
(* The steps of the box office.                                            *)

\* What is due, as the mapping has it.
DueMap == [d \in Devices |-> Due(d)]

\* A payment confirms a sale at the price of its seats (upi.dart 44-61).
LEMMA PayConfirms ==
  ASSUME TypeOK, BookingInv, QueueInv, NEW d \in Devices, PayUPI(d) \/ PayCard(d)
  PROVE  Ledger!Confirm(d)
<1> DEFINE n == Len(paid[d]) + 1
           m == Len(writes[d]) + 1
           X == seatIndex[d]
           p == [show |-> show[d], seats |-> X, amount |-> order[d].amount]
<1>0. RouteInv /\ SelectionInv /\ OrderInv /\ QueueOrdered(d)
  BY DEF BookingInv, QueueInv
<1>1. InsertData(d) /\ Paying(d) /\ screen[d] # "final"
  BY DEF PayUPI, PayCard, Paying, Screens
<1>2. X \in SUBSET Seats /\ Cardinality(X) \in 1 .. MaxSeats
  <2>1. X \in SUBSET Seats /\ IsFiniteSet(X) /\ Cardinality(X) \in Nat
    BY SeatCount DEF TypeOK
  <2>2. Cardinality(X) # 0
    BY <1>0, <1>1, <2>1, FS_EmptySet DEF SelectionInv
  <2>3. Cardinality(X) <= MaxSeats
    BY <1>0 DEF SelectionInv
  <2>4. QED BY <2>1, <2>2, <2>3, BoundAssumption
<1>3. order[d].amount = TotalAmount(Cardinality(X))
  BY <1>0, <1>1 DEF OrderInv
<1>4. /\ UNCHANGED <<sold, outdated>>
      /\ show[d] \in Shows
      /\ paid' = [paid EXCEPT ![d] = Append(@, p)]
      /\ DOMAIN paid[d] = 1 .. Len(paid[d])
      /\ Len(paid[d]) \in Nat
      /\ n \in PayNums
  BY <1>0, PayQueues
<1>5. Len(paid[d]) < MaxPays
  BY <1>4, BoundAssumption DEF PayNums
<1>6. Due(d)' = Due(d) \cup {n}
  <2>1. DOMAIN paid'[d] = DOMAIN paid[d] \cup {n} /\ n \notin DOMAIN paid[d]
    BY <1>1, PaidGrows
  <2>2. /\ DOMAIN writes'[d] = DOMAIN writes[d] \cup {m}
        /\ \A i \in DOMAIN writes[d] : writes'[d][i] = writes[d][i]
        /\ writes'[d][m].doc = "bookseats"
        /\ writes'[d][m].pay = n
    BY <1>0, PayQueues
  <2> HIDE DEF n, m
  <2>3. \A k : SeatWriteQueued(d, k)' <=> SeatWriteQueued(d, k) \/ k = n
    BY <2>2 DEF SeatWriteQueued
  <2>4. SeatWriteQueued(d, n) => n \in DOMAIN paid[d]
    BY <1>0 DEF SeatWriteQueued, QueueOrdered
  <2>5. QED BY <2>1, <2>3, <2>4 DEF Due
<1>7. \A e \in Devices \ {d} : Due(e)' = Due(e)
  <2>1. \A e \in Devices \ {d} : writes'[e] = writes[e] /\ paid'[e] = paid[e]
    BY <1>0, <1>1, PayQueues, PaidGrows
  <2>2. QED BY <2>1 DEF Due, SeatWriteQueued
<1>8. DueMap' = [DueMap EXCEPT ![d] = @ \cup {n}]
  BY <1>6, <1>7 DEF DueMap
<1>9. X \in DOMAIN PriceOf /\ PriceOf[X] = order[d].amount
  BY <1>2, <1>3 DEF PriceOf
<1> HIDE DEF n, X
<1>10. p = [show |-> show[d], seats |-> X, amount |-> PriceOf[X]]
  BY <1>9
<1>11. DueMap' = [DueMap EXCEPT ![d] = @ \cup {Len(paid[d]) + 1}]
  BY <1>8 DEF n
<1>12. QED
  BY <1>4, <1>5, <1>9, <1>10, <1>11 DEF Ledger!Confirm, DueMap

\* A seat write that reaches the server enters the oldest sale that is due, with
\* all its seats, and takes none away (upi.dart 48-57).
LEMMA SendEnters ==
  ASSUME TypeOK, LedgerInv, QueueInv, NEW d \in Devices, SendWrite(d),
         Head(writes[d]).doc = "bookseats"
  PROVE  \E n \in Due(d) : Ledger!Enter(d, n)
<1> DEFINE w == writes[d][1]
           n == w.pay
           s == w.show
<1>0. DeviceLedger(d) /\ QueueOrdered(d)
  BY DEF LedgerInv, QueueInv
<1>1. 1 \in DOMAIN writes[d] /\ Head(writes[d]) = w /\ w.doc = "bookseats"
  BY QueueTail
<1>2. w \in SeatWrite
  BY <1>1 DEF TypeOK, TicketWrite
<1>3. /\ n \in DOMAIN paid[d]
      /\ s = paid[d][n].show
      /\ paid[d][n].seats \subseteq w.seats
      /\ \A j \in DOMAIN writes[d] :
           (1 < j /\ writes[d][j].doc = "bookseats") => n < writes[d][j].pay
  BY <1>0, <1>1 DEF QueueOrdered
<1>4. \A i \in DOMAIN writes[d] : i \in Nat /\ i >= 1
  BY DEF TypeOK
<1>5. n \in Nat /\ s \in Shows /\ w.seats \in SUBSET Seats
  BY <1>2 DEF SeatWrite
<1>6. /\ sold' = [sold EXCEPT ![s] = w.seats]
      /\ outdated' \in {outdated, outdated \cup {s}}
      /\ UNCHANGED paid
      /\ \A e \in Devices \ {d} : writes'[e] = writes[e]
  BY <1>1, QueueTail DEF SendWrite, Marked
<1>7. \A i \in DOMAIN writes[d] :
        writes[d][i].doc = "bookseats" => i = 1 \/ n < writes[d][i].pay
  BY <1>3, <1>4
<1>8. n \in Due(d) /\ \A k \in Due(d) : n <= k
  <2>1. n \in Due(d)
    BY <1>1, <1>3 DEF Due, SeatWriteQueued
  <2>2. ASSUME NEW k \in Due(d) PROVE n <= k
    <3>1. PICK i \in DOMAIN writes[d] : /\ writes[d][i].doc = "bookseats"
                                        /\ writes[d][i].pay = k
      BY <2>2 DEF Due, SeatWriteQueued
    <3>2. k \in Nat
      BY <2>2 DEF Due, TypeOK
    <3>3. QED BY <1>5, <1>7, <3>1, <3>2
  <2>3. QED BY <2>1, <2>2
<1>9. s \notin outdated => sold[s] \subseteq w.seats
  <2>1. 1 \in PendingSeats(d, s)
    BY <1>1 DEF PendingSeats
  <2>2. QED BY <1>0, <1>5, <2>1 DEF DeviceLedger, QueueGrows
<1>10. Due(d)' = Due(d) \ {n}
  <2>1. /\ \A i \in DOMAIN writes'[d] : /\ i + 1 \in DOMAIN writes[d]
                                        /\ i + 1 # 1
                                        /\ writes'[d][i] = writes[d][i + 1]
        /\ \A i \in DOMAIN writes[d] :
             i # 1 => /\ i - 1 \in DOMAIN writes'[d]
                      /\ writes'[d][i - 1] = writes[d][i]
    <3>1. writes'[d] = Tail(writes[d]) /\ writes[d] # <<>>
          /\ writes[d] \in Seq(SeatWrite \cup TicketWrite)
      BY DEF SendWrite, TypeOK
    <3>2. writes'[d] \in Seq(SeatWrite \cup TicketWrite)
      BY <3>1
    <3>3. \A i \in DOMAIN writes'[d] : i + 1 # 1
      BY <3>2
    <3>4. QED BY <3>3, QueueTail
  <2>2. PICK m : m = n
    OBVIOUS
  <2> HIDE DEF w, n, s
  <2>3. ~ SeatWriteQueued(d, m)'
    <3>1. ASSUME NEW i \in DOMAIN writes'[d], writes'[d][i].doc = "bookseats"
          PROVE  m < writes'[d][i].pay
      <4>1. /\ i + 1 \in DOMAIN writes[d]
            /\ i + 1 # 1
            /\ writes[d][i + 1] = writes'[d][i]
        BY <2>1
      <4>2. QED BY <1>7, <2>2, <3>1, <4>1
    <3>2. m \in Nat
      BY <1>5, <2>2
    <3>3. QED BY <3>1, <3>2 DEF SeatWriteQueued
  <2>4. \A k : k # m => (SeatWriteQueued(d, k)' <=> SeatWriteQueued(d, k))
    <3>1. ASSUME NEW k, k # m, SeatWriteQueued(d, k)
          PROVE  SeatWriteQueued(d, k)'
      <4>1. PICK i \in DOMAIN writes[d] : /\ writes[d][i].doc = "bookseats"
                                          /\ writes[d][i].pay = k
        BY <3>1 DEF SeatWriteQueued
      <4>2. i # 1
        BY <2>2, <3>1, <4>1 DEF n, w
      <4>3. QED BY <2>1, <4>1, <4>2 DEF SeatWriteQueued
    <3>2. ASSUME NEW k, SeatWriteQueued(d, k)'
          PROVE  SeatWriteQueued(d, k)
      BY <2>1, <3>2 DEF SeatWriteQueued
    <3>3. QED BY <3>1, <3>2
  <2>5. Due(d)' = Due(d) \ {m}
    BY <1>6, <2>3, <2>4 DEF Due
  <2>6. QED BY <2>2, <2>5
<1>11. DueMap' = [DueMap EXCEPT ![d] = @ \ {n}]
  <2>1. \A e \in Devices \ {d} : Due(e)' = Due(e)
    BY <1>6 DEF Due, SeatWriteQueued
  <2>2. QED BY <1>10, <2>1 DEF DueMap
<1> HIDE DEF w, n, s
<1>12. DueMap[d] = Due(d)
  BY DEF DueMap
<1>13. Ledger!Enter(d, n)
  BY <1>3, <1>5, <1>6, <1>8, <1>9, <1>11, <1>12 DEF Ledger!Enter, DueMap
<1>14. QED BY <1>8, <1>13

\* The other steps do not concern the box office.
LEMMA OthersStutter ==
  ASSUME TypeOK, NEW d \in Devices,
         \/ \E n \in PayNums : InsertTickets(d, n)
         \/ SendWrite(d) /\ Head(writes[d]).doc # "bookseats"
         \/ UNCHANGED <<sold, writes, paid, outdated>>
  PROVE  UNCHANGED <<sold, paid, outdated, DueMap>>
<1>1. ASSUME NEW n \in PayNums, InsertTickets(d, n)
      PROVE  UNCHANGED <<sold, paid, outdated, DueMap>>
  <2>1. /\ UNCHANGED <<sold, paid, outdated>>
        /\ DOMAIN writes'[d] = DOMAIN writes[d] \cup {Len(writes[d]) + 1}
        /\ \A i \in DOMAIN writes[d] : writes'[d][i] = writes[d][i]
        /\ writes'[d][Len(writes[d]) + 1].doc = "users"
        /\ \A e \in Devices \ {d} : writes'[e] = writes[e]
    BY <1>1, InsertQueues
  <2>2. \A k : SeatWriteQueued(d, k)' <=> SeatWriteQueued(d, k)
    BY <2>1 DEF SeatWriteQueued
  <2>3. \A e \in Devices : Due(e)' = Due(e)
    BY <2>1, <2>2 DEF Due, SeatWriteQueued
  <2>4. QED BY <2>1, <2>3 DEF DueMap
<1>2. CASE SendWrite(d) /\ Head(writes[d]).doc # "bookseats"
  <2>1. UNCHANGED <<sold, paid, outdated>>
    BY <1>2 DEF SendWrite
  <2>2. /\ \A i \in DOMAIN writes'[d] : /\ i + 1 \in DOMAIN writes[d]
                                        /\ writes'[d][i] = writes[d][i + 1]
        /\ \A i \in DOMAIN writes[d] :
             i # 1 => /\ i - 1 \in DOMAIN writes'[d]
                      /\ writes'[d][i - 1] = writes[d][i]
        /\ writes[d][1].doc # "bookseats"
        /\ \A e \in Devices \ {d} : writes'[e] = writes[e]
    BY <1>2, QueueTail
  <2>3. \A k : SeatWriteQueued(d, k)' <=> SeatWriteQueued(d, k)
    BY <2>2 DEF SeatWriteQueued
  <2>4. \A e \in Devices : Due(e)' = Due(e)
    BY <2>1, <2>2, <2>3 DEF Due, SeatWriteQueued
  <2>5. QED BY <2>1, <2>4 DEF DueMap
<1>3. CASE UNCHANGED <<sold, writes, paid, outdated>>
  BY <1>3 DEF DueMap, Due, SeatWriteQueued
<1>4. QED BY <1>1, <1>2, <1>3
--------------------------------------------------------------------------
\* Every step of the booking path is a step of the box office, or none.
LEMMA LedgerStep ==
  ASSUME TypeOK, BookingInv, LedgerInv, QueueInv, Next
  PROVE  Ledger!Next \/ UNCHANGED Ledger!ledgerVars
<1>0. PICK d \in Devices :
        \/ UserStep(d)
        \/ \E k \in Slots : FetchStep(d, k)
        \/ \E n \in PayNums : InsertStep(d, n)
        \/ SendWrite(d)
  BY DEF Next
<1>1. CASE PayUPI(d) \/ PayCard(d)
  <2>1. Ledger!Confirm(d)
    BY <1>1, PayConfirms
  <2>2. QED BY <2>1 DEF Ledger!Next
<1>2. CASE SendWrite(d) /\ Head(writes[d]).doc = "bookseats"
  <2>1. \E n \in Due(d) : Ledger!Enter(d, n)
    BY <1>2, SendEnters
  <2>2. [e \in Devices |-> Due(e)][d] = Due(d)
    OBVIOUS
  <2>3. QED BY <2>1, <2>2 DEF Ledger!Next
<1>3. CASE \/ \E n \in PayNums : InsertTickets(d, n)
           \/ SendWrite(d) /\ Head(writes[d]).doc # "bookseats"
           \/ UNCHANGED <<sold, writes, paid, outdated>>
  BY <1>3, OthersStutter DEF Ledger!ledgerVars, DueMap
<1>4. ASSUME UNCHANGED <<sold, writes, paid>>,
             NEW s \in Shows, outdated' = outdated \cup {s}
      PROVE  Ledger!Next
  <2>1. UNCHANGED DueMap
    BY <1>4 DEF DueMap, Due, SeatWriteQueued
  <2>2. Ledger!Dispute(s)
    BY <1>4, <2>1 DEF Ledger!Dispute, DueMap
  <2>3. QED BY <2>2 DEF Ledger!Next
<1>5. QED BY <1>0, <1>1, <1>2, <1>3, <1>4, StepKinds DEF BookingInv

\* The invariant of the queues: seat writes wait in the order of the payments
\* they were made for, each for the show and with the seats of its payment, on
\* any number of devices and through kills (selectSeat.dart 320-325,
\* upi.dart 44-61).
THEOREM QueueInvariant == Spec => []QueueInv
<1>1. Init => QueueInv
  BY DEF Init, QueueInv, QueueOrdered
<1>2. BookingInv /\ LedgerInv /\ QueueInv /\ [Next]_vars => QueueInv'
  <2>1. QueueInv /\ UNCHANGED vars => QueueInv'
    BY DEF vars, QueueInv, QueueOrdered
  <2>2. QED BY <2>1, QueueNext DEF BookingInv
<1>3. QED BY <1>1, <1>2, BookingInvariant, LedgerInvariant, PTL DEF Spec

\* The booking path is a box office, for any number of phones and whatever their
\* users do: what was confirmed is entered, once, in order, with its seats and
\* at their price, and an entry takes away seats only of a show whose lists are
\* out of date (selectSeat.dart 320-348, upi.dart 44-61).
THEOREM BookingIsBoxOffice == Spec => ImplementsLedger
<1>1. Init => Ledger!Init
  BY DEF Init, Ledger!Init, Due
<1>2. BookingInv /\ LedgerInv /\ QueueInv /\ [Next]_vars =>
        [Ledger!Next]_(Ledger!ledgerVars)
  <2>1. UNCHANGED vars => UNCHANGED Ledger!ledgerVars
    BY DEF vars, Ledger!ledgerVars, Due, SeatWriteQueued
  <2>2. QED BY <2>1, LedgerStep DEF BookingInv
<1>3. QED
  BY <1>1, <1>2, BookingInvariant, LedgerInvariant, QueueInvariant, PTL
  DEF Spec, ImplementsLedger, Ledger!Spec
==========================================================================
