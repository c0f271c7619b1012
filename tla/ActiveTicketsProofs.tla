----------------------- MODULE ActiveTicketsProofs -----------------------
(***************************************************************************)
(* What the list of active tickets can be relied on for, in any calendar   *)
(* and for any number of handlers in flight.                               *)
(***************************************************************************)
EXTENDS ActiveTickets, TLAPS, FiniteSetTheorems

\* The date a handler works with is never ahead of the clock.
DateNotAhead == todaydate <= day

\* The inductive invariant of the list.
ListInv == TypeOK /\ DateNotAhead /\ UpcomingShown /\ ExpiredHiddenSameDay

\* Days are numbers, and the calendar has a first one.
LEMMA DayFacts == 1 \in Days /\ \A d \in Days : d \in Nat
BY DayAssumption DEF Days

\* Hours are numbers, and midnight is one of them.
LEMMA HourFacts == 0 \in Hours /\ \A h \in Hours : h \in Nat
BY HourAssumption

\* The loop keeps every ticket for a show to come, even with a date that is
\* behind, but for a show at twelve of the same day.
LEMMA ActiveKeepsUpcoming ==
  ASSUME NEW t \in Ticket, NEW today \in Days, NEW d \in Days,
         NEW h \in Hours, today <= d, Upcoming(t, d, h)
  PROVE  Active(t, today, h) \/ (t.hour = 12 /\ t.day = d)
<1>1. t.day \in Nat /\ t.hour \in Nat
      /\ today \in Nat /\ d \in Nat /\ h \in Nat
  BY DayFacts, HourFacts DEF Ticket
<1>2. QED BY <1>1 DEF Upcoming, Active, ParsedHour

\* With the right date it keeps nothing else.
LEMMA ActiveIsUpcoming ==
  ASSUME NEW t \in Ticket, NEW d \in Days, NEW h \in Hours, Active(t, d, h)
  PROVE  Upcoming(t, d, h)
<1>1. t.day \in Nat /\ t.hour \in Nat /\ d \in Nat /\ h \in Nat
  BY DayFacts, HourFacts DEF Ticket
<1>2. QED BY <1>1 DEF Upcoming, Active, ParsedHour

\* The invariant holds of the bloc the app starts with
\* (activeTicket_bloc.dart 10).
LEMMA ListInit == Init => ListInv
<1> SUFFICES ASSUME Init PROVE ListInv
  OBVIOUS
<1>1. bloc \in ActiveTicketState /\ bloc.st = "Initial"
  BY DayFacts, HourFacts DEF Init, ActiveTicketState, States
<1>2. fetches \in [Slots -> FetchRec]
  BY DEF Init, NoFetch, FetchRec
<1>3. TypeOK
  BY <1>1, <1>2, DayFacts, HourFacts DEF Init, TypeOK
<1>4. QED BY <1>1, <1>3
          DEF Init, ListInv, DateNotAhead, UpcomingShown, ExpiredHiddenSameDay,
              ExpiredHidden

\* The clock disturbs nothing: a date noted before stays behind it.
LEMMA TickStep ==
  ASSUME ListInv, Tick
  PROVE  ListInv'
<1>1. day' \in Days /\ hour' \in Hours /\ day' >= day
  BY DayAssumption, HourFacts DEF Tick, ListInv, TypeOK, Days
<1>2. todaydate <= day'
  BY <1>1, DayFacts DEF ListInv, TypeOK, DateNotAhead
<1>3. QED BY <1>1, <1>2
          DEF Tick, ListInv, TypeOK, DateNotAhead, UpcomingShown,
              ExpiredHiddenSameDay, ExpiredHidden

\* A booking changes no list that was read already (upi.dart 66-106).
LEMMA BookStep ==
  ASSUME ListInv, NEW d \in Days, NEW h \in Hours, Book(d, h)
  PROVE  ListInv'
<1>1. PICK i \in TicketIds : tickets' = tickets \cup {[id |-> i, day |-> d, hour |-> h]}
  BY DEF Book
<1>2. [id |-> i, day |-> d, hour |-> h] \in Ticket
  BY DEF Ticket
<1>3. tickets' \in SUBSET Ticket
  BY <1>1, <1>2 DEF ListInv, TypeOK
<1>4. QED BY <1>3
          DEF Book, ListInv, TypeOK, DateNotAhead, UpcomingShown,
              ExpiredHiddenSameDay, ExpiredHidden

\* Loading and the errors say nothing about tickets.
LEMMA StatusStep ==
  ASSUME ListInv, NEW st \in States \ {"Loaded"}, bloc' = [bloc EXCEPT !.st = st],
         NEW k \in Slots, NEW r \in FetchRec, fetches' = [fetches EXCEPT ![k] = r],
         todaydate' = todaydate \/ todaydate' = day, UNCHANGED <<day, hour, tickets>>
  PROVE  ListInv'
<1>1. bloc' \in ActiveTicketState /\ bloc'.st # "Loaded"
  BY DEF ListInv, TypeOK, ActiveTicketState
<1>2. fetches' \in [Slots -> FetchRec]
  BY DEF ListInv, TypeOK
<1>3. todaydate' \in Days /\ todaydate' <= day
  BY DayFacts DEF ListInv, TypeOK, DateNotAhead
<1>4. QED BY <1>1, <1>2, <1>3
          DEF ListInv, TypeOK, DateNotAhead, UpcomingShown,
              ExpiredHiddenSameDay, ExpiredHidden

\* The loop of a handler makes a list that keeps the invariant, whatever date
\* the handlers share (activeTicket_bloc.dart 33-86).
LEMMA EmitStep ==
  ASSUME ListInv, NEW k \in Slots, EmitActive(k)
  PROVE  ListInv'
<1> DEFINE read == fetches[k].read
           list == {t \in read : Active(t, todaydate, hour)}
<1>1. read \in SUBSET Ticket /\ list \in SUBSET Ticket
  BY DEF ListInv, TypeOK, FetchRec
<1>2. /\ bloc'.read = read /\ bloc'.today = todaydate
      /\ bloc'.day = day /\ bloc'.hour = hour
      /\ bloc'.st = "Loaded" => bloc'.ticketsnow = list
  BY DEF EmitActive
<1>3. bloc' \in ActiveTicketState
  BY <1>1 DEF EmitActive, ListInv, TypeOK, ActiveTicketState, States
<1>4. TypeOK'
  BY <1>3 DEF EmitActive, ListInv, TypeOK, NoFetch, FetchRec
<1>5. UpcomingShown'
  <2>1. ASSUME NEW t \in read, Upcoming(t, day, hour)
        PROVE  t \in list \/ (t.hour = 12 /\ t.day = day)
    BY <1>1, <2>1, ActiveKeepsUpcoming DEF ListInv, TypeOK, DateNotAhead
  <2> HIDE DEF read, list
  <2>2. QED BY <1>2, <2>1 DEF UpcomingShown
<1>6. ExpiredHiddenSameDay'
  <2>1. ASSUME todaydate = day, NEW t \in list PROVE Upcoming(t, day, hour)
    BY <1>1, <2>1, ActiveIsUpcoming DEF ListInv, TypeOK
  <2> HIDE DEF read, list
  <2>2. QED BY <1>2, <2>1 DEF ExpiredHiddenSameDay, ExpiredHidden
<1>7. QED BY <1>4, <1>5, <1>6 DEF ListInv, DateNotAhead, EmitActive

\* For every calendar the list of active tickets is well typed, misses no show
\* to come but one at twelve on its own day, and lists nothing expired unless
\* midnight passed under way (activeTicket_bloc.dart 14-93).
THEOREM ListInvariant == Spec => []ListInv
<1>1. Init => ListInv
  BY ListInit
<1>2. ListInv /\ [Next]_vars => ListInv'
  <2> SUFFICES ASSUME ListInv, [Next]_vars PROVE ListInv'
    OBVIOUS
  <2>1. CASE FetchActiveTicket
    <3>1. PICK k \in Slots : fetches' = [fetches EXCEPT ![k] = [st |-> "sent", read |-> {}]]
      BY <2>1 DEF FetchActiveTicket
    <3>2. [st |-> "sent", read |-> {}] \in FetchRec
      BY DEF FetchRec
    <3>3. QED BY <2>1, <3>1, <3>2, StatusStep DEF FetchActiveTicket, States
  <2>2. ASSUME NEW k \in Slots, ServeFetch(k) PROVE ListInv'
    <3>1. [st |-> "served", read |-> tickets] \in FetchRec
      BY DEF ListInv, TypeOK, FetchRec
    <3>2. QED BY <2>2, <3>1
              DEF ServeFetch, ListInv, TypeOK, DateNotAhead, UpcomingShown,
                  ExpiredHiddenSameDay, ExpiredHidden
  <2>3. ASSUME NEW k \in Slots, EmitError(k) PROVE ListInv'
    <3>1. NoFetch \in FetchRec
      BY DEF NoFetch, FetchRec
    <3>2. QED BY <2>3, <3>1, StatusStep DEF EmitError, States
  <2>4. CASE UNCHANGED vars
    BY <2>4 DEF vars, ListInv, TypeOK, DateNotAhead, UpcomingShown,
       ExpiredHiddenSameDay, ExpiredHidden
  <2>5. QED BY <2>1, <2>2, <2>3, <2>4, TickStep, BookStep, EmitStep DEF Next
<1>3. QED BY <1>1, <1>2, PTL DEF Spec

\* No ticket for a show to come is missing from the list, but for a show at
\* twelve on its day, although the date is noted before and the hour after an
\* await (activeTicket_bloc.dart 18-51).
THEOREM UpcomingAreShown == Spec => []UpcomingShown
<1>1. ListInv => UpcomingShown
  BY DEF ListInv
<1>2. QED BY <1>1, ListInvariant, PTL

\* Nothing expired is listed unless midnight passed between the note of the
\* date and the look at the clock (activeTicket_bloc.dart 12, 18-24, 50-51).
THEOREM ExpiredAreHidden == Spec => []ExpiredHiddenSameDay
<1>1. ListInv => ExpiredHiddenSameDay
  BY DEF ListInv
<1>2. QED BY <1>1, ListInvariant, PTL
--------------------------------------------------------------------------
(* Dates that can be parsed.                                               *)

\* Every variable keeps its type, in every calendar and with shows at any hour
\* (activeTicket_bloc.dart 14-93).
THEOREM ListTypes == Spec => []TypeOK
<1>1. Init => TypeOK
  BY ListInit DEF ListInv
<1>2. TypeOK /\ [Next]_vars => TypeOK'
  <2> SUFFICES ASSUME TypeOK, [Next]_vars PROVE TypeOK'
    OBVIOUS
  <2>0. NoFetch \in FetchRec /\ [st |-> "sent", read |-> {}] \in FetchRec
    BY DEF NoFetch, FetchRec
  <2>1. CASE Tick
    <3>1. day' \in Days /\ hour' \in Hours
      BY <2>1, DayAssumption, HourFacts DEF Tick, TypeOK, Days
    <3>2. QED BY <2>1, <3>1 DEF Tick, TypeOK
  <2>2. ASSUME NEW d \in Days, NEW h \in Hours, Book(d, h) PROVE TypeOK'
    <3>1. PICK i \in TicketIds :
            tickets' = tickets \cup {[id |-> i, day |-> d, hour |-> h]}
      BY <2>2 DEF Book
    <3>2. tickets' \in SUBSET Ticket
      BY <3>1 DEF TypeOK, Ticket
    <3>3. QED BY <2>2, <3>2 DEF Book, TypeOK
  <2>3. CASE FetchActiveTicket
    BY <2>0, <2>3 DEF FetchActiveTicket, TypeOK, ActiveTicketState, States
  <2>4. ASSUME NEW k \in Slots, ServeFetch(k) PROVE TypeOK'
    <3>1. [st |-> "served", read |-> tickets] \in FetchRec
      BY DEF TypeOK, FetchRec
    <3>2. QED BY <2>4, <3>1 DEF ServeFetch, TypeOK
  <2>5. ASSUME NEW k \in Slots, EmitActive(k) PROVE TypeOK'
    <3> DEFINE read == fetches[k].read
               list == {t \in read : Active(t, todaydate, hour)}
    <3>1. read \in SUBSET Ticket /\ list \in SUBSET Ticket
      BY DEF TypeOK, FetchRec
    <3>2. bloc' \in ActiveTicketState
      BY <2>5, <3>1 DEF EmitActive, TypeOK, ActiveTicketState, States
    <3>3. QED BY <2>0, <2>5, <3>2 DEF EmitActive, TypeOK
  <2>6. ASSUME NEW k \in Slots, EmitError(k) PROVE TypeOK'
    BY <2>0, <2>6 DEF EmitError, TypeOK, ActiveTicketState, States
  <2>7. CASE UNCHANGED vars
    BY <2>7 DEF vars, TypeOK
  <2>8. QED BY <2>1, <2>2, <2>3, <2>4, <2>5, <2>6, <2>7 DEF Next
<1>3. QED BY <1>1, <1>2, PTL DEF Spec

\* Every booked ticket, and every ticket a handler has read, has a date that
\* can be parsed; so a failure is due to the date of today.
DatesParse ==
  /\ fetches \in [Slots -> FetchRec]
  /\ \A t \in tickets : Parses(t.day)
  /\ \A k \in Slots : \A t \in fetches[k].read : Parses(t.day)
  /\ FailsOnlyByToday

\* A slot that gets a list of parsable dates, with no new failure, keeps the
\* invariant.
LEMMA SlotStep ==
  ASSUME DatesParse, NEW k \in Slots, NEW r \in FetchRec,
         \A t \in r.read : Parses(t.day),
         fetches' = [fetches EXCEPT ![k] = r], UNCHANGED tickets,
         FailsOnlyByToday'
  PROVE  DatesParse'
<1>1. fetches' \in [Slots -> FetchRec]
  BY DEF DatesParse
<1>2. ASSUME NEW j \in Slots, NEW t \in fetches'[j].read
      PROVE  Parses(t.day)
  BY <1>2 DEF DatesParse
<1>3. QED BY <1>1, <1>2 DEF DatesParse, Parses

\* In every calendar the list fails only on a day whose own date cannot be
\* parsed: SelectSeat lets nobody book under a date that would break the loop
\* (selectSeat.dart 163, activeTicket_bloc.dart 36-37).
THEOREM FailuresAreOfToday == Spec => []FailsOnlyByToday
<1>1. Init => DatesParse
  BY DEF Init, DatesParse, FailsOnlyByToday, NoFetch, FetchRec
<1>2. TypeOK /\ DatesParse /\ [Next]_vars => DatesParse'
  <2> SUFFICES ASSUME TypeOK, DatesParse, [Next]_vars PROVE DatesParse'
    OBVIOUS
  <2>1. CASE Tick
    BY <2>1 DEF Tick, DatesParse, FailsOnlyByToday, Parses
  <2>2. ASSUME NEW d \in Days, NEW h \in Hours, Book(d, h) PROVE DatesParse'
    <3>1. PICK i \in TicketIds :
            tickets' = tickets \cup {[id |-> i, day |-> d, hour |-> h]}
      BY <2>2 DEF Book
    <3>2. \A t \in tickets' : Parses(t.day)
      BY <2>2, <3>1 DEF Book, DatesParse
    <3>3. QED BY <2>2, <3>2 DEF Book, DatesParse, FailsOnlyByToday, Parses
  <2>3. CASE FetchActiveTicket
    <3>1. PICK k \in Slots :
            fetches' = [fetches EXCEPT ![k] = [st |-> "sent", read |-> {}]]
      BY <2>3 DEF FetchActiveTicket
    <3>2. [st |-> "sent", read |-> {}] \in FetchRec
      BY DEF FetchRec
    <3>3. FailsOnlyByToday'
      BY <2>3 DEF FetchActiveTicket, FailsOnlyByToday, TypeOK, ActiveTicketState
    <3>4. QED BY <2>3, <3>1, <3>2, <3>3, SlotStep DEF FetchActiveTicket
  <2>4. ASSUME NEW k \in Slots, ServeFetch(k) PROVE DatesParse'
    <3>1. [st |-> "served", read |-> tickets] \in FetchRec
      BY DEF TypeOK, FetchRec
    <3>2. FailsOnlyByToday'
      BY <2>4 DEF ServeFetch, DatesParse, FailsOnlyByToday, Parses
    <3>3. \A t \in [st |-> "served", read |-> tickets].read : Parses(t.day)
      BY DEF DatesParse
    <3>4. QED BY <2>4, <3>1, <3>2, <3>3, SlotStep DEF ServeFetch
  <2>5. ASSUME NEW k \in Slots, EmitActive(k) PROVE DatesParse'
    <3>1. NoFetch \in FetchRec /\ NoFetch.read = {}
      BY DEF NoFetch, FetchRec
    <3>2. \A t \in fetches[k].read : Parses(t.day)
      BY DEF DatesParse
    <3>3. FailsOnlyByToday'
      BY <2>5, <3>2 DEF EmitActive, FailsOnlyByToday, Parses
    <3>4. QED BY <2>5, <3>1, <3>3, SlotStep DEF EmitActive
  <2>6. ASSUME NEW k \in Slots, EmitError(k) PROVE DatesParse'
    <3>1. NoFetch \in FetchRec /\ NoFetch.read = {}
      BY DEF NoFetch, FetchRec
    <3>2. FailsOnlyByToday'
      BY <2>6 DEF EmitError, FailsOnlyByToday, TypeOK, ActiveTicketState
    <3>3. QED BY <2>6, <3>1, <3>2, SlotStep DEF EmitError
  <2>7. CASE UNCHANGED vars
    BY <2>7 DEF vars, DatesParse, FailsOnlyByToday, Parses
  <2>8. QED BY <2>1, <2>2, <2>3, <2>4, <2>5, <2>6, <2>7 DEF Next
<1>3. DatesParse => FailsOnlyByToday
  BY DEF DatesParse
<1>4. QED BY <1>1, <1>2, <1>3, ListTypes, PTL DEF Spec
==========================================================================
