-------------------------- MODULE ActiveTickets --------------------------
(***************************************************************************)
(* ActiveTicketBloc: which of an account's tickets are still active.       *)
(*                                                                         *)
(* A handler of FetchActiveTicket notes today's date, waits for Firestore, *)
(* then goes through the tickets with the time of day it finds by then.    *)
(* todaydate is a variable of the bloc, shared by the handlers in flight.  *)
(*                                                                         *)
(* Dates are written as year-month-day with the day padded and the month   *)
(* not, and read with DateTime.parse, which wants two digits for both.     *)
(* Times are read with the pattern hh:mm, whose hour 12 is midnight.  Only *)
(* the hour is compared.  The tickets of an account are a set here: the    *)
(* bloc keeps their order and asks nothing about it.                       *)
(***************************************************************************)
EXTENDS Naturals, FiniteSets

CONSTANTS
  MaxDay,      \* bound: the days of the calendar are 1 .. MaxDay
  MonthOf,     \* calendar: the month of every day
  Hours,       \* hours of the day at which the clock is observed
  MaxTickets,  \* bound: tickets of the account
  MaxFetches   \* bound: handlers in flight

Days == 1 .. MaxDay

ASSUME DayAssumption   == MaxDay \in Nat \ {0}
ASSUME MonthAssumption == MonthOf \in [Days -> 1 .. 12]
ASSUME HourAssumption  == Hours \subseteq 0 .. 23 /\ 0 \in Hours
ASSUME BoundAssumption == MaxTickets \in Nat /\ MaxFetches \in Nat

VARIABLES
  day, hour,   \* the device's clock
  tickets,     \* Firestore: the tickets of the account
  todaydate,   \* the bloc's variable
  bloc,        \* state of the bloc; read, today, day and hour say what it was
               \* made from: the tickets, todaydate and the clock
  fetches      \* handlers in flight

vars == <<day, hour, tickets, todaydate, bloc, fetches>>
--------------------------------------------------------------------------
TicketIds == 1 .. MaxTickets
Ticket    == [id : TicketIds, day : Days, hour : Hours]
Slots     == 1 .. MaxFetches

FetchRec == [st : {"idle", "sent", "served"}, read : SUBSET Ticket]
NoFetch  == [st |-> "idle", read |-> {}]

States == {"Initial", "Loading", "Loaded", "NetworkError", "FormatError"}
ActiveTicketState ==
  [st : States, ticketsnow : SUBSET Ticket, read : SUBSET Ticket,
   today : Days, day : Days, hour : Hours]

\* Types of the variables (activeTicket_state.dart).
TypeOK ==
  /\ day \in Days
  /\ hour \in Hours
  /\ tickets \in SUBSET Ticket
  /\ todaydate \in Days
  /\ bloc \in ActiveTicketState
  /\ fetches \in [Slots -> FetchRec]

Init ==
  /\ day = 1
  /\ hour = 0
  /\ tickets = {}
  /\ todaydate = 1
  /\ bloc = [st |-> "Initial", ticketsnow |-> {}, read |-> {},
             today |-> 1, day |-> 1, hour |-> 0]
  /\ fetches = [k \in Slots |-> NoFetch]
--------------------------------------------------------------------------
\* DateTime.parse accepts a date only if its month has two digits.
Parses(d) == MonthOf[d] >= 10

\* DateFormat('hh:mm').parse: the hour of a show.
ParsedHour(h) == IF h = 12 THEN 0 ELSE h

\* Fault: a show that starts in this hour counts as over.
ActiveTooStrict(t, today, now) ==
  t.day > today \/ (t.day = today /\ ParsedHour(t.hour) > now)

\* Fault: the time of day is not looked at.
ActiveAllDay(t, today, now) == t.day >= today

\* The test the loop makes for a ticket.
Active(t, today, now) ==
  t.day > today \/ (t.day = today /\ ParsedHour(t.hour) >= now)
--------------------------------------------------------------------------
\* The clock moves on to the next hour that is observed.
Tick ==
  /\ \/ \E h \in Hours : /\ h > hour
                         /\ \A g \in Hours : g > hour => h <= g
                         /\ hour' = h
                         /\ UNCHANGED day
     \/ /\ \A g \in Hours : g <= hour
        /\ day < MaxDay
        /\ day' = day + 1
        /\ hour' = 0
  /\ UNCHANGED <<tickets, todaydate, bloc, fetches>>

\* Fault: SelectSeat draws its seats under any date.
BookAnyDate(d, h) ==
  /\ d \in day .. (day + 6)
  /\ d = day => h >= hour
  /\ \E i \in TicketIds :
       /\ i = Cardinality(tickets) + 1
       /\ tickets' = tickets \cup {[id |-> i, day |-> d, hour |-> h]}
  /\ UNCHANGED <<day, hour, todaydate, bloc, fetches>>

\* A ticket is booked (see SeatBooking) for a show that is still to come, on
\* one of the seven days Cinemas offers.  SelectSeat draws its seats only
\* under a date that can be parsed.
Book(d, h) ==
  /\ d \in day .. (day + 6)
  /\ d = day => h >= hour
  /\ Parses(d)
  /\ \E i \in TicketIds :
       /\ i = Cardinality(tickets) + 1
       /\ tickets' = tickets \cup {[id |-> i, day |-> d, hour |-> h]}
  /\ UNCHANGED <<day, hour, todaydate, bloc, fetches>>

\* Fault: the day of the month is counted from zero.
FetchDayBefore ==
  \E k \in Slots :
    /\ fetches[k].st = "idle"
    /\ \A j \in 1 .. (k - 1) : fetches[j].st # "idle"
    /\ fetches' = [fetches EXCEPT ![k] = [st |-> "sent", read |-> {}]]
    /\ todaydate' = day - 1
    /\ bloc' = [bloc EXCEPT !.st = "Loading"]
    /\ UNCHANGED <<day, hour, tickets>>

\* The handler starts: it emits ActiveTicketLoading, notes the date, asks.
FetchActiveTicket ==
  \E k \in Slots :
    /\ fetches[k].st = "idle"
    /\ \A j \in 1 .. (k - 1) : fetches[j].st # "idle"
    /\ fetches' = [fetches EXCEPT ![k] = [st |-> "sent", read |-> {}]]
    /\ todaydate' = day
    /\ bloc' = [bloc EXCEPT !.st = "Loading"]
    /\ UNCHANGED <<day, hour, tickets>>

ServeFetch(k) ==
  /\ fetches[k].st = "sent"
  /\ fetches' = [fetches EXCEPT ![k] = [st |-> "served", read |-> tickets]]
  /\ UNCHANGED <<day, hour, tickets, todaydate, bloc>>

\* The loop over the tickets and the emit after it.  One date that cannot be
\* parsed, a ticket's or today's, ends the whole loop.
EmitActive(k) ==
  /\ fetches[k].st = "served"
  /\ LET read == fetches[k].read
         ok   == \A t \in read : Parses(t.day) /\ Parses(todaydate)
     IN bloc' = [st |-> IF ok THEN "Loaded" ELSE "FormatError",
                 ticketsnow |-> IF ok THEN {t \in read : Active(t, todaydate, hour)}
                                      ELSE {},
                 read |-> read, today |-> todaydate, day |-> day, hour |-> hour]
  /\ fetches' = [fetches EXCEPT ![k] = NoFetch]
  /\ UNCHANGED <<day, hour, tickets, todaydate>>

\* The get throws.
EmitError(k) ==
  /\ fetches[k].st = "sent"
  /\ bloc' = [bloc EXCEPT !.st = "NetworkError"]
  /\ fetches' = [fetches EXCEPT ![k] = NoFetch]
  /\ UNCHANGED <<day, hour, tickets, todaydate>>

Next ==
  \/ Tick
  \/ \E d \in Days, h \in Hours : Book(d, h)
  \/ FetchActiveTicket
  \/ \E k \in Slots : ServeFetch(k) \/ EmitActive(k) \/ EmitError(k)

Spec == Init /\ [][Next]_vars
--------------------------------------------------------------------------
(* Properties.                                                             *)

\* Ticket t is for a show that has not begun an hour before (d, h).
Upcoming(t, d, h) == t.day > d \/ (t.day = d /\ t.hour >= h)

\* Whenever the list is made, no ticket for a show to come is missing, even
\* if midnight passed while the handler waited; only a show at twelve, which is
\* read as midnight, may be missing, and only on its own day
\* (activeTicket_bloc.dart 33-86).
UpcomingShown ==
  bloc.st = "Loaded" =>
    \A t \in bloc.read :
      Upcoming(t, bloc.day, bloc.hour) =>
        t \in bloc.ticketsnow \/ (t.hour = 12 /\ t.day = bloc.day)

\* No ticket of an earlier day is listed as active, and none of today whose
\* hour has passed (activeTicket_bloc.dart 66-80).
ExpiredHidden ==
  bloc.st = "Loaded" =>
    \A t \in bloc.ticketsnow : Upcoming(t, bloc.day, bloc.hour)

\* Unless midnight passed between the note of the date and the look at the
\* clock, no expired ticket is listed, whichever handlers share todaydate
\* (activeTicket_bloc.dart 12, 18-24, 50-51).
ExpiredHiddenSameDay == bloc.today = bloc.day => ExpiredHidden

\* The list fails as a whole only on a day whose own date cannot be parsed,
\* never because of a ticket the app let the user book (selectSeat.dart 163,
\* activeTicket_bloc.dart 36-37, 87-92).
FailsOnlyByToday == bloc.st = "FormatError" => ~ Parses(bloc.today)
==========================================================================
