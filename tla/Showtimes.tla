---------------------------- MODULE Showtimes ----------------------------
(***************************************************************************)
(* The page Cinemas, on which the user of a film picks a date and then a   *)
(* showing, and NearCinemaBloc with getCinema, which fetch the showings.   *)
(*                                                                         *)
(* A list of showings is known here by the film and the date the server    *)
(* made it for, and by whether it holds any showing: SelectSeat is given   *)
(* the start time out of the list, but film and date of the page.          *)
(* result is a variable of the library closest_showing.dart: it outlives   *)
(* pages and requests, and an error status returns it as it is.            *)
(***************************************************************************)
EXTENDS Naturals

CONSTANTS
  Films,       \* films with a page of their own
  NoFilm,      \* no Cinemas page is open
  Window,      \* days the page offers (7 in the code)
  MaxDay,      \* bound: the device's calendar ends with day MaxDay
  MaxFetches   \* bound: requests in flight

ASSUME FilmAssumption  == NoFilm \notin Films
ASSUME DayAssumption   == Window \in Nat \ {0} /\ MaxDay \in Nat \ {0}
ASSUME BoundAssumption == MaxFetches \in Nat

VARIABLES
  patient,  \* environment, never changed: the user asks for another list only
            \* when no request is in flight
  mayFail,  \* environment, never changed: the server may answer with an error
            \* status
  today,    \* the device's date
  film,     \* moviedata of the open Cinemas page
  firstDay, \* days[0] of the page, from the moment it was opened
  mydate,   \* the date picked on the page
  bloc,     \* state of the one NearCinemaBloc of the app
  result,   \* the library's variable: the last list that came
  fetches,  \* FetchNearCinema handlers waiting for their answer
  chosen    \* the SelectSeat page on top of Cinemas, if any

vars == <<patient, mayFail, today, film, firstDay, mydate, bloc, result, fetches,
          chosen>>
modeVars == <<patient, mayFail>>
pageVars == <<film, firstDay, mydate>>
--------------------------------------------------------------------------
LastDay == MaxDay + Window - 1
Slots   == 1 .. MaxFetches

\* A list of showings; shows is FALSE for the empty list.
List   == [film : Films \cup {NoFilm}, date : 0 .. LastDay, shows : BOOLEAN]
NoList == [film |-> NoFilm, date |-> 0, shows |-> FALSE]

FetchRec == [busy : BOOLEAN, film : Films \cup {NoFilm}, date : 0 .. LastDay]
NoFetch  == [busy |-> FALSE, film |-> NoFilm, date |-> 0]

NearCinemaState ==
  [st : {"Initial", "Loading", "Loaded", "Error"}, cinemadata : List]

\* What SelectSeat was opened with; slot is the list its time is taken from.
Choice   == [film : Films \cup {NoFilm}, date : 0 .. LastDay, slot : List]
NoChoice == [film |-> NoFilm, date |-> 0, slot |-> NoList]

\* Types of the variables; no date lies beyond the days a page can offer
\* (cinemas.dart 37-62, nearCinema_state.dart).
TypeOK ==
  /\ patient \in BOOLEAN
  /\ mayFail \in BOOLEAN
  /\ today \in 1 .. MaxDay
  /\ film \in Films \cup {NoFilm}
  /\ firstDay \in 0 .. MaxDay
  /\ mydate \in 0 .. LastDay
  /\ bloc \in NearCinemaState
  /\ result \in List
  /\ fetches \in [Slots -> FetchRec]
  /\ chosen \in Choice

Init ==
  /\ patient \in BOOLEAN
  /\ mayFail \in BOOLEAN
  /\ today = 1
  /\ film = NoFilm
  /\ firstDay = 0
  /\ mydate = 0
  /\ bloc = [st |-> "Initial", cinemadata |-> NoList]
  /\ result = NoList
  /\ fetches = [k \in Slots |-> NoFetch]
  /\ chosen = NoChoice
--------------------------------------------------------------------------
MayAsk == patient => \A k \in Slots : ~ fetches[k].busy

\* Fault: the handler does not emit NearCinemaLoading.
FetchQuietly(f, d) ==
  \E k \in Slots :
    /\ ~ fetches[k].busy
    /\ \A j \in 1 .. (k - 1) : fetches[j].busy
    /\ fetches' = [fetches EXCEPT ![k] = [busy |-> TRUE, film |-> f, date |-> d]]
    /\ UNCHANGED bloc

\* add(FetchNearCinema): the handler starts, emits NearCinemaLoading and asks
\* for the position, then for the showings.
FetchNearCinema(f, d) ==
  \E k \in Slots :
    /\ ~ fetches[k].busy
    /\ \A j \in 1 .. (k - 1) : fetches[j].busy
    /\ fetches' = [fetches EXCEPT ![k] = [busy |-> TRUE, film |-> f, date |-> d]]
    /\ bloc' = [bloc EXCEPT !.st = "Loading"]

\* initState of Cinemas: the days start today, and the first one is picked.
OpenCinemas(f) ==
  /\ film = NoFilm
  /\ MayAsk
  /\ film' = f
  /\ firstDay' = today
  /\ mydate' = today
  /\ FetchNearCinema(f, today)
  /\ UNCHANGED <<modeVars, today, result, chosen>>

\* Fault: the days are counted from one.
PickDateOffByOne(i) ==
  /\ film # NoFilm
  /\ chosen = NoChoice
  /\ MayAsk
  /\ mydate' = firstDay + i + 1
  /\ FetchNearCinema(film, firstDay + i + 1)
  /\ UNCHANGED <<modeVars, today, film, firstDay, result, chosen>>

\* Fault: the days are counted from yesterday.
PickDateFromYesterday(i) ==
  /\ film # NoFilm
  /\ chosen = NoChoice
  /\ MayAsk
  /\ mydate' = (firstDay - 1) + i
  /\ FetchNearCinema(film, (firstDay - 1) + i)
  /\ UNCHANGED <<modeVars, today, film, firstDay, result, chosen>>

\* Fault: the list of the date that was picked before is asked for.
PickDateAsksOld(i) ==
  /\ film # NoFilm
  /\ chosen = NoChoice
  /\ MayAsk
  /\ mydate' = firstDay + i
  /\ FetchNearCinema(film, mydate)
  /\ UNCHANGED <<modeVars, today, film, firstDay, result, chosen>>

\* The button of day i is pressed.
PickDate(i) ==
  /\ film # NoFilm
  /\ chosen = NoChoice
  /\ MayAsk
  /\ mydate' = firstDay + i
  /\ FetchNearCinema(film, firstDay + i)
  /\ UNCHANGED <<modeVars, today, film, firstDay, result, chosen>>
--------------------------------------------------------------------------
\* The handler of slot k resumes with the list l and emits NearCinemaLoaded.
EmitLoaded(k, l) ==
  /\ bloc' = [st |-> "Loaded", cinemadata |-> l]
  /\ fetches' = [fetches EXCEPT ![k] = NoFetch]
  /\ UNCHANGED <<modeVars, today, pageVars, chosen>>

\* Status 200: the cinemas of the answer, perhaps none.
Status200(k) ==
  /\ fetches[k].busy
  /\ \E b \in BOOLEAN :
       result' = [film |-> fetches[k].film, date |-> fetches[k].date, shows |-> b]
  /\ EmitLoaded(k, result')

\* Status 204: the empty list.
Status204(k) ==
  /\ fetches[k].busy
  /\ result' = [film |-> fetches[k].film, date |-> fetches[k].date,
                shows |-> FALSE]
  /\ EmitLoaded(k, result')

\* Any other status: the list that came last, whatever it was asked for.
OtherStatus(k) ==
  /\ mayFail
  /\ fetches[k].busy
  /\ UNCHANGED result
  /\ EmitLoaded(k, result)

\* Fault: the catch block emits nothing.
ThrowsQuietly(k) ==
  /\ fetches[k].busy
  /\ fetches' = [fetches EXCEPT ![k] = NoFetch]
  /\ UNCHANGED <<modeVars, today, pageVars, bloc, result, chosen>>

\* The position, the request or the decoding throws: NearCinemaError.
Throws(k) ==
  /\ fetches[k].busy
  /\ bloc' = [bloc EXCEPT !.st = "Error"]
  /\ fetches' = [fetches EXCEPT ![k] = NoFetch]
  /\ UNCHANGED <<modeVars, today, pageVars, result, chosen>>

Answer(k) == Status200(k) \/ Status204(k) \/ OtherStatus(k) \/ Throws(k)
--------------------------------------------------------------------------
\* A start time of the list on display is tapped.
TapShowing ==
  /\ film # NoFilm
  /\ chosen = NoChoice
  /\ bloc.st = "Loaded"
  /\ bloc.cinemadata.shows
  /\ chosen' = [film |-> film, date |-> mydate, slot |-> bloc.cinemadata]
  /\ UNCHANGED <<modeVars, today, pageVars, bloc, result, fetches>>

\* Back from SelectSeat to the page, which kept its date.
BackFromSeats ==
  /\ chosen # NoChoice
  /\ chosen' = NoChoice
  /\ UNCHANGED <<modeVars, today, pageVars, bloc, result, fetches>>

\* The page is popped: by back, or with SelectSeat after a payment.
CloseCinemas ==
  /\ film # NoFilm
  /\ film' = NoFilm
  /\ firstDay' = 0
  /\ mydate' = 0
  /\ chosen' = NoChoice
  /\ UNCHANGED <<modeVars, today, bloc, result, fetches>>

Midnight ==
  /\ today < MaxDay
  /\ today' = today + 1
  /\ UNCHANGED <<modeVars, pageVars, bloc, result, fetches, chosen>>

Next ==
  \/ \E f \in Films : OpenCinemas(f)
  \/ \E i \in 0 .. (Window - 1) : PickDate(i)
  \/ \E k \in Slots : Answer(k)
  \/ TapShowing
  \/ BackFromSeats
  \/ CloseCinemas
  \/ Midnight

Spec == Init /\ [][Next]_vars
--------------------------------------------------------------------------
(* Properties.                                                             *)

\* The user waits for every answer, and the server sends a list or nothing.
Calm == patient /\ ~ mayFail

\* The list was made for film f and date d.
IsFor(l, f, d) == l.film = f /\ l.date = d

\* With a calm environment the seat screen is opened for a start time at which
\* the chosen film runs on the chosen date, although the time comes from the
\* bloc's list and film and date from the page (cinemas.dart 427-457).
SlotOfChosenShow ==
  (Calm /\ chosen # NoChoice) => IsFor(chosen.slot, chosen.film, chosen.date)

\* With a calm environment the list on the page, or the message that the film
\* does not run on the picked date, answers the question the page asked last
\* (cinemas.dart 227-275, 320-345; nearCinema_bloc.dart 13-27).
ListOfChosenDate ==
  (Calm /\ film # NoFilm /\ bloc.st = "Loaded") => IsFor(bloc.cinemadata, film, mydate)

\* Only on a page that stayed open over midnight can the seat screen be for a
\* day gone by: the days are computed once, when the page opens (cinemas.dart
\* 37-62, 235-260).
PastOnlyOnOldPage ==
  (chosen # NoChoice /\ chosen.date < today) => firstDay < today

\* No request waits for ever.  Nothing in the code sees to that: neither the wait
\* for the position nor the one for the server has a limit of time
\* (closest_showing.dart 13, 27).
EveryRequestEnds == \A k \in Slots : []<>(~ fetches[k].busy)

\* If no request waits for ever, the spinner of the page ends: whatever the
\* requests come to and in whatever order, none ends and leaves the page spinning
\* (nearCinema_bloc.dart 13-27).
SpinnerEnds == EveryRequestEnds => (bloc.st = "Loading" ~> bloc.st # "Loading")
--------------------------------------------------------------------------
(* The inductive invariant behind ShowtimesProofs.                         *)

\* While the page spins a request is in flight.
SpinnerHasRequest == bloc.st = "Loading" => \E k \in Slots : fetches[k].busy

\* The picked date is one of the days the page offers.
DateOffered == film # NoFilm => mydate \in firstDay .. (firstDay + Window - 1)

\* What is still to come was asked by the page that is open, if the user waits.
RequestOfPage ==
  (patient /\ film # NoFilm) =>
    \A k \in Slots : fetches[k].busy => IsFor(fetches[k], film, mydate)

\* The seat screen lies on the page it was opened from, whatever the environment
\* does, and in a calm one its start time is of that page's film and date.
ChoiceOfPage ==
  chosen # NoChoice =>
    /\ film # NoFilm
    /\ IsFor(chosen, film, mydate)
    /\ Calm => IsFor(chosen.slot, film, mydate)

\* A page, its requests, its list and the seat screen above it are about one
\* film and one date as far as the environment allows, across any order of answers, pages and midnights
\* (cinemas.dart 37-62, 235-260, 427-457).
ShowtimesInv ==
  /\ SpinnerHasRequest
  /\ DateOffered
  /\ RequestOfPage
  /\ ListOfChosenDate
  /\ ChoiceOfPage
==========================================================================
