---------------------------- MODULE HomeFilms ----------------------------
(***************************************************************************)
(* The films now showing on the home page: MainScreen, which has a home    *)
(* page only while it hears of a connection, HomeScreen, which asks for    *)
(* the films whenever it is built, MovieNowBloc and getNow.                *)
(*                                                                         *)
(* The list of films is known by whether it holds any.  result is a        *)
(* variable of the library now_showing_api.dart: an error status of the    *)
(* server returns the list that came last.                                 *)
(***************************************************************************)
EXTENDS Naturals, Sequences

CONSTANTS
  MaxFetches,  \* bound: FetchMovieNow handlers in progress
  MaxEvents    \* bound: connectivity events on their way

ASSUME BoundAssumption == MaxFetches \in Nat \ {0} /\ MaxEvents \in Nat \ {0}

VARIABLES
  healthy,   \* environment, never changed: the server answers 200, with films,
             \* to what is sent over a connection that lasts
  ordered,   \* environment, never changed: requests end in the order they began
  net,       \* the phone is connected
  location,  \* the app may use the phone's location
  events,    \* events of onConnectivityChanged not yet seen
  heard,     \* snapshot.data of MainScreen is not ConnectivityResult.none
  fetches,   \* handlers in progress, the oldest first
  result,    \* the library's variable holds films
  bloc,      \* state of MovieNowBloc
  placed     \* history: the phone's position was known at least once

vars == <<healthy, ordered, net, location, events, heard, fetches, result, bloc,
          placed>>
modeVars == <<healthy, ordered>>
--------------------------------------------------------------------------
\* A handler waits for the position, then for the server; cut if there was no
\* connection at some time since it was sent.
FetchRec == [stage : {"position", "request"}, cut : BOOLEAN]

\* State of the bloc; films if nowList of StateLoaded holds any.
MovieNowState == [st : {"StateLoading", "StateLoaded", "StateError"}, films : BOOLEAN]

\* Types of the variables (movieNow_bloc.dart 8-21, now_showing_api.dart 7).
TypeOK ==
  /\ healthy \in BOOLEAN
  /\ ordered \in BOOLEAN
  /\ net \in BOOLEAN
  /\ location \in BOOLEAN
  /\ events \in Seq(BOOLEAN)
  /\ heard \in BOOLEAN
  /\ fetches \in Seq(FetchRec)
  /\ Len(fetches) <= MaxFetches
  /\ result \in BOOLEAN
  /\ bloc \in MovieNowState
  /\ placed \in BOOLEAN

NewFetch == [stage |-> "position", cut |-> FALSE]

\* MainScreen has just been opened: HomeScreen is built, and an event comes for
\* the connection there is, if there is one.
Init ==
  /\ healthy \in BOOLEAN
  /\ ordered \in BOOLEAN
  /\ net \in BOOLEAN
  /\ location \in BOOLEAN
  /\ events = IF net THEN << TRUE >> ELSE <<>>
  /\ heard = TRUE
  /\ fetches = << NewFetch >>
  /\ result = FALSE
  /\ bloc = [st |-> "StateLoading", films |-> FALSE]
  /\ placed = FALSE
--------------------------------------------------------------------------
(* The phone.                                                              *)
NetChange ==
  /\ Len(events) < MaxEvents
  /\ net' = ~ net
  /\ events' = Append(events, ~ net)
  /\ fetches' = [i \in 1 .. Len(fetches) |->
                   [fetches[i] EXCEPT !.cut = @ \/ fetches[i].stage = "request"]]
  /\ UNCHANGED <<modeVars, location, heard, result, bloc, placed>>

LocationChange ==
  /\ location' = ~ location
  /\ UNCHANGED <<modeVars, net, events, heard, fetches, result, bloc, placed>>
--------------------------------------------------------------------------
(* The pages.                                                              *)

\* add(FetchMovieNow): the bloc keeps its state until the answer.
FetchMovieNow ==
  /\ Len(fetches) < MaxFetches
  /\ fetches' = Append(fetches, NewFetch)

\* Fault: nothing is asked for when the connection is back.
HearQuietly ==
  /\ events # <<>>
  /\ events' = Tail(events)
  /\ heard' = Head(events)
  /\ UNCHANGED <<modeVars, net, location, fetches, result, bloc, placed>>

\* An event: without a connection MainScreen has no HomeScreen, with one it
\* builds HomeScreen (anew), which asks for the films.
Hear ==
  /\ events # <<>>
  /\ events' = Tail(events)
  /\ heard' = Head(events)
  /\ IF Head(events) THEN FetchMovieNow ELSE UNCHANGED fetches
  /\ UNCHANGED <<modeVars, net, location, result, bloc, placed>>

\* HomeScreen is built again, pulled down, or OK is tapped in its alert.
Refresh ==
  /\ heard
  /\ FetchMovieNow
  /\ UNCHANGED <<modeVars, net, location, events, heard, result, bloc, placed>>
--------------------------------------------------------------------------
(* The handlers.                                                           *)
Without(i) == SubSeq(fetches, 1, i - 1) \o SubSeq(fetches, i + 1, Len(fetches))

MayEnd(i) == ordered => i = 1

\* The handler goes on with a list: StateLoaded.
EmitLoaded(i, films) ==
  /\ bloc' = [st |-> "StateLoaded", films |-> films]
  /\ fetches' = Without(i)

\* The position is known, and the films are asked for.
Placed(i) ==
  /\ fetches[i].stage = "position"
  /\ location
  /\ placed' = TRUE
  /\ fetches' = [fetches EXCEPT ![i] = [stage |-> "request", cut |-> ~ net]]
  /\ UNCHANGED <<modeVars, net, location, events, heard, result, bloc>>

\* Status 200; the list has films, or perhaps none.
Status200(i) ==
  /\ fetches[i].stage = "request"
  /\ MayEnd(i)
  /\ net
  /\ result' \in BOOLEAN
  /\ healthy => result'
  /\ EmitLoaded(i, result')
  /\ UNCHANGED <<modeVars, net, location, events, heard, placed>>

\* Fault: an error status gives the empty list.
OtherStatusEmpty(i) ==
  /\ fetches[i].stage = "request"
  /\ MayEnd(i)
  /\ net
  /\ ~ healthy
  /\ EmitLoaded(i, FALSE)
  /\ UNCHANGED <<modeVars, net, location, events, heard, result, placed>>

\* Any other status: the list that came last.
OtherStatus(i) ==
  /\ fetches[i].stage = "request"
  /\ MayEnd(i)
  /\ net
  /\ ~ healthy
  /\ EmitLoaded(i, result)
  /\ UNCHANGED <<modeVars, net, location, events, heard, result, placed>>

\* Fault: without a position the films are asked for all the same.
GoesOn(i) ==
  /\ fetches[i].stage = "position" /\ ~ location
  /\ fetches' = [fetches EXCEPT ![i] = [stage |-> "request", cut |-> ~ net]]
  /\ UNCHANGED <<modeVars, net, location, events, heard, result, bloc, placed>>

\* No position, no connection or no answer: StateError.
Throws(i) ==
  /\ MayEnd(i)
  /\ \/ fetches[i].stage = "position" /\ ~ location
     \/ fetches[i].stage = "request" /\ (fetches[i].cut \/ ~ healthy)
  /\ bloc' = [st |-> "StateError", films |-> FALSE]
  /\ fetches' = Without(i)
  /\ UNCHANGED <<modeVars, net, location, events, heard, result, placed>>

Answer(i) ==
  /\ i <= Len(fetches)
  /\ Placed(i) \/ Status200(i) \/ OtherStatus(i) \/ Throws(i)

Next ==
  \/ NetChange
  \/ LocationChange
  \/ Hear
  \/ Refresh
  \/ \E i \in 1 .. MaxFetches : Answer(i)

Spec == Init /\ [][Next]_vars

\* Events are seen.
FairSpec == Spec /\ WF_vars(Hear)
--------------------------------------------------------------------------
(* Properties.                                                             *)

FilmsShown == heard /\ bloc.st = "StateLoaded" /\ bloc.films

\* A list that came is not lost to a later error status: whatever handler ends
\* last, the home page shows the list the library has (now_showing_api.dart
\* 40-56; movieNow_bloc.dart 12-20).
FilmsKept == bloc.st = "StateLoaded" => bloc.films = result

\* No films are shown to a user who never let the app know the position
\* (README.md 13; now_showing_api.dart 11; homeScreen.dart 246-330).
FilmsNeedPosition == FilmsShown => placed

\* The oldest handler never waits for ever, for the position or for the server.
\* No limit of time in the code sees to that (now_showing_api.dart 11, 17).
WaitsEnd == WF_vars(Answer(1))

\* Once the connection stays, the films come up and stay, without any action of
\* the user: the event of the connection asks for them.  Of a phone with its
\* location on, a server that answers and requests that end, and in order: a request
\* of the time without connection that fails late would put its error over the
\* films (README.md 26; mainhome.dart 102-106, homeScreen.dart 33-41, 87-93).
HomeRecovers ==
  (healthy /\ ordered /\ WaitsEnd /\ []location /\ <>[] net) => <>[] FilmsShown
--------------------------------------------------------------------------
(* The inductive invariant behind HomeFilmsProofs.                         *)

\* Only a handler that knows the position asks the server, and only an answer
\* of the server gives a list, empty or not: neither comes before the phone's
\* position was known (now_showing_api.dart 9-56; movieNow_bloc.dart 12-20).
HomeInv ==
  /\ TypeOK
  /\ \A i \in 1 .. Len(fetches) : fetches[i].stage = "request" => placed
  /\ (result \/ bloc.st = "StateLoaded") => placed
==========================================================================
