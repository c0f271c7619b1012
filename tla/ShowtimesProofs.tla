------------------------- MODULE ShowtimesProofs -------------------------
(***************************************************************************)
(* Proofs about Showtimes.  If the user waits for the answer before asking *)
(* for another list, and the server answers with a list or not at all, the *)
(* seat screen is opened for a start time of the chosen film and date.     *)
(* Whatever the user and the server do, a spinner has a request behind it  *)
(* and a day gone by is only offered on a page opened before midnight.     *)
(***************************************************************************)
EXTENDS Showtimes, TLAPS

\* A fetch fills one slot with the film and the date it was given, leaves the
\* other slots alone, and sets the bloc to Loading (nearCinema_bloc.dart 13-17).
LEMMA FetchFillsOneSlot ==
  ASSUME TypeOK, NEW f \in Films, NEW d \in 0 .. LastDay, FetchNearCinema(f, d)
  PROVE  /\ fetches' \in [Slots -> FetchRec]
         /\ bloc' \in NearCinemaState
         /\ bloc'.st = "Loading"
         /\ \E j \in Slots : fetches'[j].busy
         /\ \A j \in Slots : \/ fetches'[j] = fetches[j]
                             \/ IsFor(fetches'[j], f, d)
<1> DEFINE new == [busy |-> TRUE, film |-> f, date |-> d]
<1>1. PICK k \in Slots :
        /\ fetches' = [fetches EXCEPT ![k] = new]
        /\ bloc' = [bloc EXCEPT !.st = "Loading"]
  BY DEF FetchNearCinema
<1>2. new \in FetchRec
  BY DEF FetchRec
<1>3. fetches' \in [Slots -> FetchRec]
  BY <1>1, <1>2 DEF TypeOK
<1>4. bloc' \in NearCinemaState /\ bloc'.st = "Loading"
  BY <1>1 DEF TypeOK, NearCinemaState
<1>5. ASSUME NEW j \in Slots
      PROVE  fetches'[j] = fetches[j] \/ IsFor(fetches'[j], f, d)
  BY <1>1 DEF TypeOK, IsFor
<1>6. fetches'[k].busy
  BY <1>1 DEF TypeOK
<1> QED
  BY <1>3, <1>4, <1>5, <1>6

\* An answer with the list l empties one slot and shows l
\* (nearCinema_bloc.dart 17-22).
LEMMA AnswerShowsList ==
  ASSUME TypeOK, NEW k \in Slots, NEW l \in List, EmitLoaded(k, l)
  PROVE  /\ fetches' \in [Slots -> FetchRec]
         /\ bloc' \in NearCinemaState
         /\ bloc'.cinemadata = l
         /\ bloc'.st = "Loaded"
         /\ \A j \in Slots : fetches'[j] = fetches[j] \/ ~ fetches'[j].busy
<1>1. NoFetch \in FetchRec
  BY DayAssumption DEF NoFetch, FetchRec, LastDay
<1>2. /\ fetches' = [fetches EXCEPT ![k] = NoFetch]
      /\ bloc' = [st |-> "Loaded", cinemadata |-> l]
  BY DEF EmitLoaded
<1>3. fetches' \in [Slots -> FetchRec]
  BY <1>1, <1>2 DEF TypeOK
<1>4. \A j \in Slots : fetches'[j] = fetches[j] \/ ~ fetches'[j].busy
  BY <1>2 DEF TypeOK, NoFetch
<1> QED
  BY <1>2, <1>3, <1>4 DEF NearCinemaState

\* Every variable keeps its type, whatever the user and the server do: no
\* date beyond the days a page offers is asked for (cinemas.dart 37-62).
THEOREM ShowtimesTypes == Spec => []TypeOK
<1>1. Init => TypeOK
  <2>1. NoList \in List /\ NoFetch \in FetchRec
    BY DayAssumption DEF NoList, List, NoFetch, FetchRec, LastDay
  <2> QED
    BY <2>1, DayAssumption
    DEF Init, TypeOK, NearCinemaState, Choice, NoChoice, LastDay
<1>2. ASSUME TypeOK, [Next]_vars
      PROVE  TypeOK'
  <2> USE DayAssumption
  <2>0. NoList \in List /\ NoChoice \in Choice /\ NoFetch \in FetchRec
    BY DEF NoList, List, NoChoice, Choice, NoFetch, FetchRec, LastDay
  <2>1. ASSUME NEW f \in Films, OpenCinemas(f)
        PROVE  TypeOK'
    <3>1. today \in 1 .. MaxDay /\ today \in 0 .. LastDay
      BY <1>2 DEF TypeOK, LastDay
    <3>2. FetchNearCinema(f, today)
      BY <2>1 DEF OpenCinemas
    <3>3. fetches' \in [Slots -> FetchRec] /\ bloc' \in NearCinemaState
      BY <1>2, <3>1, <3>2, FetchFillsOneSlot
    <3> QED
      BY <1>2, <2>1, <3>1, <3>3 DEF TypeOK, OpenCinemas, modeVars
  <2>2. ASSUME NEW i \in 0 .. (Window - 1), PickDate(i)
        PROVE  TypeOK'
    <3>1. firstDay + i \in 0 .. LastDay
      BY <1>2 DEF TypeOK, LastDay
    <3>2. FetchNearCinema(film, firstDay + i) /\ film \in Films
      BY <1>2, <2>2 DEF PickDate, TypeOK
    <3>3. fetches' \in [Slots -> FetchRec] /\ bloc' \in NearCinemaState
      BY <1>2, <3>1, <3>2, FetchFillsOneSlot
    <3> QED
      BY <1>2, <2>2, <3>1, <3>3 DEF TypeOK, PickDate, modeVars
  <2>3. ASSUME NEW k \in Slots, Answer(k)
        PROVE  TypeOK'
    <3>1. CASE Status200(k) \/ Status204(k) \/ OtherStatus(k)
      <4>1. result' \in List
        <5>1. fetches[k] \in FetchRec /\ result \in List
          BY <1>2 DEF TypeOK
        <5>2. \A b \in BOOLEAN :
                [film |-> fetches[k].film, date |-> fetches[k].date,
                 shows |-> b] \in List
          BY <5>1 DEF FetchRec, List
        <5>3. CASE Status200(k)
          BY <5>2, <5>3, Zenon DEF Status200
        <5>4. CASE Status204(k)
          BY <5>2, <5>4, Zenon DEF Status204
        <5>5. CASE OtherStatus(k)
          BY <5>1, <5>5 DEF OtherStatus
        <5> QED
          BY <3>1, <5>3, <5>4, <5>5
      <4>2. EmitLoaded(k, result')
        BY <3>1 DEF Status200, Status204, OtherStatus, EmitLoaded
      <4>3. fetches' \in [Slots -> FetchRec] /\ bloc' \in NearCinemaState
        BY <1>2, <4>1, <4>2, AnswerShowsList
      <4> QED
        BY <1>2, <4>1, <4>2, <4>3 DEF TypeOK, EmitLoaded, pageVars, modeVars
    <3>2. CASE Throws(k)
      BY <1>2, <2>0, <3>2 DEF TypeOK, Throws, pageVars, modeVars, NearCinemaState
    <3> QED
      BY <2>3, <3>1, <3>2 DEF Answer
  <2>4. CASE TapShowing
    BY <1>2, <2>4 DEF TypeOK, TapShowing, pageVars, modeVars, NearCinemaState, Choice
  <2>5. CASE BackFromSeats
    BY <1>2, <2>0, <2>5 DEF TypeOK, BackFromSeats, pageVars, modeVars
  <2>6. CASE CloseCinemas
    BY <1>2, <2>0, <2>6 DEF TypeOK, CloseCinemas, LastDay, modeVars
  <2>7. CASE Midnight
    BY <1>2, <2>7 DEF TypeOK, Midnight, pageVars, modeVars
  <2>8. CASE UNCHANGED vars
    BY <1>2, <2>8 DEF TypeOK, vars
  <2> QED
    BY <1>2, <2>1, <2>2, <2>3, <2>4, <2>5, <2>6, <2>7, <2>8 DEF Next
<1> QED
  BY <1>1, <1>2, PTL DEF Spec
--------------------------------------------------------------------------
\* A spinner has its request, the picked date is one of the page's days, and
\* page, requests, list and seat screen stay with one film and one date when
\* the user waits and no error status comes (cinemas.dart 37-62, 235-260,
\* 427-457; nearCinema_bloc.dart 13-27).
THEOREM ShowtimesInvariant == Spec => []ShowtimesInv
<1> USE DayAssumption, FilmAssumption
<1>1. Init => ShowtimesInv
  BY DEF Init, ShowtimesInv, SpinnerHasRequest, DateOffered, RequestOfPage, ListOfChosenDate,
         ChoiceOfPage
<1>2. ASSUME TypeOK, TypeOK', ShowtimesInv, [Next]_vars
      PROVE  ShowtimesInv'
  <2>0. SpinnerHasRequest /\ DateOffered /\ RequestOfPage /\ ListOfChosenDate /\ ChoiceOfPage
    BY <1>2 DEF ShowtimesInv
  <2> USE DEF ShowtimesInv
  <2>1. ASSUME NEW f \in Films, OpenCinemas(f)
        PROVE  ShowtimesInv'
    <3>1. /\ film' = f /\ firstDay' = today /\ mydate' = today
          /\ chosen' = chosen
          /\ today \in 0 .. LastDay
          /\ film = NoFilm
          /\ patient => \A k \in Slots : ~ fetches[k].busy
          /\ UNCHANGED modeVars
          /\ FetchNearCinema(f, today)
      BY <1>2, <2>1 DEF OpenCinemas, MayAsk, TypeOK, LastDay
    <3>2. /\ bloc'.st = "Loading"
          /\ \E j \in Slots : fetches'[j].busy
          /\ \A j \in Slots : \/ fetches'[j] = fetches[j]
                              \/ IsFor(fetches'[j], f, today)
      BY <1>2, <3>1, FetchFillsOneSlot
    <3>3. DateOffered'
      BY <1>2, <3>1 DEF DateOffered, TypeOK
    <3>4. RequestOfPage'
      BY <3>1, <3>2 DEF RequestOfPage, IsFor, modeVars
    <3>5. ListOfChosenDate'
      BY <3>2 DEF ListOfChosenDate
    <3>6. ChoiceOfPage'
      BY <2>0, <3>1 DEF ChoiceOfPage, Calm, modeVars
    <3>7. SpinnerHasRequest'
      BY <3>2 DEF SpinnerHasRequest
    <3> QED
      BY <3>3, <3>4, <3>5, <3>6, <3>7
  <2>2. ASSUME NEW i \in 0 .. (Window - 1), PickDate(i)
        PROVE  ShowtimesInv'
    <3> DEFINE d == firstDay + i
    <3>1. /\ film' = film /\ firstDay' = firstDay /\ mydate' = d
          /\ chosen = NoChoice /\ chosen' = chosen
          /\ film \in Films
          /\ d \in 0 .. LastDay
          /\ patient => \A k \in Slots : ~ fetches[k].busy
          /\ UNCHANGED modeVars
          /\ FetchNearCinema(film, d)
      BY <1>2, <2>2 DEF PickDate, MayAsk, TypeOK, LastDay
    <3>2. /\ bloc'.st = "Loading"
          /\ \E j \in Slots : fetches'[j].busy
          /\ \A j \in Slots : \/ fetches'[j] = fetches[j]
                              \/ IsFor(fetches'[j], film, d)
      BY <1>2, <3>1, FetchFillsOneSlot
    <3>3. DateOffered'
      BY <1>2, <3>1 DEF DateOffered, TypeOK
    <3>4. RequestOfPage'
      BY <3>1, <3>2 DEF RequestOfPage, IsFor, modeVars
    <3>5. ListOfChosenDate'
      BY <3>2 DEF ListOfChosenDate
    <3>6. ChoiceOfPage'
      BY <3>1 DEF ChoiceOfPage, NoChoice
    <3>7. SpinnerHasRequest'
      BY <3>2 DEF SpinnerHasRequest
    <3> QED
      BY <3>3, <3>4, <3>5, <3>6, <3>7
  <2>3. ASSUME NEW k \in Slots, Answer(k)
        PROVE  ShowtimesInv'
    <3>1. CASE Status200(k) \/ Status204(k) \/ OtherStatus(k)
      <4>1. /\ fetches[k].busy
            /\ Calm => IsFor(result', fetches[k].film, fetches[k].date)
            /\ EmitLoaded(k, result')
        <5>1. CASE Status200(k) \/ Status204(k)
          BY <5>1 DEF Status200, Status204, IsFor
        <5>2. CASE OtherStatus(k)
          BY <5>2 DEF OtherStatus, EmitLoaded, Calm
        <5> QED
          BY <3>1, <5>1, <5>2
      <4>2. UNCHANGED <<patient, mayFail, film, firstDay, mydate, chosen>>
        BY <4>1 DEF EmitLoaded, pageVars, modeVars
      <4>3. /\ bloc'.cinemadata = result'
            /\ bloc'.st = "Loaded"
            /\ \A j \in Slots : fetches'[j] = fetches[j] \/ ~ fetches'[j].busy
        BY <1>2, <4>1, AnswerShowsList DEF TypeOK
      <4>4. ListOfChosenDate'
        BY <2>0, <4>1, <4>2, <4>3
        DEF ListOfChosenDate, RequestOfPage, IsFor, Calm
      <4>5. SpinnerHasRequest' /\ DateOffered' /\ RequestOfPage'
        BY <2>0, <4>2, <4>3 DEF SpinnerHasRequest, DateOffered, RequestOfPage, IsFor
      <4>6. ChoiceOfPage'
        BY <2>0, <4>2 DEF ChoiceOfPage, IsFor, Calm
      <4> QED
        BY <4>4, <4>5, <4>6
    <3>2. CASE Throws(k)
      <4>1. /\ UNCHANGED <<patient, mayFail, film, firstDay, mydate, chosen>>
            /\ bloc'.st = "Error"
            /\ \A j \in Slots : fetches'[j] = fetches[j] \/ ~ fetches'[j].busy
        BY <1>2, <3>2
        DEF Throws, pageVars, modeVars, TypeOK, NearCinemaState, NoFetch
      <4> QED
        BY <2>0, <4>1 DEF SpinnerHasRequest, DateOffered, RequestOfPage,
                          ListOfChosenDate, ChoiceOfPage, IsFor, Calm
    <3> QED
      BY <2>3, <3>1, <3>2 DEF Answer
  <2>4. CASE TapShowing
    <3>1. /\ UNCHANGED <<patient, mayFail, film, firstDay, mydate, bloc, fetches>>
          /\ film # NoFilm /\ bloc.st = "Loaded"
          /\ chosen' = [film |-> film, date |-> mydate,
                        slot |-> bloc.cinemadata]
      BY <2>4 DEF TapShowing, pageVars, modeVars
    <3>2. ChoiceOfPage'
      BY <2>0, <3>1 DEF ChoiceOfPage, ListOfChosenDate, IsFor, Calm
    <3> QED
      BY <2>0, <3>1, <3>2 DEF SpinnerHasRequest, DateOffered, RequestOfPage,
                              ListOfChosenDate, IsFor, Calm
  <2> USE DEF SpinnerHasRequest, DateOffered, RequestOfPage, ListOfChosenDate,
              ChoiceOfPage, Calm, IsFor, NoChoice
  <2>5. CASE BackFromSeats
    BY <2>0, <2>5 DEF BackFromSeats, pageVars, modeVars
  <2>6. CASE CloseCinemas
    BY <2>0, <2>6 DEF CloseCinemas, modeVars
  <2>7. CASE Midnight
    BY <2>0, <2>7 DEF Midnight, pageVars, modeVars
  <2>8. CASE UNCHANGED vars
    BY <2>0, <2>8 DEF vars
  <2> QED
    BY <1>2, <2>1, <2>2, <2>3, <2>4, <2>5, <2>6, <2>7, <2>8 DEF Next
<1> QED
  BY <1>1, <1>2, ShowtimesTypes, PTL DEF Spec

\* The seat screen gets a start time of its own film and date
\* (cinemas.dart 427-457), if the user waits and no error status comes.
THEOREM SlotIsOfChosenShow == Spec => []SlotOfChosenShow
<1>1. ShowtimesInv => SlotOfChosenShow
  BY DEF ShowtimesInv, ChoiceOfPage, SlotOfChosenShow, IsFor
<1> QED
  BY <1>1, ShowtimesInvariant, PTL

\* Only a page opened before midnight leads to a show of a day gone by
\* (cinemas.dart 37-62, 235-260): a page's dates start with its first day.
THEOREM PastOnlyAfterMidnight == Spec => []PastOnlyOnOldPage
<1>1. TypeOK /\ ShowtimesInv => PastOnlyOnOldPage
  <2> SUFFICES ASSUME TypeOK, ShowtimesInv, chosen # NoChoice, chosen.date < today
               PROVE  firstDay < today
    BY DEF PastOnlyOnOldPage
  <2>1. film # NoFilm /\ chosen.date = mydate
    BY DEF ShowtimesInv, ChoiceOfPage, IsFor
  <2>2. firstDay <= mydate /\ firstDay \in Nat /\ mydate \in Nat /\ today \in Nat
    BY <2>1, DayAssumption DEF ShowtimesInv, DateOffered, TypeOK, LastDay
  <2> QED
    BY <2>1, <2>2
<1> QED
  BY <1>1, ShowtimesTypes, ShowtimesInvariant, PTL
==========================================================================
