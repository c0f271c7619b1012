------------------------- MODULE HomeFilmsProofs -------------------------
(***************************************************************************)
(* Proofs about HomeFilms, for any number of requests and events: the home *)
(* page shows the list the library has, and none before the phone's        *)
(* position was known.                                                     *)
(***************************************************************************)
EXTENDS HomeFilms, SequenceTheorems, TLAPS

\* A new request joins the others.
LEMMA FetchJoins ==
  ASSUME NEW s \in Seq(FetchRec), NEW r \in FetchRec
  PROVE  /\ Append(s, r) \in Seq(FetchRec)
         /\ Len(Append(s, r)) = Len(s) + 1
         /\ Append(s, r)[Len(s) + 1] = r
         /\ \A i \in 1 .. Len(s) : Append(s, r)[i] = s[i]
OBVIOUS

\* A request that ends leaves the others as they were, in their order.
LEMMA FetchLeaves ==
  ASSUME fetches \in Seq(FetchRec), NEW i \in 1 .. Len(fetches)
  PROVE  /\ Without(i) \in Seq(FetchRec)
         /\ Len(Without(i)) = Len(fetches) - 1
         /\ \A j \in 1 .. Len(Without(i)) :
              \E m \in 1 .. Len(fetches) : Without(i)[j] = fetches[m]
<1> DEFINE a == SubSeq(fetches, 1, i - 1)
           b == SubSeq(fetches, i + 1, Len(fetches))
<1>0. i \in Nat /\ 1 <= i /\ i <= Len(fetches) /\ Len(fetches) \in Nat
  OBVIOUS
<1>1. /\ a \in Seq(FetchRec)
      /\ Len(a) = i - 1
      /\ \A j \in 1 .. (i - 1) : a[j] = fetches[j]
  BY <1>0
<1>2. /\ b \in Seq(FetchRec)
      /\ Len(b) = Len(fetches) - i
      /\ \A j \in 1 .. (Len(fetches) - i) : b[j] = fetches[i + j]
  BY <1>0
<1>3. Without(i) = a \o b
  BY DEF Without
<1> HIDE DEF a, b
<1>4. /\ a \o b \in Seq(FetchRec)
      /\ Len(a \o b) = Len(a) + Len(b)
      /\ \A j \in 1 .. (Len(a) + Len(b)) :
           (a \o b)[j] = IF j <= Len(a) THEN a[j] ELSE b[j - Len(a)]
  BY <1>1, <1>2, ConcatProperties
<1>5. Len(Without(i)) = Len(fetches) - 1
  BY <1>0, <1>1, <1>2, <1>3, <1>4
<1>6. ASSUME NEW j \in 1 .. Len(Without(i))
      PROVE  \E m \in 1 .. Len(fetches) : Without(i)[j] = fetches[m]
  <2>1. j \in Nat /\ 1 <= j /\ j <= Len(fetches) - 1
    BY <1>0, <1>5
  <2>2. Without(i)[j] = IF j <= i - 1 THEN a[j] ELSE b[j - (i - 1)]
    BY <1>0, <1>1, <1>2, <1>3, <1>4, <2>1
  <2>3. CASE j <= i - 1
    <3>1. Without(i)[j] = fetches[j]
      BY <1>0, <1>1, <2>1, <2>2, <2>3
    <3> QED
      BY <1>0, <2>1, <3>1
  <2>4. CASE ~ (j <= i - 1)
    <3>1. j - (i - 1) \in 1 .. (Len(fetches) - i)
      BY <1>0, <2>1, <2>4
    <3>2. b[j - (i - 1)] = fetches[i + (j - (i - 1))] /\ i + (j - (i - 1)) = j + 1
      BY <1>0, <1>2, <2>1, <3>1
    <3>3. Without(i)[j] = fetches[j + 1]
      BY <2>2, <2>4, <3>2
    <3> QED
      BY <1>0, <2>1, <3>3
  <2> QED
    BY <2>3, <2>4
<1> QED
  BY <1>3, <1>4, <1>5, <1>6

\* Every variable keeps its type, with at most MaxFetches handlers in progress
\* (movieNow_bloc.dart 8-21, now_showing_api.dart 7).
THEOREM HomeTypes == Spec => []TypeOK
<1>0. NewFetch \in FetchRec
  BY DEF NewFetch, FetchRec
<1>1. Init => TypeOK
  <2> SUFFICES ASSUME Init PROVE TypeOK
    OBVIOUS
  <2>1. events \in Seq(BOOLEAN)
    <3>1. << >> \in Seq(BOOLEAN) /\ << TRUE >> \in Seq(BOOLEAN)
      OBVIOUS
    <3> QED
      BY <3>1, Zenon DEF Init
  <2>2. fetches \in Seq(FetchRec) /\ Len(fetches) = 1
    BY <1>0 DEF Init
  <2>3. Len(fetches) <= MaxFetches
    BY <2>2, BoundAssumption
  <2> QED
    BY <2>1, <2>2, <2>3 DEF Init, TypeOK, MovieNowState
<1>2. ASSUME TypeOK, [Next]_vars
      PROVE  TypeOK'
  <2>0. /\ fetches \in Seq(FetchRec)
        /\ Len(fetches) \in Nat
        /\ Len(fetches) <= MaxFetches
        /\ MaxFetches \in Nat
    BY <1>2, BoundAssumption DEF TypeOK
  <2>1. CASE NetChange
    <3>1. \A i \in 1 .. Len(fetches) :
            [fetches[i] EXCEPT !.cut = @ \/ fetches[i].stage = "request"] \in FetchRec
      <4>1. \A i \in 1 .. Len(fetches) : fetches[i] \in FetchRec
        BY <2>0
      <4>2. \A r \in FetchRec : [r EXCEPT !.cut = @ \/ r.stage = "request"] \in FetchRec
        BY DEF FetchRec
      <4> QED
        BY <4>1, <4>2
    <3>2. fetches' \in [1 .. Len(fetches) -> FetchRec]
      BY <2>1, <3>1 DEF NetChange
    <3>3. fetches' \in Seq(FetchRec) /\ Len(fetches') = Len(fetches)
      BY <2>0, <3>2
    <3>4. events' \in Seq(BOOLEAN) /\ net' \in BOOLEAN
      BY <1>2, <2>1 DEF NetChange, TypeOK
    <3> QED
      BY <1>2, <2>1, <3>3, <3>4 DEF TypeOK, NetChange, modeVars
  <2>2. CASE LocationChange
    BY <1>2, <2>2 DEF TypeOK, LocationChange, modeVars
  <2>3. ASSUME FetchMovieNow
        PROVE  fetches' \in Seq(FetchRec) /\ Len(fetches') <= MaxFetches
    BY <1>0, <2>0, <2>3, FetchJoins DEF FetchMovieNow
  <2>4. CASE Hear
    <3>1. events' \in Seq(BOOLEAN) /\ heard' \in BOOLEAN
      <4>1. events \in Seq(BOOLEAN) /\ events # << >>
        BY <1>2, <2>4 DEF Hear, TypeOK
      <4>2. Tail(events) \in Seq(BOOLEAN) /\ Head(events) \in BOOLEAN
        BY <4>1, HeadTailProperties
      <4> QED
        BY <2>4, <4>2, Zenon DEF Hear
    <3>2. fetches' \in Seq(FetchRec) /\ Len(fetches') <= MaxFetches
      BY <2>0, <2>3, <2>4 DEF Hear
    <3> QED
      BY <1>2, <2>4, <3>1, <3>2 DEF TypeOK, Hear, modeVars
  <2>5. CASE Refresh
    BY <1>2, <2>3, <2>5 DEF TypeOK, Refresh, modeVars
  <2>6. ASSUME NEW i \in 1 .. MaxFetches, Answer(i)
        PROVE  TypeOK'
    <3>0. i \in 1 .. Len(fetches)
      BY <2>0, <2>6 DEF Answer
    <3>1. CASE Placed(i)
      <4>1. [stage |-> "request", cut |-> ~ net] \in FetchRec
        BY <1>2 DEF FetchRec, TypeOK
      <4>2. fetches' \in Seq(FetchRec) /\ Len(fetches') = Len(fetches)
        BY <2>0, <3>0, <3>1, <4>1 DEF Placed
      <4> QED
        BY <1>2, <3>1, <4>2 DEF TypeOK, Placed, modeVars
    <3>2. ASSUME fetches' = Without(i)
          PROVE  fetches' \in Seq(FetchRec) /\ Len(fetches') <= MaxFetches
      BY <2>0, <3>0, <3>2, FetchLeaves
    <3>3. CASE Status200(i)
      <4>1. result' \in BOOLEAN /\ bloc' \in MovieNowState
        BY <3>3 DEF Status200, EmitLoaded, MovieNowState
      <4> QED
        BY <1>2, <3>2, <3>3, <4>1 DEF TypeOK, Status200, EmitLoaded, modeVars
    <3>4. CASE OtherStatus(i)
      <4>1. bloc' \in MovieNowState
        BY <1>2, <3>4 DEF OtherStatus, EmitLoaded, MovieNowState, TypeOK
      <4> QED
        BY <1>2, <3>2, <3>4, <4>1 DEF TypeOK, OtherStatus, EmitLoaded, modeVars
    <3>5. CASE Throws(i)
      <4>1. bloc' \in MovieNowState
        BY <3>5 DEF Throws, MovieNowState
      <4> QED
        BY <1>2, <3>2, <3>5, <4>1 DEF TypeOK, Throws, modeVars
    <3> QED
      BY <2>6, <3>1, <3>3, <3>4, <3>5 DEF Answer
  <2>7. CASE UNCHANGED vars
    BY <1>2, <2>7 DEF TypeOK, vars
  <2> QED
    BY <1>2, <2>1, <2>2, <2>4, <2>5, <2>6, <2>7 DEF Next
<1> QED
  BY <1>1, <1>2, PTL DEF Spec
--------------------------------------------------------------------------
\* A list that came is not lost to a later error status: whatever handler ends
\* last, the home page shows the list the library has, however many handlers
\* overlap (now_showing_api.dart 40-56; movieNow_bloc.dart 12-20).
THEOREM FilmsAreKept == Spec => []FilmsKept
<1>1. Init => FilmsKept
  BY DEF Init, FilmsKept
<1>2. FilmsKept /\ [Next]_vars => FilmsKept'
  <2> SUFFICES ASSUME FilmsKept, [Next]_vars
               PROVE  FilmsKept'
    OBVIOUS
  <2>1. ASSUME NEW i \in 1 .. MaxFetches, Answer(i)
        PROVE  FilmsKept'
    <3>1. CASE Placed(i)
      BY <3>1 DEF FilmsKept, Placed
    <3>2. CASE Status200(i)
      BY <3>2 DEF FilmsKept, Status200, EmitLoaded
    <3>3. CASE OtherStatus(i)
      BY <3>3 DEF FilmsKept, OtherStatus, EmitLoaded
    <3>4. CASE Throws(i)
      BY <3>4 DEF FilmsKept, Throws
    <3> QED
      BY <2>1, <3>1, <3>2, <3>3, <3>4 DEF Answer
  <2>2. CASE NetChange \/ LocationChange \/ Hear \/ Refresh \/ UNCHANGED vars
    BY <2>2 DEF FilmsKept, NetChange, LocationChange, Hear, Refresh, vars
  <2> QED
    BY <2>1, <2>2 DEF Next
<1> QED
  BY <1>1, <1>2, PTL DEF Spec

\* No request and no list before the phone's position was known, whatever
\* position, connection and handlers do (now_showing_api.dart 9-56).
THEOREM HomeInvariant == Spec => []HomeInv
<1>1. TypeOK /\ Init => HomeInv
  <2> SUFFICES ASSUME TypeOK, Init PROVE HomeInv
    OBVIOUS
  <2>1. fetches[1].stage = "position" /\ Len(fetches) = 1
    BY DEF Init, NewFetch
  <2> QED
    BY <2>1 DEF Init, HomeInv
<1>2. TypeOK /\ TypeOK' /\ HomeInv /\ [Next]_vars => HomeInv'
  <2> SUFFICES ASSUME TypeOK, TypeOK', HomeInv, [Next]_vars
               PROVE  HomeInv'
    OBVIOUS
  <2>0. fetches \in Seq(FetchRec) /\ Len(fetches) \in Nat
    BY DEF TypeOK
  <2>1. CASE NetChange
    <3>1. fetches' = [i \in 1 .. Len(fetches) |->
                        [fetches[i] EXCEPT !.cut = @ \/ fetches[i].stage = "request"]]
      BY <2>1 DEF NetChange
    <3>2. Len(fetches') = Len(fetches)
      BY <2>0, <3>1
    <3>3. \A i \in 1 .. Len(fetches) : fetches[i] \in FetchRec
      BY <2>0
    <3>4. \A i \in 1 .. Len(fetches) : fetches'[i].stage = fetches[i].stage
      BY <3>1, <3>3 DEF FetchRec
    <3> QED
      BY <2>1, <3>2, <3>4 DEF HomeInv, NetChange
  <2>2. ASSUME FetchMovieNow, UNCHANGED placed
        PROVE  \A i \in 1 .. Len(fetches') : fetches'[i].stage = "request" => placed'
    <3>1. NewFetch \in FetchRec /\ NewFetch.stage = "position"
      BY DEF NewFetch, FetchRec
    <3>2. /\ Len(fetches') = Len(fetches) + 1
          /\ fetches'[Len(fetches) + 1] = NewFetch
          /\ \A i \in 1 .. Len(fetches) : fetches'[i] = fetches[i]
      BY <2>0, <2>2, <3>1, FetchJoins DEF FetchMovieNow
    <3>3. \A i \in 1 .. Len(fetches') : i \in 1 .. Len(fetches) \/ i = Len(fetches) + 1
      BY <2>0, <3>2
    <3> QED
      BY <2>2, <3>1, <3>2, <3>3 DEF HomeInv
  <2>3. CASE Hear
    BY <2>2, <2>3 DEF HomeInv, Hear
  <2>4. CASE Refresh
    BY <2>2, <2>4 DEF HomeInv, Refresh
  <2>5. ASSUME NEW i \in 1 .. MaxFetches, Answer(i)
        PROVE  HomeInv'
    <3>0. i \in 1 .. Len(fetches)
      BY <2>0, <2>5, BoundAssumption DEF Answer
    <3>1. CASE Placed(i)
      BY <3>1 DEF HomeInv, Placed
    <3>2. ASSUME fetches' = Without(i), UNCHANGED placed
          PROVE  \A j \in 1 .. Len(fetches') : fetches'[j].stage = "request" => placed'
      BY <2>0, <3>0, <3>2, FetchLeaves DEF HomeInv
    <3>3. CASE Status200(i) \/ OtherStatus(i)
      BY <3>0, <3>2, <3>3 DEF HomeInv, Status200, OtherStatus, EmitLoaded
    <3>4. CASE Throws(i)
      BY <3>2, <3>4 DEF HomeInv, Throws
    <3> QED
      BY <2>5, <3>1, <3>3, <3>4 DEF Answer
  <2>6. CASE LocationChange \/ UNCHANGED vars
    BY <2>6 DEF HomeInv, LocationChange, vars
  <2> QED
    BY <2>1, <2>3, <2>4, <2>5, <2>6 DEF Next
<1> QED
  BY <1>1, <1>2, HomeTypes, PTL DEF Spec

\* No films are shown to a user who never let the app know the position
\* (now_showing_api.dart 11; homeScreen.dart 246-330).
THEOREM FilmsComeAfterPosition == Spec => []FilmsNeedPosition
<1>1. HomeInv => FilmsNeedPosition
  BY DEF HomeInv, FilmsNeedPosition, FilmsShown
<1> QED
  BY <1>1, HomeInvariant, PTL
==========================================================================
