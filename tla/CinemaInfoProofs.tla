------------------------- MODULE CinemaInfoProofs -------------------------
(***************************************************************************)
(* Proofs about CinemaInfo, for any number of cinemas and calls.  A user   *)
(* who waits sees one cinema on a sheet, and with a server without error   *)
(* statuses the one that was tapped.  On the pages that keep distance to   *)
(* themselves the visible sheet is of one cinema however calls overlap.    *)
(***************************************************************************)
EXTENDS CinemaInfo, TLAPS

--------------------------------------------------------------------------
(* Calls and sheets.                                                       *)

\* No call is a call record, and it is in no stage.
LEMMA NoCallFacts ==
  NoCall \in CallRec /\ NoCall.stage = "none" /\ ~ NoCall.alive
BY DEF NoCall, CallRec, Pages

\* To lose its page changes nothing for a call that is none.
LEMMA NoCallStays == [NoCall EXCEPT !.alive = FALSE] = NoCall
<1>1. ASSUME NEW r \in CallRec, r.alive = FALSE
      PROVE  [r EXCEPT !.alive = FALSE] = r
  BY <1>1 DEF CallRec
<1>2. NoCall.alive = FALSE
  BY DEF NoCall
<1> QED
  BY <1>1, <1>2, NoCallFacts

\* A sheet put up goes on top of the others.
LEMMA SheetOnTop ==
  ASSUME NEW s \in Seq(Sheet), NEW t \in Sheet
  PROVE  /\ Append(s, t) \in Seq(Sheet)
         /\ Append(s, t) # <<>>
         /\ Len(Append(s, t)) = Len(s) + 1
         /\ Append(s, t)[Len(s) + 1] = t
         /\ \A i \in 1 .. Len(s) : Append(s, t)[i] = s[i]
OBVIOUS

\* Where there is a sheet, there is one on top.
LEMMA TopIsSheet ==
  ASSUME NEW s \in Seq(Sheet), s # <<>>
  PROVE  Len(s) \in Nat /\ Len(s) >= 1 /\ s[Len(s)] \in Sheet
OBVIOUS

\* A call that goes on with the details of cinema c ends, and puts up a sheet
\* with them if its page is mounted (cinemas.dart 65-77).
LEMMA ShowSheetFacts ==
  ASSUME TypeOK, CallInv, NEW k \in Slots, NEW c \in Cinemas,
         calls[k].stage = "details", ShowSheet(k, c)
  PROVE  LET t == [tapped |-> calls[k].cinema, cinema |-> c, distance |-> NoCinema]
         IN /\ calls' = [calls EXCEPT ![k] = NoCall]
            /\ calls' \in [Slots -> CallRec]
            /\ distance' \in [Pages -> Cinemas \cup {NoCinema}]
            /\ sheets' \in Seq(Sheet)
            /\ drawn' \in BOOLEAN
            /\ t \in Sheet
            /\ calls[k].alive => /\ sheets' = Append(sheets, t)
                                 /\ ~ drawn'
                                 /\ distance'[page] = c
                                 /\ calls[k].page = page
            /\ ~ calls[k].alive => /\ sheets' = sheets
                                   /\ drawn' = drawn
                                   /\ page = "own" => distance'["own"] = distance["own"]
<1> DEFINE t == [tapped |-> calls[k].cinema, cinema |-> c, distance |-> NoCinema]
<1>1. calls[k] \in CallRec /\ calls[k].cinema \in Cinemas
  BY DEF TypeOK, CallInv
<1>2. calls[k].alive => calls[k].page = page
  BY DEF CallInv
<1>3. t \in Sheet
  BY <1>1 DEF Sheet
<1>4. calls' = [calls EXCEPT ![k] = NoCall] /\ calls' \in [Slots -> CallRec]
  BY NoCallFacts DEF TypeOK, ShowSheet
<1>5. /\ distance' \in [Pages -> Cinemas \cup {NoCinema}]
      /\ calls[k].alive => distance'[page] = c
      /\ (~ calls[k].alive /\ page = "own") => distance'["own"] = distance["own"]
  BY <1>1, <1>2 DEF TypeOK, ShowSheet, CallRec, Pages
<1>6. /\ sheets' = IF calls[k].alive THEN Append(sheets, t) ELSE sheets
      /\ drawn' = (drawn /\ ~ calls[k].alive)
  BY DEF ShowSheet
<1> HIDE DEF t
<1>7. sheets' \in Seq(Sheet) /\ drawn' \in BOOLEAN
  BY <1>3, <1>6, SheetOnTop DEF TypeOK
<1>8. drawn' = drawn \/ calls[k].alive
  BY <1>6 DEF TypeOK
<1> QED
  BY <1>1, <1>2, <1>3, <1>4, <1>5, <1>6, <1>7, <1>8 DEF t

\* A status of the server ends in a sheet for the cinema asked for, or, after an
\* error status, for the one asked for last (cinema_detail.dart 46-65).
LEMMA StatusShows ==
  ASSUME TypeOK, CallInv, NEW k \in Slots, Status200(k) \/ OtherStatus(k)
  PROVE  \E c \in Cinemas :
           /\ ShowSheet(k, c)
           /\ cinemadata' = c
           /\ calls[k].stage = "details"
           /\ honest => c = calls[k].cinema
           /\ UNCHANGED <<patient, honest, page>>
<1>1. calls[k].stage = "details" /\ calls[k].cinema \in Cinemas
  BY DEF Status200, OtherStatus, CallInv
<1>2. CASE Status200(k)
  <2>1. /\ ShowSheet(k, calls[k].cinema)
        /\ cinemadata' = calls[k].cinema
        /\ UNCHANGED <<patient, honest, page>>
    BY <1>2 DEF Status200, modeVars
  <2> QED
    BY <1>1, <2>1
<1>3. CASE OtherStatus(k)
  <2>1. /\ ShowSheet(k, cinemadata)
        /\ cinemadata' = cinemadata
        /\ ~ honest
        /\ cinemadata \in Cinemas
        /\ UNCHANGED <<patient, honest, page>>
    BY <1>3 DEF OtherStatus, modeVars, TypeOK
  <2> QED
    BY <1>1, <2>1
<1> QED
  BY <1>2, <1>3
--------------------------------------------------------------------------
(* Types.                                                                  *)

\* A step keeps the types, if the calls in progress are for cinemas.
LEMMA TypeStep ==
  ASSUME TypeOK, CallInv, [Next]_vars
  PROVE  TypeOK'
<1>1. ASSUME NEW c \in Cinemas, TapInfo(c)
      PROVE  TypeOK'
  <2>1. PICK k \in Slots, s \in {"check", "details"} :
          calls' = [calls EXCEPT ![k] =
            [stage |-> s, cinema |-> c, page |-> page, alive |-> TRUE]]
    BY <1>1 DEF TapInfo
  <2>2. [stage |-> s, cinema |-> c, page |-> page, alive |-> TRUE] \in CallRec
    BY DEF CallRec, TypeOK
  <2> QED
    BY <1>1, <2>1, <2>2 DEF TypeOK, TapInfo, modeVars
<1>2. ASSUME NEW k \in Slots, Connected(k) \/ CallEnds(k)
      PROVE  TypeOK'
  BY <1>2, NoCallFacts DEF TypeOK, Connected, CallEnds, CallRec, modeVars
<1>3. ASSUME NEW k \in Slots, Status200(k) \/ OtherStatus(k)
      PROVE  TypeOK'
  <2>1. PICK c \in Cinemas : /\ ShowSheet(k, c)
                             /\ cinemadata' = c
                             /\ calls[k].stage = "details"
                             /\ UNCHANGED <<patient, honest, page>>
    BY <1>3, StatusShows
  <2> QED
    BY <2>1, ShowSheetFacts DEF TypeOK
<1>4. CASE Draw
  <2>1. /\ sheets' = [i \in 1 .. Len(sheets) |->
                        IF sheets[i].distance = NoCinema
                          THEN [sheets[i] EXCEPT !.distance = distance[page]]
                          ELSE sheets[i]]
        /\ drawn' = TRUE
        /\ UNCHANGED <<patient, honest, calls, cinemadata, page, distance>>
    BY <1>4 DEF Draw, modeVars
  <2>2. \A i \in 1 .. Len(sheets) :
          /\ sheets[i] \in Sheet
          /\ [sheets[i] EXCEPT !.distance = distance[page]] \in Sheet
    <3>1. \A i \in 1 .. Len(sheets) : sheets[i] \in Sheet
      BY DEF TypeOK
    <3>2. distance[page] \in Cinemas \cup {NoCinema}
      BY DEF TypeOK
    <3>3. \A t \in Sheet : [t EXCEPT !.distance = distance[page]] \in Sheet
      BY <3>2 DEF Sheet
    <3> QED
      BY <3>1, <3>3
  <2>3. sheets' \in [1 .. Len(sheets) -> Sheet] /\ Len(sheets) \in Nat
    BY <2>1, <2>2 DEF TypeOK
  <2>4. sheets' \in Seq(Sheet)
    BY <2>3
  <2> QED
    BY <2>1, <2>4 DEF TypeOK
<1>5. CASE CloseSheet
  <2>1. sheets' \in Seq(Sheet)
    BY <1>5 DEF CloseSheet, TypeOK
  <2> QED
    BY <1>5, <2>1 DEF CloseSheet, TypeOK, modeVars
<1>6. ASSUME NEW p \in Pages, ChangePage(p)
      PROVE  TypeOK'
  BY <1>6 DEF TypeOK, ChangePage, CallRec, modeVars, Pages
<1>7. CASE UNCHANGED vars
  BY <1>7 DEF TypeOK, vars
<1> QED
  BY <1>1, <1>2, <1>3, <1>4, <1>5, <1>6, <1>7 DEF Next, Answer
--------------------------------------------------------------------------
(* The invariant.                                                          *)

\* Whatever the user and the server do, a call is for a cinema, and for the page
\* on display while that is mounted.
LEMMA CallStep ==
  ASSUME TypeOK, CallInv, [Next]_vars
  PROVE  CallInv'
<1>1. ASSUME NEW c \in Cinemas, TapInfo(c)
      PROVE  CallInv'
  <2>1. PICK k \in Slots, s \in {"check", "details"} :
          /\ calls' = [calls EXCEPT ![k] =
               [stage |-> s, cinema |-> c, page |-> page, alive |-> TRUE]]
          /\ page' = page
    BY <1>1 DEF TapInfo
  <2> QED
    BY <2>1 DEF TypeOK, CallInv
<1>2. ASSUME NEW k \in Slots, Connected(k) \/ CallEnds(k)
      PROVE  CallInv'
  <2>1. page' = page /\ \A j \in Slots \ {k} : calls'[j] = calls[j]
    BY <1>2 DEF TypeOK, Connected, CallEnds
  <2>2. CASE Connected(k)
    <3>1. calls[k] \in CallRec /\ calls[k].stage = "check"
      BY <2>2 DEF TypeOK, Connected
    <3>2. calls'[k] = [calls[k] EXCEPT !.stage = "details"]
      BY <2>2 DEF TypeOK, Connected
    <3>3. calls[k].cinema \in Cinemas /\ (calls[k].alive => calls[k].page = page)
      BY <3>1 DEF CallInv
    <3>4. /\ calls'[k].cinema \in Cinemas
          /\ calls'[k].alive => calls'[k].page = page
      BY <3>1, <3>2, <3>3 DEF CallRec
    <3> QED
      BY <2>1, <3>4 DEF CallInv
  <2>3. CASE CallEnds(k)
    <3>1. calls'[k] = NoCall
      BY <2>3 DEF TypeOK, CallEnds
    <3> QED
      BY <2>1, <3>1, NoCallFacts DEF CallInv
  <2> QED
    BY <1>2, <2>2, <2>3
<1>3. ASSUME NEW k \in Slots, Status200(k) \/ OtherStatus(k)
      PROVE  CallInv'
  <2>1. calls' = [calls EXCEPT ![k] = NoCall] /\ page' = page
    BY <1>3 DEF Status200, OtherStatus, ShowSheet
  <2> QED
    BY <2>1, NoCallFacts DEF TypeOK, CallInv
<1>4. CASE Draw \/ CloseSheet \/ UNCHANGED vars
  BY <1>4 DEF CallInv, Draw, CloseSheet, vars
<1>5. ASSUME NEW p \in Pages, ChangePage(p)
      PROVE  CallInv'
  BY <1>5 DEF TypeOK, CallInv, CallRec, ChangePage
<1> QED
  BY <1>1, <1>2, <1>3, <1>4, <1>5 DEF Next, Answer

\* Whatever the user and the server do, a sheet not yet drawn is on top, and the
\* page's own field is of its cinema.
LEMMA FrameStep ==
  ASSUME TypeOK, CallInv, FrameInv, [Next]_vars
  PROVE  FrameInv'
<1>1. CASE \/ \E c \in Cinemas : TapInfo(c)
           \/ \E k \in Slots : Connected(k) \/ CallEnds(k)
           \/ UNCHANGED vars
  BY <1>1 DEF FrameInv, TopSheet, TapInfo, Connected, CallEnds, vars
<1>2. ASSUME NEW k \in Slots, Status200(k) \/ OtherStatus(k)
      PROVE  FrameInv'
  <2>1. PICK c \in Cinemas : /\ ShowSheet(k, c)
                             /\ calls[k].stage = "details"
                             /\ UNCHANGED page
    BY <1>2, StatusShows
  <2>2. CASE calls[k].alive
    <3> DEFINE t == [tapped |-> calls[k].cinema, cinema |-> c, distance |-> NoCinema]
    <3>1. sheets' = Append(sheets, t) /\ t \in Sheet /\ distance'[page] = c
      BY <2>1, <2>2, ShowSheetFacts
    <3>2. t.distance = NoCinema /\ t.cinema = c
      OBVIOUS
    <3> HIDE DEF t
    <3>3. TopSheet' = t /\ sheets' # <<>>
      BY <3>1, SheetOnTop DEF TypeOK, TopSheet
    <3> QED
      BY <2>1, <3>1, <3>2, <3>3 DEF FrameInv
  <2>3. CASE ~ calls[k].alive
    <3>1. /\ UNCHANGED <<sheets, drawn, page>>
          /\ page = "own" => distance'["own"] = distance["own"]
      BY <2>1, <2>3, ShowSheetFacts
    <3> QED
      BY <3>1 DEF FrameInv, TopSheet
  <2> QED
    BY <2>2, <2>3
<1>3. CASE Draw \/ CloseSheet
  BY <1>3 DEF FrameInv, Draw, CloseSheet
<1>4. ASSUME NEW p \in Pages, ChangePage(p)
      PROVE  FrameInv'
  BY <1>4 DEF FrameInv, ChangePage
<1> QED
  BY <1>1, <1>2, <1>3, <1>4 DEF Next, Answer

\* A user who waits has one call or one sheet, and the sheet is of the cinema
\* whose distance the page holds.
LEMMA WaitStep ==
  ASSUME TypeOK, CallInv, FrameInv, WaitInv, [Next]_vars
  PROVE  WaitInv'
<1> SUFFICES ASSUME patient'
             PROVE  WaitInv'
  BY DEF WaitInv
<1>0. patient
  BY DEF Next, Answer, TapInfo, Connected, CallEnds, Status200, OtherStatus, Draw,
         CloseSheet, ChangePage, modeVars, vars
<1>a. /\ \A k \in Slots : calls[k] # NoCall =>
           sheets = <<>> /\ \A j \in Slots : calls[j] # NoCall => j = k
      /\ Len(sheets) <= 1
      /\ \A i \in 1 .. Len(sheets) :
           /\ ~ drawn => distance[page] = sheets[i].cinema
           /\ drawn => sheets[i].distance = sheets[i].cinema
           /\ honest => sheets[i].cinema = sheets[i].tapped
  BY <1>0 DEF WaitInv
<1>1. ASSUME NEW c \in Cinemas, TapInfo(c)
      PROVE  WaitInv'
  <2>1. PICK k \in Slots, r \in CallRec : calls' = [calls EXCEPT ![k] = r]
    <3>1. PICK k \in Slots, s \in {"check", "details"} :
            calls' = [calls EXCEPT ![k] =
              [stage |-> s, cinema |-> c, page |-> page, alive |-> TRUE]]
      BY <1>1 DEF TapInfo
    <3>2. [stage |-> s, cinema |-> c, page |-> page, alive |-> TRUE] \in CallRec
      BY DEF CallRec, TypeOK
    <3> QED
      BY <3>1, <3>2
  <2>2. /\ sheets' = <<>>
        /\ Len(sheets') = 0
        /\ \A j \in Slots : calls[j] = NoCall
    BY <1>0, <1>1 DEF TapInfo
  <2>3. \A j \in Slots : calls'[j] # NoCall => j = k
    BY <2>1, <2>2 DEF TypeOK
  <2> QED
    BY <2>2, <2>3 DEF WaitInv
<1>2. ASSUME NEW k \in Slots, Connected(k) \/ CallEnds(k)
      PROVE  WaitInv'
  <2>1. /\ \A j \in Slots \ {k} : calls'[j] = calls[j]
        /\ UNCHANGED <<honest, page, distance, sheets, drawn>>
    BY <1>2 DEF TypeOK, Connected, CallEnds, modeVars
  <2>2. calls[k] # NoCall
    BY <1>2, NoCallFacts DEF Connected, CallEnds
  <2> QED
    BY <1>a, <2>1, <2>2 DEF WaitInv
<1>3. ASSUME NEW k \in Slots, Status200(k) \/ OtherStatus(k)
      PROVE  WaitInv'
  <2>1. PICK c \in Cinemas : /\ ShowSheet(k, c)
                             /\ calls[k].stage = "details"
                             /\ honest => c = calls[k].cinema
                             /\ UNCHANGED <<honest, page>>
    BY <1>3, StatusShows
  <2>2. calls[k] # NoCall
    BY <2>1, NoCallFacts
  <2>3. sheets = <<>> /\ \A j \in Slots : calls[j] # NoCall => j = k
    BY <1>a, <2>2
  <2>4. \A j \in Slots : calls'[j] = NoCall
    <3>1. calls' = [calls EXCEPT ![k] = NoCall]
      BY <2>1, ShowSheetFacts
    <3> QED
      BY <2>3, <3>1 DEF TypeOK
  <2>5. CASE calls[k].alive
    <3> DEFINE t == [tapped |-> calls[k].cinema, cinema |-> c, distance |-> NoCinema]
    <3>1. /\ sheets' = Append(sheets, t)
          /\ t \in Sheet
          /\ ~ drawn'
          /\ distance'[page] = c
      BY <2>1, <2>5, ShowSheetFacts
    <3>2. t.cinema = c /\ t.tapped = calls[k].cinema
      OBVIOUS
    <3> HIDE DEF t
    <3>3. Len(sheets') = 1 /\ sheets'[1] = t
      BY <2>3, <3>1
    <3> QED
      BY <2>1, <2>4, <3>1, <3>2, <3>3 DEF WaitInv
  <2>6. CASE ~ calls[k].alive
    <3>1. sheets' = <<>>
      BY <2>1, <2>3, <2>6, ShowSheetFacts
    <3>2. Len(sheets') = 0
      BY <3>1
    <3> QED
      BY <2>4, <3>1, <3>2 DEF WaitInv
  <2> QED
    BY <2>5, <2>6
<1>4. CASE Draw
  <2>1. /\ ~ drawn
        /\ drawn'
        /\ sheets' = [i \in 1 .. Len(sheets) |->
                        IF sheets[i].distance = NoCinema
                          THEN [sheets[i] EXCEPT !.distance = distance[page]]
                          ELSE sheets[i]]
        /\ UNCHANGED <<honest, calls>>
    BY <1>4 DEF Draw, modeVars
  <2>2. Len(sheets) = 1 /\ sheets[1] \in Sheet /\ sheets[1].distance = NoCinema
    <3>1. sheets \in Seq(Sheet) /\ sheets # <<>> /\ TopSheet.distance = NoCinema
      BY <2>1 DEF FrameInv, TypeOK
    <3>a. Len(sheets) \in Nat /\ Len(sheets) >= 1
      BY <3>1, TopIsSheet
    <3>b. Len(sheets) <= 1
      BY <1>a
    <3>2. Len(sheets) = 1
      BY <3>a, <3>b
    <3> QED
      BY <3>1, <3>2, TopIsSheet DEF TopSheet
  <2>3. sheets' = [i \in 1 .. 1 |->
                     IF sheets[i].distance = NoCinema
                       THEN [sheets[i] EXCEPT !.distance = distance[page]]
                       ELSE sheets[i]]
    BY <2>1, <2>2
  <2>4. Len(sheets') = 1
    BY <2>3
  <2>5. /\ sheets'[1].distance = distance[page]
        /\ sheets'[1].cinema = sheets[1].cinema
        /\ sheets'[1].tapped = sheets[1].tapped
    BY <2>2, <2>3 DEF Sheet
  <2>6. \A k \in Slots : calls[k] = NoCall
    BY <1>a, <2>2
  <2> QED
    BY <1>a, <2>1, <2>2, <2>4, <2>5, <2>6 DEF WaitInv
<1>5. CASE CloseSheet
  <2>1. sheets \in Seq(Sheet) /\ Len(sheets) = 1
    <3>1. sheets \in Seq(Sheet) /\ sheets # <<>>
      BY <1>5 DEF CloseSheet, TypeOK
    <3>2. Len(sheets) \in Nat /\ Len(sheets) >= 1
      BY <3>1, TopIsSheet
    <3>3. Len(sheets) <= 1
      BY <1>a
    <3>4. Len(sheets) = 1
      BY <3>2, <3>3
    <3> QED
      BY <3>1, <3>4
  <2>2. Len(sheets') = 0 /\ sheets' = <<>>
    BY <1>5, <2>1 DEF CloseSheet
  <2> QED
    BY <1>5, <1>a, <2>2 DEF CloseSheet, WaitInv
<1>6. ASSUME NEW p \in Pages, ChangePage(p)
      PROVE  WaitInv'
  <2>1. sheets' = <<>> /\ Len(sheets') = 0
    BY <1>6 DEF ChangePage
  <2>2. \A k \in Slots : calls'[k] # NoCall => calls[k] # NoCall
    <3>1. \A k \in Slots : calls'[k] = [calls[k] EXCEPT !.alive = FALSE]
      BY <1>6 DEF ChangePage
    <3>2. ASSUME NEW k \in Slots, calls[k] = NoCall
          PROVE  calls'[k] = NoCall
      <4>1. calls'[k] = [NoCall EXCEPT !.alive = FALSE]
        BY <3>1, <3>2, Zenon
      <4> QED
        BY <4>1, NoCallStays, Zenon
    <3> QED
      BY <3>2
  <2> QED
    BY <1>a, <2>1, <2>2 DEF WaitInv
<1>7. CASE UNCHANGED vars
  BY <1>7, <1>a DEF vars, WaitInv
<1> QED
  BY <1>1, <1>2, <1>3, <1>4, <1>5, <1>6, <1>7 DEF Next, Answer
--------------------------------------------------------------------------
(* Theorems.                                                               *)

\* For any number of cinemas, calls and pages, calls, sheets and the field
\* distance fit each other; the types hold only together with the rest, since a
\* sheet needs a cinema, which the invariant of the calls gives it (cinemas.dart
\* 65-77, 369-383; orders.dart 48-55).
THEOREM InfoInvariant == Spec => []InfoInv
<1>1. Init => InfoInv
  <2>1. ASSUME Init PROVE TypeOK
    BY <2>1, NoCallFacts DEF Init, TypeOK, Pages
  <2>2. ASSUME Init PROVE CallInv /\ FrameInv /\ WaitInv
    BY <2>2, NoCallFacts DEF Init, CallInv, FrameInv, WaitInv
  <2> QED
    BY <2>1, <2>2 DEF InfoInv
<1>2. InfoInv /\ [Next]_vars => InfoInv'
  BY TypeStep, CallStep, FrameStep, WaitStep DEF InfoInv
<1> QED
  BY <1>1, <1>2, PTL DEF Spec

\* Every variable keeps its type: no sheet is put up for null
\* (cinema_detail.dart 7-11, cinemas.dart 65-77).
THEOREM InfoTypes == Spec => []TypeOK
<1>1. InfoInv => TypeOK
  BY DEF InfoInv
<1> QED
  BY <1>1, InfoInvariant, PTL

\* A user who waits sees one cinema on a sheet, and with a server without error
\* statuses the one that was tapped (cinema_detail.dart 46-65).
THEOREM SheetsAreOfTapped == Spec => []SheetOfTapped
<1>1. InfoInv => SheetOfTapped
  BY DEF InfoInv, WaitInv, SheetOfTapped
<1> QED
  BY <1>1, InfoInvariant, PTL

\* However calls overlap, the sheet on top shows name and distance of one cinema,
\* on a page that keeps the field to itself (cinemas.dart 70-77, 369-383).
THEOREM TopSheetsAreWhole == Spec => TopSheetWhole
<1> DEFINE top == sheets'[Len(sheets')]
           Whole == (page = "own" /\ drawn' /\ ~ drawn) => top.distance = top.cinema
<1>1. InfoInv /\ [Next]_vars => [Whole]_vars
  <2> SUFFICES ASSUME InfoInv, [Next]_vars, page = "own", drawn', ~ drawn
               PROVE  top.distance = top.cinema
    OBVIOUS
  <2>1. Draw
    <3>1. ASSUME NEW k \in Slots, Status200(k) \/ OtherStatus(k)
          PROVE  FALSE
      BY <3>1 DEF Status200, OtherStatus, ShowSheet
    <3> QED
      BY <3>1 DEF Next, Answer, TapInfo, Connected, CallEnds, CloseSheet, ChangePage,
                  vars
  <2>2. /\ sheets # <<>>
        /\ sheets[Len(sheets)].distance = NoCinema
        /\ distance[page] = sheets[Len(sheets)].cinema
    BY DEF InfoInv, FrameInv, TopSheet
  <2>3. sheets' = [i \in 1 .. Len(sheets) |->
                     IF sheets[i].distance = NoCinema
                       THEN [sheets[i] EXCEPT !.distance = distance[page]]
                       ELSE sheets[i]]
    BY <2>1 DEF Draw
  <2>4. /\ Len(sheets) \in Nat
        /\ Len(sheets) \in 1 .. Len(sheets)
        /\ sheets[Len(sheets)] \in Sheet
    BY <2>2 DEF InfoInv, TypeOK
  <2>5. Len(sheets') = Len(sheets)
    BY <2>3, <2>4
  <2>6. top = [sheets[Len(sheets)] EXCEPT !.distance = distance[page]]
    BY <2>2, <2>3, <2>4, <2>5
  <2> HIDE DEF top
  <2> QED
    BY <2>2, <2>4, <2>6 DEF Sheet
<1> QED
  BY <1>1, InfoInvariant, PTL DEF Spec, TopSheetWhole
==========================================================================
