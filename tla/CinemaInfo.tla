---------------------------- MODULE CinemaInfo ---------------------------
(***************************************************************************)
(* The info button of a cinema, on the pages Cinemas, ActiveTicket and     *)
(* Order_screen: getcinemainfo, getCinemaDetail, and the sheet with name,  *)
(* address and distance that it ends in.                                   *)
(*                                                                         *)
(* A sheet takes the name from the object its own call returned, but the   *)
(* distance from a field of the page, which it reads when it is drawn.     *)
(* cinemadata is a variable of the library cinema_detail.dart: it outlives *)
(* pages, and an error status of the server returns it as it is.           *)
(***************************************************************************)
EXTENDS Naturals, Sequences

CONSTANTS
  Cinemas,   \* cinemas with an info button
  NoCinema,  \* null
  MaxCalls   \* bound: taps whose sheet has not come up yet

ASSUME CinemaAssumption == NoCinema \notin Cinemas
ASSUME BoundAssumption  == MaxCalls \in Nat

VARIABLES
  patient,     \* environment, never changed: the user taps a button only when no
               \* call is in progress
  honest,      \* environment, never changed: the server answers 200 or not at all
  calls,       \* taps in progress
  cinemadata,  \* the library's variable
  page,        \* "own": the page keeps its fields to itself; "orders": it is
               \* Order_screen, whose fields are variables of the library
  distance,    \* the field distance, of the open page and of the library: the
               \* cinema whose distance it holds
  sheets,      \* sheets on the page, the visible one last
  drawn        \* all sheets have been drawn

vars == <<patient, honest, calls, cinemadata, page, distance, sheets, drawn>>
modeVars == <<patient, honest>>
--------------------------------------------------------------------------
Slots == 1 .. MaxCalls

Pages == {"own", "orders"}

\* A tap: it asks for the connection, then for the details; alive while the
\* page it was made on is mounted.
CallRec == [stage : {"none", "check", "details"}, cinema : Cinemas \cup {NoCinema},
            page : Pages, alive : BOOLEAN]
NoCall  == [stage |-> "none", cinema |-> NoCinema, page |-> "own", alive |-> FALSE]

\* A sheet: the cinema that was tapped, the one whose name it shows, and the one
\* whose distance, once it is drawn.
Sheet == [tapped : Cinemas, cinema : Cinemas, distance : Cinemas \cup {NoCinema}]

\* Types of the variables; no sheet is put up for null (cinema_detail.dart 7-11,
\* cinemas.dart 65-77).
TypeOK ==
  /\ patient \in BOOLEAN
  /\ honest \in BOOLEAN
  /\ calls \in [Slots -> CallRec]
  /\ cinemadata \in Cinemas \cup {NoCinema}
  /\ page \in Pages
  /\ distance \in [Pages -> Cinemas \cup {NoCinema}]
  /\ sheets \in Seq(Sheet)
  /\ drawn \in BOOLEAN

Init ==
  /\ patient \in BOOLEAN
  /\ honest \in BOOLEAN
  /\ calls = [k \in Slots |-> NoCall]
  /\ cinemadata = NoCinema
  /\ page \in Pages
  /\ distance = [p \in Pages |-> NoCinema]
  /\ sheets = <<>>
  /\ drawn = TRUE
--------------------------------------------------------------------------
\* The info button of cinema c; Cinemas does not ask for the connection.
TapInfo(c) ==
  /\ sheets = <<>>
  /\ patient => \A k \in Slots : calls[k] = NoCall
  /\ \E k \in Slots :
     \E s \in IF page = "own" THEN {"check", "details"} ELSE {"check"} :
       /\ calls[k] = NoCall
       /\ \A j \in 1 .. (k - 1) : calls[j] # NoCall
       /\ calls' = [calls EXCEPT ![k] =
            [stage |-> s, cinema |-> c, page |-> page, alive |-> TRUE]]
  /\ UNCHANGED <<modeVars, cinemadata, page, distance, sheets, drawn>>

\* checkConnectivity answers mobile or wifi.
Connected(k) ==
  /\ calls[k].stage = "check"
  /\ calls' = [calls EXCEPT ![k].stage = "details"]
  /\ UNCHANGED <<modeVars, cinemadata, page, distance, sheets, drawn>>

\* There is no connection, or position, request or decoding throws: the call
\* ends, with at most a message.
CallEnds(k) ==
  /\ calls[k] # NoCall
  /\ calls' = [calls EXCEPT ![k] = NoCall]
  /\ UNCHANGED <<modeVars, cinemadata, page, distance, sheets, drawn>>

\* Fault: the distance is left as it was.
ShowSheetOldDistance(k, c) ==
  /\ sheets' = IF calls[k].alive
                 THEN Append(sheets, [tapped |-> calls[k].cinema, cinema |-> c,
                                      distance |-> NoCinema])
                 ELSE sheets
  /\ drawn' = (drawn /\ ~ calls[k].alive)
  /\ calls' = [calls EXCEPT ![k] = NoCall]
  /\ UNCHANGED distance

\* The call goes on with the details of cinema c: they set the page's field, and
\* a sheet with them is put up, unless the page is gone.
ShowSheet(k, c) ==
  /\ distance' = IF calls[k].alive \/ calls[k].page = "orders"
                   THEN [distance EXCEPT ![calls[k].page] = c] ELSE distance
  /\ sheets' = IF calls[k].alive
                 THEN Append(sheets, [tapped |-> calls[k].cinema, cinema |-> c,
                                      distance |-> NoCinema])
                 ELSE sheets
  /\ drawn' = (drawn /\ ~ calls[k].alive)
  /\ calls' = [calls EXCEPT ![k] = NoCall]

\* Fault: the variable of the library is kept once it is set.
Status200Cached(k) ==
  /\ calls[k].stage = "details"
  /\ cinemadata' = IF cinemadata = NoCinema THEN calls[k].cinema ELSE cinemadata
  /\ ShowSheet(k, cinemadata')
  /\ UNCHANGED <<modeVars, page>>

\* Status 200.
Status200(k) ==
  /\ calls[k].stage = "details"
  /\ cinemadata' = calls[k].cinema
  /\ ShowSheet(k, calls[k].cinema)
  /\ UNCHANGED <<modeVars, page>>

\* Any other status: the cinema that was asked for last, by whatever call; null
\* is not a CinemaDetails, and the call ends.
OtherStatus(k) ==
  /\ calls[k].stage = "details"
  /\ ~ honest
  /\ cinemadata # NoCinema
  /\ ShowSheet(k, cinemadata)
  /\ UNCHANGED <<modeVars, cinemadata, page>>
--------------------------------------------------------------------------
\* The next frame: every sheet not yet drawn is, with the field as it is now.
Draw ==
  /\ ~ drawn
  /\ drawn' = TRUE
  /\ sheets' = [i \in 1 .. Len(sheets) |->
                  IF sheets[i].distance = NoCinema
                    THEN [sheets[i] EXCEPT !.distance = distance[page]] ELSE sheets[i]]
  /\ UNCHANGED <<modeVars, calls, cinemadata, page, distance>>

\* The visible sheet is closed.
CloseSheet ==
  /\ drawn
  /\ sheets # <<>>
  /\ sheets' = SubSeq(sheets, 1, Len(sheets) - 1)
  /\ UNCHANGED <<modeVars, calls, cinemadata, page, distance, drawn>>

\* The page is left, and another one with info buttons opened: fields of its own
\* are new.
ChangePage(p) ==
  /\ sheets = <<>>
  /\ page' = p
  /\ distance' = [distance EXCEPT !["own"] = NoCinema]
  /\ calls' = [k \in Slots |-> [calls[k] EXCEPT !.alive = FALSE]]
  /\ UNCHANGED <<modeVars, cinemadata, sheets, drawn>>

Answer(k) == Connected(k) \/ CallEnds(k) \/ Status200(k) \/ OtherStatus(k)

Next ==
  \/ \E c \in Cinemas : TapInfo(c)
  \/ \E k \in Slots : Answer(k)
  \/ Draw
  \/ CloseSheet
  \/ \E p \in Pages : ChangePage(p)

Spec == Init /\ [][Next]_vars
--------------------------------------------------------------------------
(* Properties.                                                             *)

\* Name and distance of a sheet are of one cinema, whatever the server answers, and
\* of the one that was tapped, if it answers without error status: on whatever
\* page and after whatever calls before, of a user who waits for one sheet before
\* asking for the next (README.md 18; cinema_detail.dart 46-65, cinemas.dart 70-77,
\* 369-383; orders.dart 48-55).
SheetOfTapped ==
  (patient /\ drawn) =>
    \A i \in 1 .. Len(sheets) : /\ sheets[i].distance = sheets[i].cinema
                                /\ honest => sheets[i].cinema = sheets[i].tapped

\* However calls overlap and answers come, the sheet that comes to lie on top in a
\* frame shows name and distance of one cinema, where the field is the page's own:
\* a call of a page that was left cannot set it (cinemas.dart 70-77, 369-383;
\* activeTickets.dart 29-36).
TopSheetWhole ==
  [][(page = "own" /\ drawn' /\ ~ drawn) =>
       LET top == sheets'[Len(sheets')] IN top.distance = top.cinema]_vars
--------------------------------------------------------------------------
(* The inductive invariant behind CinemaInfoProofs.                        *)

\* The sheet that lies on top.
TopSheet == sheets[Len(sheets)]

\* A call in progress is for a cinema; while its page is mounted, it is the page
\* on display.
CallInv ==
  \A k \in Slots :
    /\ calls[k].stage # "none" => calls[k].cinema \in Cinemas
    /\ calls[k].alive => calls[k].page = page

\* A sheet that waits for its frame is on top, without a distance yet, and a
\* field of the page's own holds the distance of its cinema.
FrameInv ==
  ~ drawn => /\ sheets # <<>>
             /\ TopSheet.distance = NoCinema
             /\ page = "own" => distance["own"] = TopSheet.cinema

\* Of a user who waits: a call in progress is the only one, and there is no
\* sheet; otherwise there is at most one, which shows its cinema or is about to.
WaitInv ==
  patient =>
    /\ \A k \in Slots : calls[k] # NoCall =>
         sheets = <<>> /\ \A j \in Slots : calls[j] # NoCall => j = k
    /\ Len(sheets) <= 1
    /\ \A i \in 1 .. Len(sheets) :
         /\ ~ drawn => distance[page] = sheets[i].cinema
         /\ drawn => sheets[i].distance = sheets[i].cinema
         /\ honest => sheets[i].cinema = sheets[i].tapped

\* Calls, sheets and the field fit each other: a sheet that is about to be drawn
\* finds the distance of its cinema, although call, page and sheet read and
\* write it at three different times (cinemas.dart 65-77, 369-383;
\* activeTickets.dart 29-36; orders.dart 48-55).
InfoInv == TypeOK /\ CallInv /\ FrameInv /\ WaitInv
==========================================================================
