----------------------------- MODULE Profile -----------------------------
(***************************************************************************)
(* The personal data and the orders of the signed-in account on one phone: *)
(* ProfileBloc behind the header of the profile page, OrderBloc behind the *)
(* page of orders, and the page Edit_profile with getUserProfile and       *)
(* updateData.                                                             *)
(*                                                                         *)
(* The two blocs are made once for the app and outlive pages and sessions. *)
(* Every fetch notes currentUser, waits, and shows what it got, whoever is *)
(* signed in by then.  The connection decides what is mounted: MainScreen  *)
(* and FinalPay drop their contents when it is lost and build them anew    *)
(* when it is back, also under an open page.                               *)
(***************************************************************************)
EXTENDS Naturals, Sequences

CONSTANTS
  Users,       \* accounts
  NoUser,      \* nobody
  Names,       \* first names a user may type
  Blank,       \* the empty text
  MaxTickets,  \* bound: tickets of an account
  MaxFetches   \* bound: fetches in progress

ASSUME UserAssumption  == NoUser \notin Users
ASSUME NameAssumption  == Blank \notin Names /\ Names # {}
ASSUME BoundAssumption == MaxTickets \in Nat /\ MaxFetches \in Nat

VARIABLES
  patient,   \* environment, never changed: the user signs out only when no
             \* fetch is in progress
  reliable,  \* environment, never changed: no fetch fails
  net,       \* the last connectivity event was not "none"
  me,        \* currentUser
  page,      \* the visible page: login form, MainScreen with the tab of the
             \* profile or another one ("home"), FinalPay, edit page or orders
  under,     \* the page below the edit page
  ctx,       \* the tile that opened the edit page is still mounted
  name,      \* what a user can edit of the users documents, as the phone sees
             \* it: 'first name' in the header, 'phone' in FinalPay
  tickets,   \* number of tickets in every users document
  fetches,   \* fetches in progress
  inbox,     \* answers the phone has got and the app has not yet seen
  profile,   \* state of ProfileBloc
  orders,    \* state of OrderBloc
  text,      \* fnamecontroller of the page Edit_profile
  typed,     \* the user has changed text since it was last set or saved
  missed     \* history: the last edit page was left without a fetch, and the
             \* profile has not been fetched since

vars == <<patient, reliable, net, me, page, under, ctx, name, tickets, fetches,
          inbox, profile, orders, text, typed, missed>>
modeVars == <<patient, reliable>>
tileVars == <<under, ctx>>
dataVars == <<name, tickets>>
editVars == <<text, typed>>
--------------------------------------------------------------------------
Slots == 1 .. MaxFetches
Texts == Names \cup {Blank}
Kinds == {"profile", "orders", "edit"}

\* A fetch and the await it is in.  alive is FALSE once the edit page that
\* made it is closed; the blocs are never closed.
FetchRec == [kind  : Kinds \cup {"none"},
             stage : {"none", "reload", "get", "answered"},
             who   : Users \cup {NoUser},
             alive : BOOLEAN]
NoFetch  == [kind |-> "none", stage |-> "none", who |-> NoUser, alive |-> FALSE]

\* The answer to the fetch in slot k: the document of an account, or an error.
Reply == [k : Slots, ok : BOOLEAN, name : Texts, tickets : 0 .. MaxTickets]

\* States of the blocs.
ProfileState == [st : {"Initial", "Loading", "Loaded", "Error"}, profileData : Texts]
OrderState   == [st : {"Initial", "Loading", "Loaded", "Error"},
                 orders : 0 .. MaxTickets]
ProfileInitial == [st |-> "Initial", profileData |-> Blank]
OrderInitial   == [st |-> "Initial", orders |-> 0]

\* Types of the variables (profile_state.dart, order_state.dart, edit_profile.dart
\* 16-27).
TypeOK ==
  /\ patient \in BOOLEAN
  /\ reliable \in BOOLEAN
  /\ net \in BOOLEAN
  /\ me \in Users \cup {NoUser}
  /\ page \in {"out", "home", "pay", "profile", "edit", "orders"}
  /\ under \in {"profile", "pay"}
  /\ ctx \in BOOLEAN
  /\ name \in [Users -> Texts]
  /\ tickets \in [Users -> 0 .. MaxTickets]
  /\ fetches \in [Slots -> FetchRec]
  /\ inbox \in Seq(Reply)
  /\ profile \in ProfileState
  /\ orders \in OrderState
  /\ text \in Texts
  /\ typed \in BOOLEAN
  /\ missed \in BOOLEAN

Init ==
  /\ patient \in BOOLEAN
  /\ reliable \in BOOLEAN
  /\ net = TRUE
  /\ me = NoUser
  /\ page = "out"
  /\ under = "profile"
  /\ ctx = FALSE
  /\ name \in [Users -> Names]
  /\ tickets = [u \in Users |-> 0]
  /\ fetches = [k \in Slots |-> NoFetch]
  /\ inbox = <<>>
  /\ profile = ProfileInitial
  /\ orders = OrderInitial
  /\ text = Blank
  /\ typed = FALSE
  /\ missed = FALSE
--------------------------------------------------------------------------
(* Fetches.                                                                *)
Pending(kind) == \E k \in Slots : fetches[k].kind = kind
Quiet         == \A k \in Slots : fetches[k] = NoFetch

\* A fetch starts for currentUser, in the first free slot; profile and edit page
\* reload the user first.
Start(kind, fs) ==
  \E k \in Slots :
    /\ fs[k] = NoFetch
    /\ \A j \in 1 .. (k - 1) : fs[j] # NoFetch
    /\ fetches' = [fs EXCEPT ![k] =
         [kind  |-> kind,
          stage |-> IF kind = "orders" THEN "get" ELSE "reload",
          who   |-> me,
          alive |-> TRUE]]

\* add(FetchProfile): the handler emits ProfileLoading and starts.
FetchProfile(fs) ==
  /\ Start("profile", fs)
  /\ profile' = [st |-> "Loading", profileData |-> Blank]
  /\ missed' = FALSE

\* add(FetchOrder), likewise.
FetchOrder ==
  /\ Start("orders", fetches)
  /\ orders' = [st |-> "Loading", orders |-> 0]

\* reload() has ended, and the document is asked for.
Reloaded(k) ==
  /\ fetches[k].stage = "reload"
  /\ fetches' = [fetches EXCEPT ![k].stage = "get"]
  /\ UNCHANGED <<modeVars, net, me, page, tileVars, dataVars, inbox, profile, orders,
                 editVars, missed>>

\* The phone has the document, as it is now, with its own writes.
Got(k) ==
  /\ fetches[k].stage = "get"
  /\ inbox' = Append(inbox, [k |-> k, ok |-> TRUE, name |-> name[fetches[k].who],
                             tickets |-> tickets[fetches[k].who]])
  /\ fetches' = [fetches EXCEPT ![k].stage = "answered"]
  /\ UNCHANGED <<modeVars, net, me, page, tileVars, dataVars, profile, orders, editVars,
                 missed>>

\* reload() or get() throws.
Throws(k) ==
  /\ ~ reliable
  /\ fetches[k].stage \in {"reload", "get"}
  /\ inbox' = Append(inbox, [k |-> k, ok |-> FALSE, name |-> Blank, tickets |-> 0])
  /\ fetches' = [fetches EXCEPT ![k].stage = "answered"]
  /\ UNCHANGED <<modeVars, net, me, page, tileVars, dataVars, profile, orders, editVars,
                 missed>>

\* The handler of FetchProfile goes on: ProfileLoaded or ProfileError.
ShowProfile(r) ==
  /\ profile' = IF r.ok THEN [st |-> "Loaded", profileData |-> r.name]
                        ELSE [st |-> "Error", profileData |-> Blank]
  /\ UNCHANGED <<orders, editVars>>

\* The handler of FetchOrder goes on: OrderLoaded or OrderError.
ShowOrders(r) ==
  /\ orders' = IF r.ok THEN [st |-> "Loaded", orders |-> r.tickets]
                       ELSE [st |-> "Error", orders |-> 0]
  /\ UNCHANGED <<profile, editVars>>

\* getUserProfile goes on: it sets the fields, whatever has been typed, unless
\* the page is gone or the call failed.
ShowFields(r) ==
  /\ IF r.ok /\ fetches[r.k].alive
       THEN text' = r.name /\ typed' = FALSE
       ELSE UNCHANGED editVars
  /\ UNCHANGED <<profile, orders>>

\* The app sees the oldest answer.
Deliver ==
  /\ inbox # <<>>
  /\ LET r == Head(inbox)
         kind == fetches[r.k].kind
     IN /\ inbox' = Tail(inbox)
        /\ fetches' = [fetches EXCEPT ![r.k] = NoFetch]
        /\ \/ kind = "profile" /\ ShowProfile(r)
           \/ kind = "orders"  /\ ShowOrders(r)
           \/ kind = "edit"    /\ ShowFields(r)
  /\ UNCHANGED <<modeVars, net, me, page, tileVars, dataVars, missed>>
--------------------------------------------------------------------------
(* What the user does.                                                     *)

\* Signing in needs the connection, and MainScreen is built anew.
SignIn(u) ==
  /\ page = "out"
  /\ me' = u
  /\ page' = "home"
  /\ net' = TRUE
  /\ UNCHANGED <<modeVars, tileVars, dataVars, fetches, inbox, profile, orders, editVars,
                 missed>>

\* Sign out, on a page over the tab of the profile.
SignOut ==
  /\ page = "profile"
  /\ patient => Quiet
  /\ me' = NoUser
  /\ page' = "out"
  /\ UNCHANGED <<modeVars, net, tileVars, dataVars, fetches, inbox, profile, orders,
                 editVars, missed>>

\* FinalPay, on the way of a booking, also fetches the profile.
OpenFinalPay ==
  /\ page = "home"
  /\ net
  /\ page' = "pay"
  /\ FetchProfile(fetches)
  /\ UNCHANGED <<modeVars, net, me, tileVars, dataVars, inbox, orders, editVars>>

\* A payment adds a ticket to the account's document (SeatBooking).
Book ==
  /\ page = "pay"
  /\ tickets[me] < MaxTickets
  /\ tickets' = [tickets EXCEPT ![me] = @ + 1]
  /\ UNCHANGED <<modeVars, net, me, page, tileVars, name, fetches, inbox, profile, orders,
                 editVars, missed>>

\* Back from FinalPay, or OK after a payment.
LeaveFinalPay ==
  /\ page = "pay"
  /\ page' = "home"
  /\ UNCHANGED <<modeVars, net, me, tileVars, dataVars, fetches, inbox, profile, orders,
                 editVars, missed>>

\* The bar at the bottom works with and without the connection, but only with it
\* the tab of the profile is built: its initState.
OpenProfile ==
  /\ page = "home"
  /\ page' = "profile"
  /\ IF net THEN FetchProfile(fetches) ELSE UNCHANGED <<fetches, profile, missed>>
  /\ UNCHANGED <<modeVars, net, me, tileVars, dataVars, inbox, orders, editVars>>

LeaveProfile ==
  /\ page = "profile"
  /\ page' = "home"
  /\ UNCHANGED <<modeVars, net, me, tileVars, dataVars, fetches, inbox, profile, orders,
                 editVars, missed>>

\* Fault: the orders on display are taken for good enough.
OpenOrdersCached ==
  /\ page = "profile"
  /\ net
  /\ page' = "orders"
  /\ IF orders.st = "Loaded" THEN UNCHANGED <<fetches, orders>> ELSE FetchOrder
  /\ UNCHANGED <<modeVars, net, me, tileVars, dataVars, inbox, profile, editVars, missed>>

\* initState of the page of orders.
OpenOrders ==
  /\ page = "profile"
  /\ net
  /\ page' = "orders"
  /\ FetchOrder
  /\ UNCHANGED <<modeVars, net, me, tileVars, dataVars, inbox, profile, editVars, missed>>

LeaveOrders ==
  /\ page = "orders"
  /\ page' = "profile"
  /\ UNCHANGED <<modeVars, net, me, tileVars, dataVars, fetches, inbox, profile, orders,
                 editVars, missed>>

\* Fault: the fields are set from variables that nothing has filled.
OpenEditNull ==
  /\ page \in {"profile", "pay"}
  /\ net
  /\ profile.st = "Loaded"
  /\ page' = "edit"
  /\ under' = page
  /\ ctx' = TRUE
  /\ text' = "null"
  /\ typed' = FALSE
  /\ UNCHANGED <<modeVars, net, me, dataVars, fetches, inbox, profile, orders, missed>>

\* The tile of the header, or of the contact details in FinalPay, is tapped, which
\* only works with a loaded profile; initState of Edit_profile.
OpenEdit ==
  /\ page \in {"profile", "pay"}
  /\ net
  /\ profile.st = "Loaded"
  /\ page' = "edit"
  /\ under' = page
  /\ ctx' = TRUE
  /\ text' = Blank
  /\ typed' = FALSE
  /\ Start("edit", fetches)
  /\ UNCHANGED <<modeVars, net, me, dataVars, inbox, profile, orders, missed>>

Type(t) ==
  /\ page = "edit"
  /\ text' = t
  /\ typed' = TRUE
  /\ UNCHANGED <<modeVars, net, me, page, tileVars, dataVars, fetches, inbox, profile,
                 orders, missed>>

\* Save Changes: the update is queued and the document asked for, at once.
Save ==
  /\ page = "edit"
  /\ name' = [name EXCEPT ![me] = text]
  /\ typed' = FALSE
  /\ Start("edit", fetches)
  /\ UNCHANGED <<modeVars, net, me, page, tileVars, tickets, inbox, profile, orders, text,
                 missed>>

\* The fetches after the edit page was closed: setState throws for its calls.
WithoutEdit ==
  [k \in Slots |-> IF fetches[k].kind = "edit"
                     THEN [fetches[k] EXCEPT !.alive = FALSE] ELSE fetches[k]]

\* Fault: no FetchProfile after the edit page.
LeaveEditQuietly ==
  /\ page = "edit"
  /\ page' = under
  /\ under' = "profile"
  /\ ctx' = FALSE
  /\ text' = Blank
  /\ typed' = FALSE
  /\ fetches' = WithoutEdit
  /\ UNCHANGED <<modeVars, net, me, dataVars, inbox, profile, orders, missed>>

\* Back from the edit page: its fields are gone and the profile is fetched through
\* the context of the tile, which throws if the tile was unmounted.
LeaveEdit ==
  /\ page = "edit"
  /\ page' = under
  /\ under' = "profile"
  /\ ctx' = FALSE
  /\ text' = Blank
  /\ typed' = FALSE
  /\ IF ctx THEN FetchProfile(WithoutEdit)
            ELSE fetches' = WithoutEdit /\ missed' = TRUE /\ UNCHANGED profile
  /\ UNCHANGED <<modeVars, net, me, dataVars, inbox, orders>>
--------------------------------------------------------------------------
(* The connection and the process.                                         *)

\* MainScreen is on the tab of the profile, visible or not.
TabOpen == page \in {"profile", "orders"} \/ (page = "edit" /\ under = "profile")

\* A "none" event: MainScreen and FinalPay draw the view without contents, and the
\* tile that opened the edit page is unmounted.
NetLost ==
  /\ page # "out"
  /\ net
  /\ net' = FALSE
  /\ ctx' = FALSE
  /\ UNCHANGED <<modeVars, me, page, under, dataVars, fetches, inbox, profile, orders,
                 editVars, missed>>

\* Fault: the tab comes back without initState.
NetBackQuietly ==
  /\ page # "out"
  /\ ~ net
  /\ net' = TRUE
  /\ UNCHANGED <<modeVars, me, page, tileVars, dataVars, fetches, inbox, profile, orders,
                 editVars, missed>>

\* The connection is back: the tab of the profile is built anew, with its initState,
\* and the contents of FinalPay, whose initState has run.
NetBack ==
  /\ page # "out"
  /\ ~ net
  /\ net' = TRUE
  /\ IF TabOpen THEN FetchProfile(fetches) ELSE UNCHANGED <<fetches, profile, missed>>
  /\ UNCHANGED <<modeVars, me, page, tileVars, dataVars, inbox, orders, editVars>>

\* The process ends and the app starts anew, at MainScreen or at the login form;
\* it passes the splash screen with a connection.
KillApp ==
  /\ page' = IF me = NoUser THEN "out" ELSE "home"
  /\ net' = TRUE
  /\ under' = "profile"
  /\ ctx' = FALSE
  /\ fetches' = [k \in Slots |-> NoFetch]
  /\ inbox' = <<>>
  /\ profile' = ProfileInitial
  /\ orders' = OrderInitial
  /\ text' = Blank
  /\ typed' = FALSE
  /\ missed' = FALSE
  /\ UNCHANGED <<modeVars, me, dataVars>>

Answer(k) == Reloaded(k) \/ Got(k) \/ Throws(k)

Next ==
  \/ \E k \in Slots : Answer(k)
  \/ Deliver
  \/ \E u \in Users : SignIn(u)
  \/ SignOut
  \/ OpenFinalPay \/ LeaveFinalPay
  \/ Book
  \/ OpenProfile \/ LeaveProfile
  \/ OpenOrders \/ LeaveOrders
  \/ OpenEdit \/ LeaveEdit
  \/ \E t \in Texts : Type(t)
  \/ Save
  \/ NetLost \/ NetBack
  \/ KillApp

Spec == Init /\ [][Next]_vars

\* Every answer is seen.
FairSpec == Spec /\ WF_vars(Deliver)

\* Every reload() and get() ends.  The code sets no time limit, so that this is up
\* to Firebase.
FetchesEnd == \A k \in Slots : WF_vars(Answer(k))
--------------------------------------------------------------------------
(* Properties.                                                             *)

\* Once no fetch is left, the header greets the signed-in user with the name that
\* was saved last, and FinalPay has the phone number saved last, "and reflect on
\* other screens" (README.md 12; profile.dart 84-95, finalPay.dart 189-214).  Not
\* so if the connection went and came back while the edit page was open.
HeaderReflects ==
  (/\ patient /\ net /\ page \in {"profile", "pay"}
   /\ profile.st = "Loaded" /\ ~ Pending("profile")) =>
    profile.profileData = name[me]

\* So it is whatever order fetches, saves, pages and connectivity events came in,
\* except after an edit page that outlived the tile that had opened it, and then
\* until the next FetchProfile (profile.dart 84-95, mainhome.dart 103-178,
\* profile_bloc.dart 13-37, edit_profile.dart 200-203).
HeaderFresh == ~ missed => HeaderReflects

\* Once no fetch is left, the page of orders lists all bookings of the signed-in
\* account, and no other's (README.md 20; order_bloc.dart 13-41).
OrdersComplete ==
  (patient /\ page = "orders" /\ orders.st = "Loaded" /\ ~ Pending("orders")) =>
    orders.orders = tickets[me]

\* Once no fetch is left, the edit page shows what is stored, unless the user
\* has typed since: although Save Changes does not wait for the update before it
\* asks for the document, even if several saves are on their way
\* (edit_profile.dart 52-85, 200-203).
EditShowsStored ==
  (reliable /\ page = "edit" /\ ~ typed /\ ~ Pending("edit")) => text = name[me]

\* The page of orders draws its spinner, and the tab of the profile its header
\* without a name, in every state of the bloc but Loaded.
OrdersWait == page = "orders" /\ orders.st # "Loaded"
HeaderWaits == page = "profile" /\ net /\ profile.st # "Loaded"

\* If every fetch ends and none fails, both come to an end, whatever is fetched for
\* other pages meanwhile and however the connection comes and goes
\* (profile.dart 56-111, orders.dart 40-41, 285-301, mainhome.dart 103-178).
PagesFill ==
  FetchesEnd =>
    /\ (reliable /\ OrdersWait) ~> ~ OrdersWait
    /\ (reliable /\ HeaderWaits) ~> ~ HeaderWaits

\* "errors are handled in case of no internet connection or any other error"
\* (README.md 26): if every fetch ends, so does the spinner of the page of orders
\* (orders.dart 285-301).  Not so: OrderError is drawn as the spinner, too.
OrdersSpinnerEnds == FetchesEnd => (OrdersWait ~> ~ OrdersWait)
--------------------------------------------------------------------------
(* The inductive invariant behind ProfileProofs.                           *)

\* Somebody is signed in on every page but the login form; a fetch is for an
\* account, and the blocs' fetches are never cut off.
FetchInv ==
  /\ page = "out" <=> me = NoUser
  /\ \A k \in Slots :
       /\ fetches[k].stage = "none" => fetches[k] = NoFetch
       /\ fetches[k] # NoFetch => fetches[k].who \in Users /\ fetches[k].kind \in Kinds
       /\ fetches[k].kind \in {"profile", "orders"} => fetches[k].alive

\* Every answer has a fetch of its own that waits for it.
AnswerInv ==
  \A i \in 1 .. Len(inbox) :
    /\ fetches[inbox[i].k].stage = "answered"
    /\ \A j \in 1 .. Len(inbox) : inbox[j].k = inbox[i].k => j = i
    /\ reliable => inbox[i].ok

\* The fetches of a user who waits, and those of the open edit page, are for the
\* account that is signed in.
WhoInv ==
  \A k \in Slots :
    /\ (patient /\ fetches[k] # NoFetch) => fetches[k].who = me
    /\ (fetches[k].kind = "edit" /\ fetches[k].alive) =>
         page = "edit" /\ fetches[k].who = me

\* Fetch k is of this kind, and what it gets will be shown.
Live(kind, k) == fetches[k].kind = kind /\ fetches[k].alive

\* All that will be shown has been read.
Settled(kind) == \A k \in Slots : Live(kind, k) => fetches[k].stage = "answered"

\* The answer that will be shown last.
IsLast(kind, i) ==
  /\ Live(kind, inbox[i].k)
  /\ \A j \in 1 .. Len(inbox) : i < j => ~ Live(kind, inbox[j].k)

\* Where and for whom it matters what is shown.
OnPage(kind) ==
  \/ /\ kind = "profile" /\ patient /\ ~ missed
     /\ page = "pay" \/ (net /\ page \in {"profile", "orders"})
  \/ kind = "orders"  /\ patient  /\ page = "orders"
  \/ kind = "edit"    /\ reliable /\ page = "edit"

\* Answer r holds what is stored, and so does what is on display.
Current(kind, r) ==
  IF kind = "orders" THEN r.tickets = tickets[me] ELSE r.name = name[me]

Shown(kind) ==
  /\ (kind = "profile" /\ profile.st = "Loaded") => profile.profileData = name[me]
  /\ (kind = "orders" /\ orders.st = "Loaded") => orders.orders = tickets[me]
  /\ (kind = "edit" /\ ~ typed) => text = name[me]

\* When nothing is left to be read, the answer that comes last is current, and
\* when none is left, so is the page.
Fresh(kind) ==
  (OnPage(kind) /\ Settled(kind)) =>
    /\ \A i \in 1 .. Len(inbox) :
         (IsLast(kind, i) /\ inbox[i].ok) => Current(kind, inbox[i])
    /\ (\A i \in 1 .. Len(inbox) : ~ Live(kind, inbox[i].k)) => Shown(kind)

FreshInv == \A kind \in Kinds : Fresh(kind)

\* Answers may be stale, but never the last one: a save, a booking or another
\* account is followed by a fetch before its page is seen again, except where
\* missed says so, and answers are shown in the order in which they were read
\* (profile_bloc.dart 13-37, order_bloc.dart 13-41, profile.dart 84-95,
\* edit_profile.dart 52-85, 200-203).
ProfileInv == TypeOK /\ FetchInv /\ AnswerInv /\ WhoInv /\ FreshInv
==========================================================================
