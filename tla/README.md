# A TLA+ model of the BookMyShow clone

The repository is a Flutter app (about 8,600 lines of Dart under `src/lib/`; the
rest is generated platform code and vendored iOS pods) without a server of its
own. Films and showtimes come from the movieglu HTTP API, accounts from
Firebase Auth, and everything the app stores is in two Firestore collections
that the phones read and write directly. There are no tests to speak of; what
the app promises is in `src/README.md`, quoted below by line.

## 1. Inventory

| component | state it keeps | operations | hard behaviour |
|---|---|---|---|
| Seat map: `SeatsBloc` | one bloc state for the whole app | `FetchSeats` | handlers overlap; answers in any order; errors |
| Seat selection: `SelectSeat` | `seatIndex`, `seatsoften`, `finallist` in the widget | open, refresh, toggle, Proceed to Pay | lists are handed on by reference and live as long as the route |
| Order and payment: `FinalPay`, `PaymentMethod`, `UPI`, `Cards` | amount, the lists above | Pay, `insertData`, `inserttickets`, dialog, back | two documents written without a transaction; a read in between; widgets disposed under an await; kills |
| Firestore | `bookseats/movie_name` (sold seats of every show), `users/<uid>` (`ticket`: all tickets) | set-merge, update, get | shared by all phones; client-side write queue |
| Active tickets: `ActiveTicketBloc` | bloc state, `todaydate` | `FetchActiveTicket` | shared variable across handlers; midnight; two date formats |
| Showtimes: `Cinemas`, `NearCinemaBloc`, `getCinema` | picked date, days, bloc state, the library variable `result` | open, pick a date, answer, tap a showing | out-of-order answers; error status returns old data; midnight |
| Session: `Splash`, login, signup, reset, sign out | stored `uid`, Firebase user, timer, pages | check, login, create, reset, sign out | two-step changes with an await or a kill between; timer against a lost connection; contexts unmounted under a call; pages that outlive their pop; a page drawn before the storage answers |
| Profile: `ProfileBloc`, header, `Edit_profile`, change password | bloc state, text fields | fetch, update, type, save | a refetch that does not wait for the update; answers of the account before; tabs unmounted and rebuilt by connectivity events under an open page |
| Orders: `OrderBloc`, `Order_screen` | bloc state | fetch | a bloc that outlives bookings and sessions; an error drawn as loading |
| Cinema info: `getCinemaDetail`, the sheets of three pages | library variable `cinemadata`, field or library variable `distance` | tap, answer, draw | error status returns old data; two calls before a frame |
| Catalogue: `MainScreen`, `HomeScreen`, `MovieNowBloc`, `getNow`; search and details | bloc states, library variables | fetch on every build and event | late failures; recovery without the user |
| Location, connectivity | platform state | ask, mirror | - |

The path of a booking crosses the components: *Cinemas* (film, date, time slot)
→ *SelectSeat* (reads `bookseats`) → *FinalPay* → *PaymentMethod* → *UPI* or
*Cards* (writes `bookseats`, reads and writes `users/<uid>`) → home, where
*ActiveTicketBloc* reads `users/<uid>`.

What makes the parts correct: a seat is sold once and stays sold; what is stored
as sold was paid for; every payment has its ticket, with the right seats and
amount; the list of active tickets holds exactly the shows to come; a seat
screen and a list of showings are about the show the user chose; a user stays
signed in until Sign Out, and no page that needs a user is without one; header,
orders and edit page show what is stored for the account; a cinema sheet is about
the cinema that was tapped; the films come back with the connection; no spinner
turns for ever.

## 2. Modules

| module | models |
|---|---|
| `SeatBooking` | the booking path on any number of phones, with Firestore and its client |
| `SeatLedger` | abstract: a box office that confirms sales and enters them into a ledger, with the shows about which its counters disagree |
| `SeatBookingInv` | the inductive invariants over `SeatBooking`, and the mapping by which it implements `SeatLedger` |
| `SeatBookingProofs` | types, honest tickets, right amounts, seats before tickets: for all constants |
| `SeatLedgerProofs` | for all constants: what can lose a sale and what cannot, and the booking path implements `SeatLedger` |
| `ActiveTickets`, `ActiveTicketsProofs` | `ActiveTicketBloc` with clock and calendar |
| `Showtimes`, `ShowtimesProofs` | the page `Cinemas`, `NearCinemaBloc`, `getCinema` |
| `Session`, `SessionProofs` | splash, login, signup, reset page, sign out, kills |
| `Profile`, `ProfileProofs` | `ProfileBloc`, `OrderBloc`, header, orders, `Edit_profile` |
| `HomeFilms`, `HomeFilmsProofs` | `MainScreen`, `HomeScreen`, `MovieNowBloc`, `getNow` |
| `CinemaInfo`, `CinemaInfoProofs` | the info button of `Cinemas`, `ActiveTicket` and `Order_screen`, `getCinemaDetail`, the sheet |
| `MC...` | values of the constants for TLC |

Operators marked `Fault:` are mutated forms of the definition that follows
them; no specification uses them. They are there to show that each property can fail.

### SeatBooking

An action is a stretch of Dart without an `await`, or one answer of Firestore.
`screen` is the top of the navigator; `show`, `seatIndex` and `finallist` are
the fields of the `SelectSeat` widget below it and die with its route
(`CloseSeatScreen`). `UPI` and `Cards` hold the same list objects, so the model
has one variable for each list: a ticket built late sees what the list holds
late. `order` is what `FinalPay` was given and the amount it computes. `bloc`
and `fetches` are the app-wide `SeatsBloc` and its handlers, which emit in the
order of the answers. `inserts` are calls of `inserttickets`; closing the screen
drops them (`DropInserts`), because `setState` throws after `dispose` and the
ticket is written only after it. `paid` is history: what the success dialog
confirmed.

Firestore's client is external and modelled from its use: writes are queued on
the phone, survive a kill, are sent in order, and are visible to the phone's own
reads (`ReadsSeats`, `ReadsTickets`). `set(merge)` replaces the list of one show
and no other; `update` replaces the field `ticket`.

Any phone opens any show at any time, and answers come in any order. The code then
does lose sales, because every payment writes back a whole list that was read
screens before. The history variable `outdated` has the shows for which this may have
happened, and is set where it begins, not where the damage shows:

- in `SendWrite`, when a list arrives while *another* phone has the seat screen of
  that show open or a list of it queued (`Selling`): that phone does not hear of it;
- in `OpenShow`, when an answer to an earlier visit of the same phone to the same show
  has been read and not yet shown: it may be older than what has been sold since;
- in `ProceedWith`, when the seats drawn as sold are those of another show.

No action reads `outdated`. Properties that mention it say that these three are the
*only* ways to lose a sale. Phones that sell a show one after the other, refreshes, kills
and queued writes do not set it.

`Methods`, the ways of paying, is a bound for TLC: `UPI` and `Cards` have the same code.

### ActiveTickets

`day` and `hour` are the device's clock. A handler notes `todaydate` (one
variable for all handlers), waits, reads the tickets, and compares hours with
the clock it then finds. `Parses` is `DateTime.parse` on a date with unpadded
month; `ParsedHour` is the pattern `hh:mm`. `Book` lets a ticket appear as
`SeatBooking` would write it: on one of the seven days offered, under a date
that `SelectSeat` (line 163) could draw.

### Showtimes

A list of showings is known by the film and the date the server made it for.
`result` is the library variable of `closest_showing.dart`: status 200 and 204
set it, any other status returns it unchanged. A tap combines the start time of
the list on display with the film and date of the page. `patient` and `mayFail`
describe the user and the server: variables set in `Init` and never changed, so
that one specification holds every environment, and a property names the one it
needs (`Calm`: a user who waits, a server without error statuses).

### SeatLedger

The abstract specification has the seats sold per show, the sales each counter
has confirmed, and which of them are not yet in the ledger. `Confirm` is a
payment: at that moment the customer is told. `Enter` is the arrival of its
write. It says that sales are entered in the order of their confirmation, each
once, with at least their seats, and that nothing leaves the ledger, except by an
entry for a show that was `disputed` before: two counters, or a counter and its own
past, no longer agree on what is sold (`Dispute`, or the entry itself). The mapping
(`Ledger` in `SeatBookingInv`) takes `paid` for the sales, `outdated` for the disputes
and reads what is due off the queue of writes (`Due`). Screens, reads, back steps and tickets are
stutter steps of the box office; so is a kill, because the queue survives it.
"At least" is needed: `finallist` may hold seats nobody pays for (`unpaid_seats`).

### Session

`uid` (secure storage) and `fbUser` (Firebase) are the two memories of a session;
`stack` are the pages. `calls` are calls of `login`, `createAccount`, the reset
button and `signOut`, each at the await it is in (`phase`) and with the state of the
page it was made from: `mounted`, `closing` (popped or replaced, and mounted until its
exit transition ends, `TransitionEnds`) or `gone`. On a page that is gone
`Navigator.of(context)` throws and only what was stored before counts; on one that is
closing it works, and acts on whatever page is on top by then: a second `ResetSent`
pops the page below. `inbox` holds what the connectivity
plugin has to tell the splash page: the answer to `con()` and the events. The
history variables are `session` (who was led to `MainScreen` and has not tapped
Sign Out), `confirmed` (who read "Account created successfully") and `heard`
(there was a connection since the launch). `createAccount` has four steps:
Firebase makes the account, the phone hears of it (and is signed in), the document is queued
or `int.parse` throws, the server acknowledges.

The splash page is replaced by a `FutureBuilder` that draws `MainScreen` unless its data
are `false`. So there are three kinds of `MainScreen` (`MainPages`): `check` while the
storage is read, `unchecked` for good after its read threw (`CheckFails`), and `main`,
after the answer or a login. The account page can be opened, and Sign Out tapped, on each
of them; the answer redraws the page at the bottom (`Redrawn`) under whatever is on it.

### Profile

`name` and `tickets` are the fields `first name` and `ticket` of every `users`
document as the phone's own Firestore client sees them, its queued writes
included. `fetches` are the handlers of both blocs and the calls of
`getUserProfile`; `inbox` are answers not yet seen, in the order the client gave
them. Fetches note the user when they start. The blocs outlive sign-outs; the
edit page's calls lose their page (`alive`).

`net` is the last connectivity event. On "none", `MainScreen` and `FinalPay` draw a view
without their contents, also below an open page (`NetLost`); on the next event the
tab of the profile is a new widget whose `initState` fetches again (`NetBack`). The edit page
is opened from a tile of the header or from the contact tile of `FinalPay`
(`under`), and what runs after it uses the context of that tile. `ctx` says that the tile is
still mounted: if not, `LeaveEdit` throws, no fetch is made, and the history
variable `missed` is set until the next `FetchProfile`.

### HomeFilms

A list of films is known by whether it holds any. `MainScreen` builds a
`HomeScreen` only while the last event was a connection (`heard`), and every
build asks for the films. A request is `cut` when the connection changed under
it. `healthy` and `ordered` describe server and network.

### CinemaInfo

`distance` has a value for the page that keeps the field to itself and one for the
library variable of `orders.dart`, which calls of a closed page still set. A
sheet is put up with the object its call returned and reads `distance` when
the next frame draws it (`Draw`).

## 3. Runs

| run | constants | checks |
|---|---|---|
| `booking_alone` | 1 phone, 2 shows, 2 seats, up to 2 at once, 1 payment, 2 fetches in flight | `BookingInv`, `PaidAmountRight`, `LedgerInv` |
| `booking_pair` | 2 phones of one account, 1 show, 2 seats, 1 payment each | `LedgerInv`, `NoSaleLost`, `SoldNeverShrinks`, `TicketHonest`, `SeatsBeforeTicket`, `TicketOrderInv` (2.0 million states) |
| `booking_fair` | 1 phone, 1 show, 1 seat, 2 payments, 3 fetches in flight, fair | `LoadingEnds`, `PaidSeatsGetSold`, `QueueInv`, `ImplementsLedger` |
| `active_tickets` | 3 days (the last in January), 2 tickets, 2 handlers, hours 0, 9, 12, 21 | `TypeOK`, `UpcomingShown`, `ExpiredHiddenSameDay`, `FailsOnlyByToday` (1.2 million states) |
| `showtimes` | 2 films, 7 days offered, 2 calendar days, 2 requests, all environments | `TypeOK`, `SlotOfChosenShow`, `PastOnlyOnOldPage`, `ShowtimesInv`, `SpinnerEnds` |
| `session` | 2 users, 1 call, 3 pages, 2 messages, 2 kills, fair | `SessionInv`, `StaySignedIn`, `MainHasUser`, `ConfirmedHasData`, `SplashNeedsConnection`, `SplashEnds` |
| `profile` | 1 account, 1 name and the blank, 1 ticket, 2 fetches, fair | `ProfileInv`, `HeaderFresh`, `OrdersComplete`, `EditShowsStored`, `PagesFill` (0.9 million states) |
| `home_films` | 3 requests, 3 events, fair | `HomeInv`, `FilmsKept`, `FilmsNeedPosition`, `HomeRecovers` |
| `cinema_info` | 2 cinemas, 3 calls | `InfoInv`, `SheetOfTapped`, `TopSheetWhole` |

The invariants `BookingInv`, `SessionInv`, `ProfileInv`, `HomeInv` and `InfoInv` are
the inductive ones of the proofs and have `TypeOK` as their first conjunct.

Bounds. Two payments on one phone are the least for one payment to disturb
another in the queue or through the dialog left with the back button; two phones with
one payment each the least for a race. Two seats are the least for a selection that
changes its size, and two shows for a screen that gets the answer of another.
`MaxSeats` is at most 2 where the code has 6: the code only compares with it. Two
fetches in flight give every order of answers, so that all three causes of `outdated`
occur: two of them in `booking_alone`, the third in `booking_pair`; three put a `Loading`
after an answer that is newer than one still to come. Every invariant and action
property of the passing runs, and `ImplementsLedger`, holds for all values of the
constants by proof (section 4), so that the bounds matter only for liveness and for
the violations. Combinations that no run has are left to the proofs: two payments on
each of two phones, the refinement with two phones, two calls that overlap in `Session`, two accounts in `Profile`.
(The latter two also pass TLC without the liveness properties, with 7.1 million states
for two users, two calls, two pages and one kill, and 11.0 million for two accounts.)
Seats are interchangeable, and so are shows that every phone may open and phones of one
account: the booking runs without liveness use `SYMMETRY`; no
other run does. The `Hours` of `active_tickets` stand for
midnight, morning, noon and evening. In `session` one call is enough for a page that
closes under its call, and the second kill reaches what a kill inside a sign-out left
behind. Three pages are a form or `MainScreen`, one page on it, and one more that an
impatient user opens. With a name and the blank an answer of the wrong moment can be
told apart in `profile`. Three calls in `cinema_info` are two that overlap on a page
and one of a page that was left. Deadlock is not checked in `active_tickets`: there the
calendar and the number of tickets are bounded, and the bounded system may stop.

Fairness. `FairSpec` of `SeatBooking` assumes that the Firestore client sends
what it has queued and that every `get` ends with an answer or an error, as that client
does (it gives up on an unreachable server); nothing
is assumed of the user, and nothing makes a call of `inserttickets` succeed.
`Session` assumes that the plugin's messages are delivered, that a started `Timer`
fires and that the storage's read ends, with an answer or by throwing; nothing of logins,
sign-ups or the user. `Profile` and `HomeFilms` assume only that answers and events that have
arrived are seen, which is Dart's event loop.

The code sets no time limit on `getCurrentPosition`, on `http.get`, on `reload()` or on
the `get` of the personal pages. That these end is therefore no part of
a specification: it is a hypothesis of the liveness property that needs it
(`EveryRequestEnds` in `SpinnerEnds`, `WaitsEnd` in `HomeRecovers`, `FetchesEnd` in
`PagesFill`). Without it, a position that is never fixed leaves the spinner for
ever. `HomeRecovers` and `SplashEnds` are conditional on a connection
that stays in the end as well.

### Where code and documentation disagree

| run | what happens | README line |
|---|---|---|
| `double_booking` | two phones both book a seat both saw as free: `insertData` writes without looking again | 17 |
| `unpaid_seats` | a seat taken back after a visit to `FinalPay` stays in `finallist` and is sold with the next payment, to nobody | 17 |
| `missing_ticket` | OK is pressed before the read of `inserttickets` ends: `setState` throws on the closed screen and no ticket is written | 19 |

Four more are stated in the modules beside the properties that hold; TLC refutes each as
the property of a small configuration.

| property | what happens | README line |
|---|---|---|
| `SeatMapOfThisShow` (`SeatBooking`) | a show is left before Firestore answers and another opened: the late answer is drawn as the seats of the second (`seats_bloc.dart:65`) | 17 |
| `PageThere` (`Session`) | Reset Password is tapped twice, or left just before its answer: the answer comes during the exit transition of the page and pops the login page, the last one (`resetPassword.dart:144`) | 25 |
| `HeaderReflects` (`Profile`) | the connection goes and comes back while the edit page is open: the fetch after it uses an unmounted context, and the old name stays (`profile.dart:93`, `finalPay.dart:209`) | 12 |
| `OrdersSpinnerEnds` (`Profile`) | a fetch of the orders fails: `OrderError` is drawn as the same spinner as `OrderLoading`, and nothing ends it (`orders.dart:285`) | 26 |

Each of the following follows from a module as well, as a property that fails when its
condition is dropped; they are why the properties and theorems have conditions.

- Two calls of `inserttickets` that read the same list: the later write drops
  the earlier ticket (README line 20; `upi.dart:104`).
- A show at 12:xx is parsed as 00:xx and leaves the active tickets at one in the
  morning of its day (line 19): the exception in `UpcomingShown`.
- `ExpiredHiddenSameDay` without "same day" fails when midnight passes under an await.
- From January to September `DateTime.parse` rejects the app's own dates: the
  seat screen cannot be drawn, and any non-empty ticket list ends in an error
  (`FailsOnlyByToday` says that this is the only such cause).
- After an error status the list of the previous date is offered, and booked,
  under the picked date (line 16); an impatient user gets the same from two
  answers out of order: hence `Calm`.
- A list that arrives while another phone sells the same show makes the next list of
  that phone undo it (README line 17; `upi.dart:57`): `outdated` in `NoSaleLost`.
- An account without a document: `int.parse` throws on the phone number after the
  account was made, or the app is killed in between (line 11). Such a user
  can sign in but never sees "created": `ConfirmedHasData` is about who did.
- The splash page is left three seconds after a connection was reported, also if
  it was lost again (line 24): `SplashNeedsConnection` says what remains true.
- `AccessLocation` is never shown, because `permission` is never set (line 13).
  `FilmsNeedPosition` says what a user without location still does not get.
- An impatient user who leaves the account page during a sign-out stays on
  `MainScreen` without a Firebase user: hence `patient` in `MainHasUser`.
- `MainScreen` is drawn for nobody while the storage is read, and for good if that
  throws: `MainHasUser` is about the pages that came of an answer or a login.
- A user who signs out while a fetch is under way leaves its answer to the next
  one: hence `patient` in `HeaderFresh` and `OrdersComplete`.
- A cinema sheet after an error status shows the cinema asked for before
  (line 18): hence `honest` in `SheetOfTapped`.
- A request of the time without connection that fails late puts its error over
  the films (line 26): hence `ordered` in `HomeRecovers`.

## 4. Proofs

`SeatBookingProofs`: `BookingInv`, which contains `TypeOK`, is inductive, for any sets of
phones, shows and accounts and any finite set of seats. `TicketHonest` is not
inductive alone: a ticket is built from `seatIndex` after an await. What saves it is
that a call in progress has its payment screen open (`InsertInv`), that the
selection changes only on the seat screen, and that leaving the payment screen
drops the call. `PaidAmountRight` rests on `OrderInv` (the order belongs to the
current selection on every later screen) and `SelectionInv`. From these follow
`TypeCorrect`, `TicketsAreHonest` and `AmountsAreRight`.

That no ticket arrives before its seats (`SeatsComeFirst`) is not inductive
either, because a phone writes back the whole list it has read, tickets of other
phones included. `TicketOrderInv` follows a list on its way: in a read, and in a
queued write, the tickets of other phones name payments whose seats are sent
(`SentByOthers`: only what reached the server can be read from another phone), and
behind a queued list no seats of a ticket of the phone's own in it are queued
(`SeatsAhead`). A new payment disturbs neither, since by `TicketHonest` and
`InsertInv` no ticket of it exists yet.

`SeatLedgerProofs`: `LedgerInv` holds for any phones that open any shows. Of every show
that is not `outdated` it says, per phone: its queued lists grow from what is sold; every
payment is sold or in its own queued write; and what the open seat screen draws,
an answer for it that has been read, and `finallist` miss no sale together. A seat write of
another phone is the step that could break it. If the phone has the show open
or a list of it queued at that moment the show becomes `outdated`; if not, the phone has
nothing of the show but answers that were read and not yet shown, and those count only
once the show is opened again, where `OpenShow` looks for them. Hence
`SalesAreKept` (a sale is lost in an outdated show only) and the action property
`SoldOnlyGrows` (the step that takes a seat out comes after the show became outdated).
The theorems have no assumption on phones or users; what they leave
open is what `outdated` names, and `double_booking` and `SeatMapOfThisShow` show that the
code gets there.

Also in `SeatLedgerProofs`: the booking path
implements `SeatLedger` (`BookingIsBoxOffice`). A payment maps to `Confirm`, the
arrival of a seat write to `Enter`, a step that takes up an old or foreign list to
`Dispute`, every other step to a stutter step. That the
write enters the *oldest* sale that is due, and exactly that one, needs one more
invariant, `QueueInv`: the seat writes wait in the order of their payments, each
for the show of its payment and with the seats of it (`QueueInvariant`). That nothing leaves
the ledger of an undisputed show comes from `LedgerInv`, and that a sale has its price
from `BookingInv`.

`ActiveTicketsProofs`: for every calendar and all hours the list misses no ticket to come
(`UpcomingAreShown`, with the exception of noon), since the shared date is never
ahead of the clock (`DateNotAhead`); nothing expired is listed on the day of the
fetch (`ExpiredAreHidden`); and only today's date can make the list fail
(`FailuresAreOfToday`), since every booked date parses.

`ShowtimesProofs`: in every environment the spinner has a request, the date is one
of those offered and the seat screen is of the page; in a calm one page, requests,
list and seat screen are about one film and one date (`ShowtimesInvariant`,
`SlotIsOfChosenShow`). A day gone by is chosen only on a page older than midnight
(`PastOnlyAfterMidnight`). No theorem of the module has an assumption.

`SessionProofs`: `SessionInv`, types included, is inductive for any users, any number of
calls, pages, messages and kills. Its parts: who is where (`NavInv`: the splash page is
alone, on a `MainScreen` of an unread storage lie account pages only, and no form is
sent from there), what the splash page still has to hear
(`MessageInv`), who made which account and document (`CallerInv`, `DataInv`), and, of
a user who waits, what the call in progress has done so far (`CallInv`, `PagesAgree`,
`MemoryInv`). For an impatient user nothing is claimed of the stack: a page that closes may
take another with it, down to the last (`PageThere`). The last three say for each await of login, sign-up and sign-out which
of storage, Firebase and pages has changed already; a kill or a failure there leaves
memories the next launch can work with. Hence `UsersStaySignedIn` and
`MainPagesHaveUser`; `ConfirmedUsersHaveData` and `SplashLeftWithConnection` hold for
any user. The proof showed two facts missing from the invariant as TLC had accepted
it: that whoever logs in is somebody (`CallerInv`), and that exactly the pages above
the first are `reset` or `account`.

`ProfileProofs`: `ProfileInv` is inductive for any accounts, names, tickets
and fetches. Answers may well be stale; what holds is that the *last* one is not. For
each of the three fetchers (both blocs, the edit page) `Fresh` says: when its page is on
display and no read is to come, the last answer under way for it is what is stored, and
with none under way the state is. For the header this is so while `missed` is false and
its tab is built: `NetLost` takes it out of the claim, `NetBack` brings it back with a fetch,
also under the page of orders, and `LeaveEdit` either fetches or sets `missed`. It needs that answers and fetches correspond one to
one (`AnswerInv`) and are for the account that is signed in (`WhoInv`). From it follow
`HeaderIsFresh`, `OrdersAreComplete` and `EditIsStored`.

`HomeFilmsProofs`: `FilmsKept` is inductive alone; `FilmsNeedPosition` rests on
`HomeInv`: a request, and so the library's list, comes only from a handler that
knew the position.

`CinemaInfoProofs`: `InfoInv` is inductive for any cinemas and calls. `CallInv`
ties a living call to its page, `FrameInv` says what a sheet that waits for its frame
will find in `distance`, `WaitInv` that a user who waits has one call or one sheet.
`SheetsAreOfTapped` follows from `WaitInv`; the action property `TopSheetsAreWhole`,
for every user, from `FrameInv`.

The theorems about a user who waits, a server without error statuses or reads that
do not fail have that as a hypothesis inside the property (`patient`, `honest`,
`reliable` are variables fixed in `Init`), not as an assumption on constants. The constants
are assumed to be what their names say: sets, natural numbers, markers such as
`NoUser` that are in no set.

Only model-checked: the liveness properties (`LoadingEnds`, `PagesFill`,
`PaidSeatsGetSold`, `SpinnerEnds`, `SplashEnds`, `HomeRecovers`), since liveness under
fairness is beyond the prover, and the violations, which are behaviours.

## 5. Modelling decisions

- `main.dart` is not in the repository; the blocs are taken to be provided
  above the navigator, as every `BlocProvider.of` needs.
- Documents exist (`snapshot.data()!` is used without a test), Firestore accepts
  every write, and a `get` is answered by the server with the phone's own queued
  writes laid over it, not from an old cache.
- Events of a bloc reach their handler in a microtask, before the next tap: a
  new screen is never tapped in the state the bloc had before.
- A rebuild of the navigator that creates a new `SelectSeat` with empty lists
  (a change of locale) is left out.
- Pop-ups that change nothing (`showMax`, `showPopup`) are stutter steps: every tap is
  optional. A "no internet" view takes taps away, and unmounts what it replaces. Where
  something hangs on that, it is modelled: films (`HomeFilms`), the profile tab and
  the tiles that open the edit page (`Profile`), forms and messages (`Session`). On the pages of
  the booking path, the showtimes and the sheets no call uses a context from below the
  `StreamBuilder` after an await, and the lists live in the page's own state, so there the
  view only takes taps away.
- `seatsoften` is a twin of `seatIndex`. `finallist` and sold lists may hold
  duplicates in the code; it asks only `contains`.
- `SeatBooking` assumes a date that parses; `ActiveTickets` has the rest.
- `ticketsnow.contains(item)` compares fresh maps and is never true: the loop is a
  filter.
- A rebuild of the `FutureBuilder` after the splash page for another reason than its
  answer, which would read the storage again, is left out. Several timers of the splash
  page are as one: one that ends during the exit transition opens the same page again.
- A page's exit transition ends at any time (`TransitionEnds`), so that the few hundred
  milliseconds are not measured.
- In `Session` a failed call ends without effect; an exception the code does
  not catch and one it shows in a snack bar are the same there.
- `Profile`, `Session` and `SeatBooking` have the parts they need of each other
  as actions of their own (`SignIn`, `SignOut`, `Book`), each the effect of the
  other module's step on the shared document or user.
- The position is requested and then not used (the header is fixed): it can only
  make `getCinema` throw.

## 6. Not modelled, and the plan

- The page for changing the password: one press, in which `updatePassword` is
  called before the form is validated; nothing interleaves with it but its own
  answer, which is ignored. The upload of a picture.
- Search and film details: `main.dart`, `search_page.dart` and `detailMovie.dart`
  are not in the repository, so how `LiveMovieBloc` and `DetailMovieBloc` are
  driven is not known. `CinemaBloc` and the APIs `coming_soon_api`, `showtime`
  and `TimeCinema` have no caller.
- `ConnectivityBloc` mirrors the platform's events and is read by no page that
  acts on it; `AccessLocation` is unreachable.

Next: sharper statements about what is proved. That of two phones on one outdated show each
loses at most what the other wrote since it last read; that a ticket is dropped only by a call
that had read the list before it (`upi.dart:104`); action properties of `Session`
(what a kill may change) and of `Profile` (a save is never undone by a fetch).

Left out for good: unreachable code (`nearCinema.dart`, `netbanking.dart`,
`verifyEmailPage.dart`, the `signOut` of `mainhome.dart` and `homeScreen.dart`),
JSON models, static pages, maps and layout, platform projects and vendored pods.
