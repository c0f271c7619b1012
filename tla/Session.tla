----------------------------- MODULE Session -----------------------------
(***************************************************************************)
(* Who is signed in on a phone, and which pages the app shows for it: the  *)
(* splash page with its timer, login(), createAccount(), the reset page    *)
(* and signOut() of the account page.                                      *)
(*                                                                         *)
(* The app remembers a session twice: as "uid" in the secure storage,      *)
(* which the splash page reads, and as the user Firebase keeps, which all  *)
(* other pages read.  The two are changed one after the other, with an     *)
(* await in between, and a kill of the app keeps both.                     *)
(***************************************************************************)
EXTENDS Naturals, Sequences

CONSTANTS
  Users,      \* e-mail addresses with their password
  NoUser,     \* nobody
  MaxCalls,   \* bound: calls of login, createAccount... in progress
  MaxPages,   \* bound: pages of the Navigator
  MaxInbox,   \* bound: connectivity messages on their way to the splash page
  MaxKills    \* bound: kills of the app

ASSUME UserAssumption  == NoUser \notin Users
ASSUME BoundAssumption == /\ MaxCalls \in Nat \ {0}
                          /\ MaxPages \in Nat \ {0}
                          /\ MaxInbox \in Nat \ {0, 1}
                          /\ MaxKills \in Nat

VARIABLES
  patient,    \* environment, never changed: the user acts only when no call
              \* is in progress
  net,        \* the phone is connected
  inbox,      \* what the connectivity plugin has told the splash page so far
  isoffline,  \* field of the splash page
  timer,      \* a three seconds' Timer of the splash page runs
  stack,      \* the pages of the Navigator, the visible one last
  uid,        \* "uid" of the secure storage
  fbUser,     \* currentUser of Firebase Auth
  accounts,   \* accounts Firebase Auth has
  docs,       \* documents of the collection users
  calls,      \* calls in progress
  session,    \* history: the user in whose name MainScreen was opened, until
              \* Sign Out is tapped
  confirmed,  \* history: users who were told "Account created successfully"
  kills,      \* history: kills so far
  heard       \* history: the phone was connected at some time since the app
              \* was launched

splashVars == <<inbox, isoffline, timer>>
storeVars  == <<uid, fbUser>>
serverVars == <<accounts, docs>>
vars == <<patient, net, inbox, isoffline, timer, stack, uid, fbUser, accounts,
          docs, calls, session, confirmed, kills, heard>>
--------------------------------------------------------------------------
Slots == 1 .. MaxCalls

\* The splash page is followed by a FutureBuilder, which draws MainScreen while the
\* storage has not answered ("check") and for good if its read throws
\* ("unchecked"); after the answer it is LoginScreen or MainScreen ("main").
Unread    == {"check", "unchecked"}
MainPages == Unread \cup {"main"}
Pages     == MainPages \cup {"splash", "login", "signup", "reset", "account"}

\* A call and the await it is in.  Its page is mounted, or was left and is mounted
\* until the end of its exit transition ("closing"), or is gone.
CallRec == [kind  : {"none", "login", "createAccount", "reset", "signOut"},
            phase : {"none", "asked", "granted", "storing", "deleting", "leaving"},
            user  : Users \cup {NoUser},
            page  : {"mounted", "closing", "gone"}]
NoCall  == [kind |-> "none", phase |-> "none", user |-> NoUser, page |-> "gone"]

\* The page whose context a call uses.
PageOf(kind) ==
  CASE kind = "login"         -> "login"
    [] kind = "createAccount" -> "signup"
    [] kind = "reset"         -> "reset"
    [] kind = "signOut"       -> "account"
    [] OTHER                  -> "none"

\* The answer of con(), and an event of onConnectivityChanged.
Message == [of : {"con", "change"}, net : BOOLEAN]

\* What a new splash page is told: the answer con() asked for, and an event for
\* the connection there is, if there is one.
FirstMessages(n) ==
  IF n THEN << [of |-> "con", net |-> TRUE], [of |-> "change", net |-> TRUE] >>
       ELSE << [of |-> "con", net |-> FALSE] >>

\* Types of the variables (splash.dart 25-47, login_screen.dart 26-41,
\* signup_screen.dart 53-63).
TypeOK ==
  /\ patient \in BOOLEAN
  /\ net \in BOOLEAN
  /\ inbox \in Seq(Message)
  /\ isoffline \in BOOLEAN
  /\ timer \in BOOLEAN
  /\ stack \in Seq(Pages)
  /\ uid \in Users \cup {NoUser}
  /\ fbUser \in Users \cup {NoUser}
  /\ accounts \in SUBSET Users
  /\ docs \in [Users -> {"none", "queued", "stored"}]
  /\ calls \in [Slots -> CallRec]
  /\ session \in Users \cup {NoUser}
  /\ confirmed \in SUBSET Users
  /\ kills \in 0 .. MaxKills
  /\ heard \in BOOLEAN

\* A phone on which nobody has signed in yet; some users have accounts.
Init ==
  /\ patient \in BOOLEAN
  /\ net \in BOOLEAN
  /\ inbox = FirstMessages(net)
  /\ isoffline = FALSE
  /\ timer = FALSE
  /\ stack = << "splash" >>
  /\ uid = NoUser
  /\ fbUser = NoUser
  /\ accounts \in SUBSET Users
  /\ docs = [u \in Users |-> IF u \in accounts THEN "stored" ELSE "none"]
  /\ calls = [k \in Slots |-> NoCall]
  /\ session = NoUser
  /\ confirmed = {}
  /\ kills = 0
  /\ heard = net
--------------------------------------------------------------------------
(* Pages and calls.                                                        *)
Top      == IF stack = <<>> THEN "none" ELSE stack[Len(stack)]
Base     == IF stack = <<>> THEN "none" ELSE stack[1]
Shows(p) == \E i \in 1 .. Len(stack) : stack[i] = p

Idle   == \A k \in Slots : calls[k] = NoCall
MayTap == patient => Idle /\ Base # "check"

\* Navigator.pushReplacement, push and pop.
Replaced(p) == [stack EXCEPT ![Len(stack)] = p]
Pushed(p)   == Append(stack, p)
Popped      == SubSeq(stack, 1, Len(stack) - 1)

\* The page of call r has been left.
Left(r) == IF r.page = "mounted" THEN [r EXCEPT !.page = "closing"] ELSE r

\* The calls cs after page p was left.
Without(cs, p) ==
  [k \in Slots |-> IF PageOf(cs[k].kind) = p THEN Left(cs[k]) ELSE cs[k]]
Ended(k) == [calls EXCEPT ![k] = NoCall]

\* A call starts, in the first free slot.
StartCall(kind, phase, u) ==
  \E k \in Slots :
    /\ calls[k] = NoCall
    /\ \A j \in 1 .. (k - 1) : calls[j] # NoCall
    /\ calls' = [calls EXCEPT ![k] =
                   [kind |-> kind, phase |-> phase, user |-> u, page |-> "mounted"]]

\* The call may still use the Navigator, through the context of its page, and the
\* Navigator has a page to take away.
HasNavigator(k) == calls[k].page # "gone" /\ stack # <<>>

InCall(k, kind, phase) == calls[k].kind = kind /\ calls[k].phase = phase
--------------------------------------------------------------------------
(* The splash page.                                                        *)

\* The connection comes or goes; the plugin tells the splash page.
NetChange ==
  /\ Base = "splash" => Len(inbox) < MaxInbox
  /\ net' = ~ net
  /\ inbox' = IF Base = "splash"
                THEN Append(inbox, [of |-> "change", net |-> ~ net])
                ELSE inbox
  /\ heard' = (heard \/ ~ net)
  /\ UNCHANGED <<patient, isoffline, timer, stack, storeVars, serverVars, calls,
                 session, confirmed, kills>>

\* Fault: every message starts the timer.
ListenToAll ==
  /\ inbox # <<>>
  /\ inbox' = Tail(inbox)
  /\ isoffline' = (IF Head(inbox).of = "con" THEN ~ Head(inbox).net
                   ELSE isoffline \/ ~ Head(inbox).net)
  /\ timer' = TRUE
  /\ UNCHANGED <<patient, net, stack, storeVars, serverVars, calls, session,
                 confirmed, kills, heard>>

\* Fault: only con(), which is asked once, starts the timer.
ListenOnce ==
  /\ inbox # <<>>
  /\ inbox' = Tail(inbox)
  /\ isoffline' = (IF Head(inbox).of = "con" THEN ~ Head(inbox).net
                   ELSE isoffline \/ ~ Head(inbox).net)
  /\ timer' = (timer \/ (Head(inbox).of = "con" /\ Head(inbox).net))
  /\ UNCHANGED <<patient, net, stack, storeVars, serverVars, calls, session,
                 confirmed, kills, heard>>

\* con() sets isoffline; the listener sets it only when the connection is
\* lost, and starts a timer, which nothing ever stops, when there is one.
\* Several timers are as one: the first to end leaves the page, one that ends
\* during the transition opens the same page again, and the others find their
\* context unmounted.
Listen ==
  /\ inbox # <<>>
  /\ inbox' = Tail(inbox)
  /\ isoffline' = (IF Head(inbox).of = "con" THEN ~ Head(inbox).net
                   ELSE isoffline \/ ~ Head(inbox).net)
  /\ timer' = (timer \/ (Head(inbox).of = "change" /\ Head(inbox).net))
  /\ UNCHANGED <<patient, net, stack, storeVars, serverVars, calls, session,
                 confirmed, kills, heard>>

\* The timer replaces the splash page by the FutureBuilder of checkLoginStatus.
\* The listener is not cancelled, but does nothing without its page.
TimerFires ==
  /\ timer
  /\ Top = "splash"
  /\ stack' = Replaced("check")
  /\ timer' = FALSE
  /\ inbox' = <<>>
  /\ UNCHANGED <<patient, net, isoffline, storeVars, serverVars, calls, session,
                 confirmed, kills, heard>>

\* The FutureBuilder is drawn again: its page changes, also under a page that was
\* opened from it.
Redrawn(p) == [stack EXCEPT ![1] = p]

\* Fault: every start is taken for a signed-in one.
CheckAlwaysMain ==
  /\ Base = "check"
  /\ stack' = Redrawn("main")
  /\ session' = uid
  /\ UNCHANGED <<patient, net, splashVars, storeVars, serverVars, calls,
                 confirmed, kills, heard>>

\* checkLoginStatus: only the stored uid decides; permission is never assigned,
\* so the page AccessLocation is never shown.
CheckLoginStatus ==
  /\ Base = "check"
  /\ stack' = Redrawn(IF uid = NoUser THEN "login" ELSE "main")
  /\ session' = uid
  /\ UNCHANGED <<patient, net, splashVars, storeVars, serverVars, calls,
                 confirmed, kills, heard>>

\* The read throws: there are no data, which is not false.
CheckFails ==
  /\ Base = "check"
  /\ stack' = Redrawn("unchecked")
  /\ UNCHANGED <<patient, net, splashVars, storeVars, serverVars, calls, session,
                 confirmed, kills, heard>>
--------------------------------------------------------------------------
(* Pages the user goes to.  The forms are drawn only with a connection.    *)

\* "Sign Up" and "Sign in" replace one form by the other.
SwitchForm(from, to) ==
  /\ Top = from
  /\ net
  /\ MayTap
  /\ stack' = Replaced(to)
  /\ calls' = Without(calls, from)
  /\ UNCHANGED <<patient, net, splashVars, storeVars, serverVars, session,
                 confirmed, kills, heard>>

\* "Forgot Password?", and the way from MainScreen to the account page.
OpenPage(from, to) ==
  /\ Top = from
  /\ from = "login" => net
  /\ MayTap
  /\ Len(stack) < MaxPages
  /\ stack' = Pushed(to)
  /\ UNCHANGED <<patient, net, splashVars, storeVars, serverVars, calls, session,
                 confirmed, kills, heard>>

\* The back button.
Back ==
  /\ Len(stack) > 1
  /\ MayTap
  /\ stack' = Popped
  /\ calls' = Without(calls, Top)
  /\ UNCHANGED <<patient, net, splashVars, storeVars, serverVars, session,
                 confirmed, kills, heard>>
--------------------------------------------------------------------------
(* login().                                                                *)
TapLogin(u) ==
  /\ Top = "login"
  /\ net
  /\ MayTap
  /\ StartCall("login", "asked", u)
  /\ UNCHANGED <<patient, net, splashVars, stack, storeVars, serverVars, session,
                 confirmed, kills, heard>>

\* signInWithEmailAndPassword succeeds; the uid is given to the storage.
SignedIn(k) ==
  /\ InCall(k, "login", "asked")
  /\ net
  /\ calls[k].user \in accounts
  /\ fbUser' = calls[k].user
  /\ calls' = [calls EXCEPT ![k].phase = "storing"]
  /\ UNCHANGED <<patient, net, splashVars, stack, uid, serverVars, session,
                 confirmed, kills, heard>>

\* Fault: MainScreen is opened, the uid is never written.
UidNotStored(k) ==
  /\ InCall(k, "login", "storing")
  /\ IF HasNavigator(k)
       THEN /\ stack' = Replaced("main")
            /\ session' = calls[k].user
            /\ calls' = Without(Ended(k), Top)
       ELSE /\ calls' = Ended(k)
            /\ UNCHANGED <<stack, session>>
  /\ UNCHANGED <<patient, net, splashVars, uid, fbUser, serverVars, confirmed,
                 kills, heard>>

\* The uid is stored and MainScreen replaces the visible page; without its
\* context the call throws.
UidStored(k) ==
  /\ InCall(k, "login", "storing")
  /\ uid' = calls[k].user
  /\ IF HasNavigator(k)
       THEN /\ stack' = Replaced("main")
            /\ session' = calls[k].user
            /\ calls' = Without(Ended(k), Top)
       ELSE /\ calls' = Ended(k)
            /\ UNCHANGED <<stack, session>>
  /\ UNCHANGED <<patient, net, splashVars, fbUser, serverVars, confirmed, kills,
                 heard>>
--------------------------------------------------------------------------
(* createAccount().                                                        *)
TapSignUp(u) ==
  /\ Top = "signup"
  /\ net
  /\ MayTap
  /\ StartCall("createAccount", "asked", u)
  /\ UNCHANGED <<patient, net, splashVars, stack, storeVars, serverVars, session,
                 confirmed, kills, heard>>

\* Firebase Auth makes the account; the phone has not heard of it yet.
AccountMade(k) ==
  /\ InCall(k, "createAccount", "asked")
  /\ net
  /\ calls[k].user \notin accounts
  /\ accounts' = accounts \cup {calls[k].user}
  /\ calls' = [calls EXCEPT ![k].phase = "granted"]
  /\ UNCHANGED <<patient, net, splashVars, stack, storeVars, docs, session,
                 confirmed, kills, heard>>

\* The phone hears of the account, which signs it in.  Then the document is set,
\* or int.parse throws on the phone number and the call ends.
CreateUserAnswers(k) ==
  /\ InCall(k, "createAccount", "granted")
  /\ fbUser' = calls[k].user
  /\ \/ /\ docs' = [docs EXCEPT ![calls[k].user] = "queued"]
        /\ calls' = [calls EXCEPT ![k].phase = "storing"]
     \/ /\ calls' = Ended(k)
        /\ UNCHANGED docs
  /\ UNCHANGED <<patient, net, splashVars, stack, uid, accounts, session,
                 confirmed, kills, heard>>

\* Firestore's client sends a queued document while its user is signed in.
DocumentSent(u) ==
  /\ docs[u] = "queued"
  /\ net
  /\ fbUser = u
  /\ docs' = [docs EXCEPT ![u] = "stored"]
  /\ UNCHANGED <<patient, net, splashVars, stack, storeVars, accounts, calls,
                 session, confirmed, kills, heard>>

\* Fault: the call does not wait for set to be acknowledged.
CreatedAtOnce(k) ==
  /\ InCall(k, "createAccount", "storing")
  /\ IF HasNavigator(k)
       THEN /\ confirmed' = confirmed \cup {calls[k].user}
            /\ stack' = Replaced("login")
            /\ calls' = Without(Ended(k), Top)
       ELSE /\ calls' = Ended(k)
            /\ UNCHANGED <<confirmed, stack>>
  /\ UNCHANGED <<patient, net, splashVars, storeVars, serverVars, session, kills,
                 heard>>

\* set has been acknowledged: the user is told and taken to LoginScreen;
\* without its context the call throws.
Created(k) ==
  /\ InCall(k, "createAccount", "storing")
  /\ docs[calls[k].user] = "stored"
  /\ IF HasNavigator(k)
       THEN /\ confirmed' = confirmed \cup {calls[k].user}
            /\ stack' = Replaced("login")
            /\ calls' = Without(Ended(k), Top)
       ELSE /\ calls' = Ended(k)
            /\ UNCHANGED <<confirmed, stack>>
  /\ UNCHANGED <<patient, net, splashVars, storeVars, serverVars, session, kills,
                 heard>>
--------------------------------------------------------------------------
(* The reset page.                                                         *)
TapReset ==
  /\ Top = "reset"
  /\ net
  /\ MayTap
  /\ StartCall("reset", "asked", NoUser)
  /\ UNCHANGED <<patient, net, splashVars, stack, storeVars, serverVars, session,
                 confirmed, kills, heard>>

\* The e-mail is sent: the visible page closes, which is the page below if this
\* one was left just now.  The last page may go, too.
ResetSent(k) ==
  /\ InCall(k, "reset", "asked")
  /\ net
  /\ IF HasNavigator(k)
       THEN /\ stack' = Popped
            /\ calls' = Without(Ended(k), Top)
       ELSE /\ calls' = Ended(k)
            /\ UNCHANGED stack
  /\ UNCHANGED <<patient, net, splashVars, storeVars, serverVars, session,
                 confirmed, kills, heard>>
--------------------------------------------------------------------------
(* signOut() of the account page.                                          *)
TapSignOut ==
  /\ Top = "account"
  /\ MayTap
  /\ StartCall("signOut", "deleting", NoUser)
  /\ session' = NoUser
  /\ UNCHANGED <<patient, net, splashVars, stack, storeVars, serverVars,
                 confirmed, kills, heard>>

\* Fault: Firebase first, then the storage, as signOut of mainhome.dart.
SignOutOfFirebaseFirst(k) ==
  /\ InCall(k, "signOut", "deleting")
  /\ fbUser' = NoUser
  /\ calls' = [calls EXCEPT ![k].phase = "leaving"]
  /\ UNCHANGED <<patient, net, splashVars, stack, uid, serverVars, session,
                 confirmed, kills, heard>>

\* The stored uid is deleted.
UidDeleted(k) ==
  /\ InCall(k, "signOut", "deleting")
  /\ uid' = NoUser
  /\ calls' = [calls EXCEPT ![k].phase = "leaving"]
  /\ UNCHANGED <<patient, net, splashVars, stack, fbUser, serverVars, session,
                 confirmed, kills, heard>>

\* Firebase signs out, and LoginScreen replaces all pages; without its context
\* the call throws and the pages stay.
SignedOut(k) ==
  /\ InCall(k, "signOut", "leaving")
  /\ fbUser' = NoUser
  /\ IF calls[k].page # "gone"
       THEN /\ stack' = << "login" >>
            /\ calls' = [j \in Slots |-> Left(Ended(k)[j])]
       ELSE /\ calls' = Ended(k)
            /\ UNCHANGED stack
  /\ UNCHANGED <<patient, net, splashVars, uid, serverVars, session, confirmed,
                 kills, heard>>
--------------------------------------------------------------------------
\* Any await may end with an exception: no effect but the end of the call.  An
\* answer may be lost on its way, with what it was the answer to done; an
\* acknowledgement of Firestore is only delayed.
CallFails(k) ==
  /\ calls[k] # NoCall
  /\ ~ InCall(k, "createAccount", "storing")
  /\ calls' = Ended(k)
  /\ UNCHANGED <<patient, net, splashVars, stack, storeVars, serverVars, session,
                 confirmed, kills, heard>>

\* The exit transition of a page ends, and with it the context of its calls.
TransitionEnds(k) ==
  /\ calls[k].page = "closing"
  /\ calls' = [calls EXCEPT ![k].page = "gone"]
  /\ UNCHANGED <<patient, net, splashVars, stack, storeVars, serverVars, session,
                 confirmed, kills, heard>>

\* The process ends and the app starts anew.
KillApp ==
  /\ kills < MaxKills
  /\ kills' = kills + 1
  /\ heard' = net
  /\ inbox' = FirstMessages(net)
  /\ isoffline' = FALSE
  /\ timer' = FALSE
  /\ stack' = << "splash" >>
  /\ calls' = [k \in Slots |-> NoCall]
  /\ UNCHANGED <<patient, net, storeVars, serverVars, session, confirmed>>

Answer(k) ==
  \/ SignedIn(k) \/ UidStored(k)
  \/ AccountMade(k) \/ CreateUserAnswers(k) \/ Created(k)
  \/ ResetSent(k)
  \/ UidDeleted(k) \/ SignedOut(k)
  \/ CallFails(k)

Next ==
  \/ NetChange \/ Listen \/ TimerFires \/ CheckLoginStatus \/ CheckFails
  \/ SwitchForm("login", "signup") \/ SwitchForm("signup", "login")
  \/ OpenPage("login", "reset") \/ Back
  \/ \E p \in MainPages : OpenPage(p, "account")
  \/ \E u \in Users : TapLogin(u) \/ TapSignUp(u) \/ DocumentSent(u)
  \/ TapReset \/ TapSignOut
  \/ \E k \in Slots : Answer(k) \/ TransitionEnds(k)
  \/ KillApp

Spec == Init /\ [][Next]_vars

\* The plugin delivers its messages, timers end, the storage answers or
\* throws.
FairSpec ==
  Spec /\ WF_vars(Listen) /\ WF_vars(TimerFires) /\ WF_vars(CheckLoginStatus)
--------------------------------------------------------------------------
(* Properties.                                                             *)

\* A user who reached MainScreen is signed in until Sign Out is tapped, across
\* kills, lost answers and lost connections: both memories of the session hold
\* the same user, and no form is among the pages.  Of a user who waits for each
\* call to end (README.md 10; login_screen.dart 38-47, account.dart 22-31,
\* splash.dart 29-37).
StaySignedIn ==
  (patient /\ session # NoUser) =>
    /\ uid = session
    /\ fbUser = session
    /\ \A i \in 1 .. Len(stack) : stack[i] \notin {"login", "signup", "reset"}

\* Behind a MainScreen that came of a login or of the answer of the storage, and
\* behind an account page opened from it, whose code reads currentUser without a
\* test, there is a Firebase user, at every point of a sign-out and after any kill
\* in it.  Of a user who waits; while the storage has not answered, and for good
\* if its read throws, MainScreen is drawn whoever is signed in, as CheckFails and
\* the pages "check" and "unchecked" say (account.dart 22-31, profile_bloc.dart
\* 17-22, splash.dart 88-95).
MainHasUser == patient => (Shows("main") => fbUser # NoUser)

\* Who was told that the account was created has an account and the personal
\* data in Firestore (README.md 11; signup_screen.dart 53-70).
ConfirmedHasData ==
  \A u \in confirmed : u \in accounts /\ docs[u] = "stored"

\* The splash page is left only after a connection was there since the app was
\* launched, although the timer is not stopped when it is lost (README.md 24;
\* splash.dart 75-98).
SplashNeedsConnection == Base # "splash" => heard

\* With a connection that stays, the splash page is left for good, and so is the
\* MainScreen drawn until the storage answers (splash.dart 75-98).
SplashEnds == (<>[] net) => <>[] (Base \notin {"splash", "check"})

\* There is always a page that can respond to the user (README.md 25;
\* resetPassword.dart 144).  Not so: of two resets the second answer, which comes
\* while the page that the first one closed is in its exit transition, closes the
\* login page.
PageThere == stack # <<>>
--------------------------------------------------------------------------
(* The inductive invariant behind SessionProofs.                           *)

\* The splash page is alone, and on an unread page there are account pages only;
\* messages and timers are of the splash page, which makes no call, and no form is
\* sent from an unread page.
NavInv ==
  /\ \A i \in 1 .. Len(stack) : i > 1 => stack[i] \notin Unread \cup {"splash"}
  /\ Base = "splash" => Len(stack) = 1
  /\ Base \in Unread => \A i \in 1 .. Len(stack) : i > 1 => stack[i] = "account"
  /\ Base \notin {"reset", "account"}
  /\ timer \/ inbox # <<>> => Base = "splash"
  /\ \A k \in Slots : /\ calls[k] # NoCall => Base # "splash"
                      /\ calls[k].kind \in {"login", "createAccount", "reset"}
                           => Base \notin Unread

\* While the splash page only spins, a timer or a message is still to come:
\* a user without a connection is told (splash.dart 49-101).
SplashSpinnerHasCause ==
  (Top = "splash" /\ ~ isoffline) => (timer \/ inbox # <<>>)

\* A splash page that spins is to hear of a connection or has heard of one.
MessageInv ==
  /\ \A i \in 1 .. Len(inbox) : inbox[i].of = "con" => i = 1
  /\ (inbox # <<>> /\ inbox[1].of = "con" /\ inbox[1].net) => Len(inbox) > 1
  /\ SplashSpinnerHasCause
  /\ \A i \in 1 .. Len(inbox) : inbox[i].net => heard
  /\ timer \/ Base # "splash" => heard

\* Who logs in or signs up is somebody.
CallerInv ==
  \A k \in Slots :
    calls[k].kind \in {"login", "createAccount"} => calls[k].user \in Users

\* Call k has made an account.
HasMade(k) ==
  calls[k].kind = "createAccount" /\ calls[k].phase \in {"granted", "storing"}

\* Documents are of accounts, and set by the call that made the account.
DataInv ==
  /\ \A u \in Users : docs[u] # "none" => u \in accounts
  /\ \A k \in Slots : HasMade(k) =>
       /\ calls[k].user \in accounts
       /\ calls[k].phase = "granted" => docs[calls[k].user] = "none"
       /\ \A j \in Slots : HasMade(j) /\ calls[j].user = calls[k].user => j = k
  /\ ConfirmedHasData

\* A call of a user who waits is the only one, made from the visible page, and
\* what it has done so far is known.
CallInv ==
  \A k \in Slots : calls[k] # NoCall =>
    /\ PageOf(calls[k].kind) = Top
    /\ calls[k].page = "mounted"
    /\ \A j \in Slots : calls[j] # NoCall => j = k
    /\ InCall(k, "login", "storing") => fbUser = calls[k].user
    /\ InCall(k, "signOut", "leaving") => uid = NoUser
    /\ calls[k].kind = "signOut" => session = NoUser

\* The reset and the account page lie on one other page, and what the pages say
\* of the two memories of the session.
PagesAgree ==
  /\ stack # <<>>
  /\ Base = "check" => Len(stack) = 1
  /\ \A i \in 1 .. Len(stack) :
       /\ stack[i] \in {"reset", "account"} <=> i > 1
       /\ stack[i] \in {"login", "signup", "reset"} => uid = NoUser /\ session = NoUser
       /\ stack[i] = "main" => fbUser # NoUser

\* What the two memories say of each other.
MemoryInv ==
  /\ uid # NoUser => fbUser = uid
  /\ session # NoUser => uid = session

\* Pages, messages and documents fit each other, and for a user who waits for
\* each call the stored uid, the Firebase user, the pages and the session agree,
\* although they change one at a time (splash.dart 49-101, login_screen.dart
\* 38-47, signup_screen.dart 53-70, account.dart 22-31).
SessionInv ==
  /\ TypeOK
  /\ NavInv
  /\ MessageInv
  /\ CallerInv
  /\ DataInv
  /\ patient => CallInv /\ PagesAgree /\ MemoryInv
==========================================================================
