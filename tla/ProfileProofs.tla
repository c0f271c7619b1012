-------------------------- MODULE ProfileProofs --------------------------
(***************************************************************************)
(* Proofs about Profile, for any number of accounts, names, tickets and    *)
(* fetches: header, page of orders and edit page show what is stored once  *)
(* no fetch is left.                                                       *)
(***************************************************************************)
EXTENDS Profile, SequenceTheorems, TLAPS

--------------------------------------------------------------------------
(* Fetches and answers.                                                    *)

\* No fetch is a fetch record, of no kind and in no stage.
LEMMA NoFetchFacts ==
  /\ NoFetch \in FetchRec
  /\ NoFetch.kind = "none"
  /\ NoFetch.stage = "none"
  /\ ~ NoFetch.alive
BY DEF NoFetch, FetchRec

\* A fetch fills a free slot, for the account that is signed in, and leaves the
\* other slots alone (profile_bloc.dart 17-22, order_bloc.dart 17-20).
LEMMA StartFills ==
  ASSUME NEW fs \in [Slots -> FetchRec], NEW kind \in Kinds, me \in Users,
         Start(kind, fs)
  PROVE  /\ fetches' \in [Slots -> FetchRec]
         /\ \E k \in Slots :
              /\ fs[k] = NoFetch
              /\ fetches'[k].kind = kind
              /\ fetches'[k].stage \in {"reload", "get"}
              /\ fetches'[k].who = me
              /\ fetches'[k].alive
              /\ \A j \in Slots \ {k} : fetches'[j] = fs[j]
<1> DEFINE new == [kind  |-> kind,
                   stage |-> IF kind = "orders" THEN "get" ELSE "reload",
                   who   |-> me,
                   alive |-> TRUE]
<1>1. PICK k \in Slots : fs[k] = NoFetch /\ fetches' = [fs EXCEPT ![k] = new]
  BY DEF Start
<1>2. /\ new \in FetchRec
      /\ new.kind = kind
      /\ new.stage \in {"reload", "get"}
      /\ new.who = me
      /\ new.alive
  BY DEF FetchRec
<1> HIDE DEF new
<1>3. fetches' \in [Slots -> FetchRec]
  BY <1>1, <1>2
<1>4. fetches'[k] = new /\ \A j \in Slots \ {k} : fetches'[j] = fs[j]
  BY <1>1
<1> QED
  BY <1>1, <1>2, <1>3, <1>4

\* Closing the edit page cuts its calls off and touches no other fetch
\* (edit_profile.dart 52-85).
LEMMA WithoutEditFacts ==
  ASSUME TypeOK
  PROVE  /\ WithoutEdit \in [Slots -> FetchRec]
         /\ \A k \in Slots :
              /\ fetches[k].kind # "edit" => WithoutEdit[k] = fetches[k]
              /\ fetches[k].kind = "edit" => /\ ~ WithoutEdit[k].alive
                                             /\ WithoutEdit[k] # NoFetch
              /\ WithoutEdit[k].kind = fetches[k].kind
              /\ WithoutEdit[k].stage = fetches[k].stage
              /\ WithoutEdit[k].who = fetches[k].who
<1>1. \A k \in Slots : fetches[k] \in FetchRec
  BY DEF TypeOK
<1>2. \A r \in FetchRec :
        LET q == [r EXCEPT !.alive = FALSE]
        IN /\ q \in FetchRec
           /\ ~ q.alive
           /\ q.kind = r.kind
           /\ q.stage = r.stage
           /\ q.who = r.who
  BY DEF FetchRec
<1>3. WithoutEdit = [k \in Slots |-> IF fetches[k].kind = "edit"
                                       THEN [fetches[k] EXCEPT !.alive = FALSE]
                                       ELSE fetches[k]]
  BY DEF WithoutEdit
<1>4. \A k \in Slots : WithoutEdit[k] \in FetchRec
  BY <1>1, <1>2, <1>3
<1>5. WithoutEdit \in [Slots -> FetchRec]
  BY <1>3, <1>4
<1>6. ASSUME NEW k \in Slots
      PROVE  /\ fetches[k].kind # "edit" => WithoutEdit[k] = fetches[k]
             /\ fetches[k].kind = "edit" => /\ ~ WithoutEdit[k].alive
                                            /\ WithoutEdit[k] # NoFetch
             /\ WithoutEdit[k].kind = fetches[k].kind
             /\ WithoutEdit[k].stage = fetches[k].stage
             /\ WithoutEdit[k].who = fetches[k].who
  <2>1. CASE fetches[k].kind = "edit"
    <3>1. WithoutEdit[k] = [fetches[k] EXCEPT !.alive = FALSE]
      BY <1>3, <2>1
    <3> QED
      BY <1>1, <1>2, <2>1, <3>1, NoFetchFacts
  <2>2. CASE fetches[k].kind # "edit"
    BY <1>3, <2>2
  <2> QED
    BY <2>1, <2>2
<1> QED
  BY <1>5, <1>6

\* An answer joins the others.
LEMMA AnswerJoins ==
  ASSUME NEW s \in Seq(Reply), NEW r \in Reply
  PROVE  /\ Append(s, r) \in Seq(Reply)
         /\ Len(s) \in Nat
         /\ Len(Append(s, r)) = Len(s) + 1
         /\ Append(s, r)[Len(s) + 1] = r
         /\ \A i \in 1 .. Len(s) : Append(s, r)[i] = s[i]
         /\ 1 .. Len(Append(s, r)) = 1 .. Len(s) \cup {Len(s) + 1}
<1>1. /\ Append(s, r) \in Seq(Reply)
      /\ Len(s) \in Nat
      /\ Len(Append(s, r)) = Len(s) + 1
      /\ Append(s, r)[Len(s) + 1] = r
      /\ \A i \in 1 .. Len(s) : Append(s, r)[i] = s[i]
  OBVIOUS
<1> QED
  BY <1>1

\* The oldest answer leaves, the others move up.
LEMMA AnswerLeaves ==
  ASSUME NEW s \in Seq(Reply), s # <<>>
  PROVE  /\ Head(s) = s[1]
         /\ s[1] \in Reply
         /\ Len(s) \in Nat
         /\ 1 \in 1 .. Len(s)
         /\ Tail(s) \in Seq(Reply)
         /\ Len(Tail(s)) = Len(s) - 1
         /\ \A i \in 1 .. Len(Tail(s)) : /\ i \in Nat
                                         /\ i + 1 \in 1 .. Len(s)
                                         /\ i + 1 # 1
                                         /\ Tail(s)[i] = s[i + 1]
<1>1. Head(s) = s[1] /\ s[1] \in Reply /\ Len(s) \in Nat /\ 1 \in 1 .. Len(s)
  OBVIOUS
<1>2. /\ Tail(s) \in Seq(Reply)
      /\ Len(Tail(s)) = Len(s) - 1
      /\ \A i \in 1 .. Len(Tail(s)) : Tail(s)[i] = s[i + 1]
  BY HeadTailProperties
<1>3. \A i \in 1 .. Len(Tail(s)) : /\ i \in Nat
                                   /\ i + 1 \in 1 .. Len(s)
                                   /\ i + 1 # 1
  BY <1>1, <1>2
<1> QED
  BY <1>1, <1>2, <1>3
--------------------------------------------------------------------------
(* What the steps do to fetches and answers.                               *)

\* Somebody is signed in on a page.
LEMMA SomebodyOnPage ==
  ASSUME TypeOK, FetchInv, page # "out"
  PROVE  me \in Users
BY DEF TypeOK, FetchInv

\* Steps that start a fetch: pages that open, tabs that are built anew, Save Changes,
\* and the way back from the edit page when its tile is still mounted.
Starting ==
  \/ OpenFinalPay \/ OpenOrders \/ OpenEdit \/ Save
  \/ OpenProfile /\ net
  \/ NetBack /\ TabOpen
  \/ LeaveEdit /\ ctx

\* They do it for the account that is signed in, the edit page closed or not.
LEMMA PageStarts ==
  ASSUME TypeOK, FetchInv, Starting
  PROVE  \E fs \in [Slots -> FetchRec], kind \in Kinds :
           /\ me \in Users
           /\ Start(kind, fs)
           /\ UNCHANGED <<patient, reliable, me, tickets, inbox>>
           /\ page # "out"
           /\ page' # "out"
           /\ \/ fs = fetches /\ ~ LeaveEdit
              \/ fs = WithoutEdit /\ LeaveEdit /\ kind = "profile" /\ page' # "edit"
           /\ kind = "edit" => page' = "edit"
           /\ (~ LeaveEdit /\ page = "edit") => page' = "edit"
<1>0. "profile" \in Kinds /\ "orders" \in Kinds /\ "edit" \in Kinds
  BY DEF Kinds
<1>1. fetches \in [Slots -> FetchRec] /\ WithoutEdit \in [Slots -> FetchRec]
  BY WithoutEditFacts DEF TypeOK
<1>2. page # "out" => me \in Users
  BY SomebodyOnPage
<1>3. CASE OpenFinalPay
  <2>1. /\ Start("profile", fetches)
        /\ UNCHANGED <<patient, reliable, me, tickets, inbox>>
        /\ page = "home" /\ page' = "pay"
    BY <1>3 DEF OpenFinalPay, FetchProfile, modeVars, tileVars, dataVars
  <2> QED
    BY <1>0, <1>1, <1>2, <2>1 DEF LeaveEdit
<1>4. CASE OpenProfile /\ net
  <2>1. /\ Start("profile", fetches)
        /\ UNCHANGED <<patient, reliable, me, tickets, inbox>>
        /\ page = "home" /\ page' = "profile"
    BY <1>4 DEF OpenProfile, FetchProfile, modeVars, tileVars, dataVars
  <2> QED
    BY <1>0, <1>1, <1>2, <2>1 DEF LeaveEdit
<1>5. CASE OpenOrders
  <2>1. /\ Start("orders", fetches)
        /\ UNCHANGED <<patient, reliable, me, tickets, inbox>>
        /\ page = "profile" /\ page' = "orders"
    BY <1>5 DEF OpenOrders, FetchOrder, modeVars, tileVars, dataVars
  <2> QED
    BY <1>0, <1>1, <1>2, <2>1 DEF LeaveEdit
<1>6. CASE OpenEdit
  <2>1. /\ Start("edit", fetches)
        /\ UNCHANGED <<patient, reliable, me, tickets, inbox>>
        /\ page \in {"profile", "pay"} /\ page' = "edit"
    BY <1>6 DEF OpenEdit, modeVars, dataVars
  <2> QED
    BY <1>0, <1>1, <1>2, <2>1 DEF LeaveEdit
<1>7. CASE Save
  <2>1. /\ Start("edit", fetches)
        /\ UNCHANGED <<patient, reliable, me, tickets, inbox, page>>
        /\ page = "edit"
    BY <1>7 DEF Save, modeVars
  <2>2. ~ LeaveEdit
    BY <2>1 DEF LeaveEdit, TypeOK
  <2> QED
    BY <1>0, <1>1, <1>2, <2>1, <2>2
<1>8. CASE LeaveEdit /\ ctx
  <2>1. /\ Start("profile", WithoutEdit)
        /\ UNCHANGED <<patient, reliable, me, tickets, inbox>>
        /\ page = "edit" /\ page' \in {"profile", "pay"}
    BY <1>8 DEF LeaveEdit, FetchProfile, modeVars, dataVars, TypeOK
  <2> QED
    BY <1>0, <1>1, <1>2, <1>8, <2>1
<1>9. CASE NetBack /\ TabOpen
  <2>1. /\ Start("profile", fetches)
        /\ UNCHANGED <<patient, reliable, me, tickets, inbox, page>>
        /\ page # "out"
    BY <1>9 DEF NetBack, FetchProfile, modeVars, tileVars, dataVars
  <2>2. ~ LeaveEdit
    BY <2>1 DEF LeaveEdit, TypeOK
  <2> QED
    BY <1>0, <1>1, <1>2, <2>1, <2>2
<1> QED
  BY <1>3, <1>4, <1>5, <1>6, <1>7, <1>8, <1>9 DEF Starting

\* The way back from an edit page whose tile is gone only cuts its calls off.
LEMMA ThrowsInstead ==
  ASSUME TypeOK, LeaveEdit, ~ ctx
  PROVE  /\ page = "edit"
         /\ page' \in {"profile", "pay"}
         /\ under' = "profile"
         /\ ctx' = FALSE
         /\ missed' = TRUE
         /\ fetches' = WithoutEdit
         /\ text' = Blank
         /\ typed' = FALSE
         /\ UNCHANGED <<patient, reliable, net, me, name, tickets, inbox, profile, orders>>
BY DEF LeaveEdit, TypeOK, modeVars, dataVars

\* The end of reload() moves its fetch on, and nothing else.
LEMMA ReloadedFacts ==
  ASSUME TypeOK, NEW k \in Slots, Reloaded(k)
  PROVE  /\ fetches[k].stage = "reload"
         /\ fetches[k] # NoFetch
         /\ fetches'[k].stage = "get"
         /\ fetches'[k].kind = fetches[k].kind
         /\ fetches'[k].who = fetches[k].who
         /\ fetches'[k].alive = fetches[k].alive
         /\ \A j \in Slots \ {k} : fetches'[j] = fetches[j]
         /\ UNCHANGED <<patient, reliable, net, me, page, under, ctx, missed, name,
                        tickets, inbox, profile, orders, text, typed>>
<1>1. /\ fetches[k].stage = "reload"
      /\ fetches' = [fetches EXCEPT ![k].stage = "get"]
      /\ UNCHANGED <<patient, reliable, net, me, page, under, ctx, missed, name,
                     tickets, inbox, profile, orders, text, typed>>
  BY DEF Reloaded, modeVars, tileVars, dataVars, editVars
<1>2. /\ fetches[k] \in FetchRec
      /\ fetches'[k] = [fetches[k] EXCEPT !.stage = "get"]
      /\ \A j \in Slots \ {k} : fetches'[j] = fetches[j]
  BY <1>1 DEF TypeOK
<1>3. /\ fetches'[k].stage = "get"
      /\ fetches'[k].kind = fetches[k].kind
      /\ fetches'[k].who = fetches[k].who
      /\ fetches'[k].alive = fetches[k].alive
  BY <1>2 DEF FetchRec
<1> QED
  BY <1>1, <1>2, <1>3, NoFetchFacts

\* A fetch that is answered with a document has the one of its account, as it is
\* stored at that moment (profile_bloc.dart 17-35).
LEMMA FetchAnswered ==
  ASSUME TypeOK, FetchInv, NEW k \in Slots, Got(k) \/ Throws(k)
  PROVE  \E r \in Reply :
           /\ inbox' = Append(inbox, r)
           /\ r.k = k
           /\ reliable => r.ok
           /\ r.ok => /\ r.name = name[fetches[k].who]
                      /\ r.tickets = tickets[fetches[k].who]
           /\ fetches' \in [Slots -> FetchRec]
           /\ fetches[k].stage \in {"reload", "get"}
           /\ fetches'[k].stage = "answered"
           /\ fetches'[k].kind = fetches[k].kind
           /\ fetches'[k].who = fetches[k].who
           /\ fetches'[k].alive = fetches[k].alive
           /\ \A j \in Slots \ {k} : fetches'[j] = fetches[j]
           /\ UNCHANGED <<patient, reliable, net, me, page, under, ctx, missed, name,
                          tickets, profile, orders, text, typed>>
<1>1. fetches[k] \in FetchRec /\ fetches[k].stage \in {"reload", "get"}
  BY DEF TypeOK, Got, Throws
<1>2. fetches[k].who \in Users
  BY <1>1, NoFetchFacts DEF FetchInv
<1>3. /\ fetches' = [fetches EXCEPT ![k].stage = "answered"]
      /\ UNCHANGED <<patient, reliable, net, me, page, under, ctx, missed, name,
                     tickets, profile, orders, text, typed>>
  BY DEF Got, Throws, modeVars, tileVars, dataVars, editVars
<1>4. /\ [fetches[k] EXCEPT !.stage = "answered"] \in FetchRec
      /\ [fetches[k] EXCEPT !.stage = "answered"].stage = "answered"
      /\ [fetches[k] EXCEPT !.stage = "answered"].kind = fetches[k].kind
      /\ [fetches[k] EXCEPT !.stage = "answered"].who = fetches[k].who
      /\ [fetches[k] EXCEPT !.stage = "answered"].alive = fetches[k].alive
  BY <1>1 DEF FetchRec
<1>5. fetches'[k] = [fetches[k] EXCEPT !.stage = "answered"]
  BY <1>3 DEF TypeOK
<1>6. \A j \in Slots \ {k} : fetches'[j] = fetches[j]
  BY <1>3 DEF TypeOK
<1>7. fetches' \in [Slots -> FetchRec]
  BY <1>3, <1>4 DEF TypeOK
<1>8. \E r \in Reply :
        /\ inbox' = Append(inbox, r)
        /\ r.k = k
        /\ reliable => r.ok
        /\ r.ok => /\ r.name = name[fetches[k].who]
                   /\ r.tickets = tickets[fetches[k].who]
  <2>1. CASE Got(k)
    <3> DEFINE r == [k |-> k, ok |-> TRUE, name |-> name[fetches[k].who],
                     tickets |-> tickets[fetches[k].who]]
    <3>1. name[fetches[k].who] \in Texts /\ tickets[fetches[k].who] \in 0 .. MaxTickets
      BY <1>2 DEF TypeOK
    <3>2. r \in Reply
      BY <3>1 DEF Reply
    <3>3. inbox' = Append(inbox, r)
      BY <2>1 DEF Got
    <3>4. /\ r.k = k
          /\ r.ok
          /\ r.name = name[fetches[k].who]
          /\ r.tickets = tickets[fetches[k].who]
      OBVIOUS
    <3> HIDE DEF r
    <3> QED
      BY <3>2, <3>3, <3>4
  <2>2. CASE Throws(k)
    <3> DEFINE r == [k |-> k, ok |-> FALSE, name |-> Blank, tickets |-> 0]
    <3>1. 0 \in 0 .. MaxTickets /\ Blank \in Texts
      BY BoundAssumption DEF Texts
    <3>2. r \in Reply
      BY <3>1 DEF Reply
    <3>3. inbox' = Append(inbox, r) /\ ~ reliable
      BY <2>2 DEF Throws
    <3>4. r.k = k /\ ~ r.ok
      OBVIOUS
    <3> HIDE DEF r
    <3> QED
      BY <3>2, <3>3, <3>4
  <2> QED
    BY <2>1, <2>2
<1> QED
  BY <1>1, <1>3, <1>4, <1>5, <1>6, <1>7, <1>8

\* Delivery takes the oldest answer, frees its fetch and shows it where its kind
\* belongs.
LEMMA DeliverFacts ==
  ASSUME TypeOK, FetchInv, AnswerInv, Deliver
  PROVE  LET r == inbox[1]
             kind == fetches[r.k].kind
         IN /\ inbox # <<>>
            /\ r \in Reply
            /\ r.k \in Slots
            /\ inbox' = Tail(inbox)
            /\ inbox' \in Seq(Reply)
            /\ fetches[r.k].stage = "answered"
            /\ kind \in Kinds
            /\ fetches' \in [Slots -> FetchRec]
            /\ fetches'[r.k] = NoFetch
            /\ \A j \in Slots \ {r.k} : fetches'[j] = fetches[j]
            /\ UNCHANGED <<patient, reliable, net, me, page, under, ctx, missed, name,
                           tickets>>
            /\ \/ kind = "profile" /\ ShowProfile(r)
               \/ kind = "orders"  /\ ShowOrders(r)
               \/ kind = "edit"    /\ ShowFields(r)
<1>1. inbox \in Seq(Reply) /\ inbox # <<>>
  BY DEF TypeOK, Deliver
<1>2. Head(inbox) = inbox[1] /\ inbox[1] \in Reply /\ 1 \in 1 .. Len(inbox)
  BY <1>1, AnswerLeaves
<1>3. Tail(inbox) \in Seq(Reply)
  BY <1>1, AnswerLeaves
<1>4. inbox[1].k \in Slots
  BY <1>2 DEF Reply
<1>5. fetches[inbox[1].k].stage = "answered"
  BY <1>2 DEF AnswerInv
<1>6. fetches[inbox[1].k].kind \in Kinds
  BY <1>4, <1>5, NoFetchFacts DEF FetchInv
<1>7. /\ inbox' = Tail(inbox)
      /\ fetches' = [fetches EXCEPT ![inbox[1].k] = NoFetch]
      /\ UNCHANGED <<patient, reliable, net, me, page, under, ctx, missed, name,
                     tickets>>
      /\ \/ fetches[inbox[1].k].kind = "profile" /\ ShowProfile(inbox[1])
         \/ fetches[inbox[1].k].kind = "orders"  /\ ShowOrders(inbox[1])
         \/ fetches[inbox[1].k].kind = "edit"    /\ ShowFields(inbox[1])
  BY <1>2 DEF Deliver, modeVars, tileVars, dataVars
<1>8. /\ fetches' \in [Slots -> FetchRec]
      /\ fetches'[inbox[1].k] = NoFetch
      /\ \A j \in Slots \ {inbox[1].k} : fetches'[j] = fetches[j]
  BY <1>4, <1>7, NoFetchFacts DEF TypeOK
<1> QED
  BY <1>1, <1>2, <1>3, <1>4, <1>5, <1>6, <1>7, <1>8

\* Steps that leave fetches and answers alone.
Resting ==
  \/ SignOut \/ Book \/ LeaveProfile \/ LeaveOrders \/ LeaveFinalPay
  \/ OpenProfile /\ ~ net
  \/ NetLost
  \/ NetBack /\ ~ TabOpen
  \/ UNCHANGED vars

LEMMA RestingFacts ==
  ASSUME TypeOK, Resting
  PROVE  /\ UNCHANGED <<patient, reliable, fetches, inbox, profile, orders, name, text,
                        typed, missed>>
         /\ page' = page \/ (page # "edit" /\ page' # "edit")
         /\ ~ SignOut => me' = me /\ (page' = "out" <=> page = "out")
         /\ SignOut => me' = NoUser /\ page' = "out"
         /\ page' \in {"out", "home", "pay", "profile", "edit", "orders"}
         /\ under' \in {"profile", "pay"}
         /\ ctx' \in BOOLEAN
         /\ net' \in BOOLEAN
         /\ ~ Book => tickets' = tickets
<1> USE DEF modeVars, tileVars, dataVars, editVars, TypeOK
<1>1. CASE SignOut
  BY <1>1 DEF SignOut, Book
<1>2. CASE Book
  BY <1>2 DEF Book, SignOut
<1>3. CASE LeaveProfile
  BY <1>3 DEF LeaveProfile, SignOut, Book
<1>4. CASE LeaveOrders
  BY <1>4 DEF LeaveOrders, SignOut, Book
<1>5. CASE LeaveFinalPay
  BY <1>5 DEF LeaveFinalPay, SignOut, Book
<1>6. CASE OpenProfile /\ ~ net
  BY <1>6 DEF OpenProfile, SignOut, Book
<1>7. CASE NetLost
  BY <1>7 DEF NetLost, SignOut, Book
<1>8. CASE NetBack /\ ~ TabOpen
  BY <1>8 DEF NetBack, SignOut, Book
<1>9. CASE UNCHANGED vars
  BY <1>9 DEF vars, SignOut, Book
<1> QED
  BY <1>1, <1>2, <1>3, <1>4, <1>5, <1>6, <1>7, <1>8, <1>9 DEF Resting

\* Every step is one of these.
LEMMA StepKinds ==
  ASSUME TypeOK, [Next]_vars
  PROVE  \/ \E k \in Slots : Reloaded(k) \/ Got(k) \/ Throws(k)
         \/ Deliver
         \/ Starting
         \/ LeaveEdit /\ ~ ctx
         \/ \E u \in Users : SignIn(u)
         \/ \E t \in Texts : Type(t)
         \/ Resting
         \/ KillApp
BY DEF Next, Answer, Starting, Resting

--------------------------------------------------------------------------
(* Types and the parts of the invariant about fetches and answers.         *)

LEMMA ProfileTypeStep ==
  ASSUME TypeOK, FetchInv, AnswerInv, [Next]_vars
  PROVE  TypeOK'
<1>0. /\ Blank \in Texts
      /\ 0 \in 0 .. MaxTickets
      /\ ProfileInitial \in ProfileState
      /\ OrderInitial \in OrderState
  BY BoundAssumption
  DEF Texts, ProfileInitial, ProfileState, OrderInitial, OrderState
<1>1. ASSUME NEW k \in Slots, Reloaded(k)
      PROVE  TypeOK'
  <2>1. [fetches[k] EXCEPT !.stage = "get"] \in FetchRec
    BY DEF TypeOK, FetchRec
  <2> QED
    BY <1>1, <2>1 DEF TypeOK, Reloaded, modeVars, tileVars, dataVars, editVars
<1>2. ASSUME NEW k \in Slots, Got(k) \/ Throws(k)
      PROVE  TypeOK'
  <2>1. PICK r \in Reply :
          /\ inbox' = Append(inbox, r)
          /\ fetches' \in [Slots -> FetchRec]
          /\ UNCHANGED <<patient, reliable, net, me, page, under, ctx, missed, name,
                         tickets, profile, orders, text, typed>>
    BY <1>2, FetchAnswered
  <2>2. inbox' \in Seq(Reply)
    BY <2>1, AnswerJoins DEF TypeOK
  <2> QED
    BY <2>1, <2>2 DEF TypeOK
<1>3. CASE Deliver
  <2> DEFINE r == inbox[1]
  <2>1. /\ r \in Reply
        /\ inbox' \in Seq(Reply)
        /\ fetches' \in [Slots -> FetchRec]
        /\ UNCHANGED <<patient, reliable, net, me, page, under, ctx, missed, name,
                       tickets>>
        /\ ShowProfile(r) \/ ShowOrders(r) \/ ShowFields(r)
    BY <1>3, DeliverFacts
  <2>2. r.name \in Texts /\ r.tickets \in 0 .. MaxTickets
    BY <2>1 DEF Reply
  <2> HIDE DEF r
  <2>3. /\ [st |-> "Loaded", profileData |-> r.name] \in ProfileState
        /\ [st |-> "Error", profileData |-> Blank] \in ProfileState
        /\ [st |-> "Loaded", orders |-> r.tickets] \in OrderState
        /\ [st |-> "Error", orders |-> 0] \in OrderState
    BY <1>0, <2>2 DEF ProfileState, OrderState
  <2>4. /\ profile' \in ProfileState
        /\ orders' \in OrderState
        /\ text' \in Texts
        /\ typed' \in BOOLEAN
    <3>1. CASE ShowProfile(r)
      BY <2>3, <3>1 DEF ShowProfile, editVars, TypeOK
    <3>2. CASE ShowOrders(r)
      BY <2>3, <3>2 DEF ShowOrders, editVars, TypeOK
    <3>3. CASE ShowFields(r)
      BY <2>2, <3>3 DEF ShowFields, editVars, TypeOK
    <3> QED
      BY <2>1, <3>1, <3>2, <3>3
  <2> QED
    BY <2>1, <2>4 DEF TypeOK
<1>4. CASE Starting
  <2>1. /\ fetches' \in [Slots -> FetchRec]
        /\ UNCHANGED <<patient, reliable, me, tickets, inbox>>
        /\ me \in Users
    BY <1>4, PageStarts, StartFills
  <2>2. /\ [st |-> "Loading", profileData |-> Blank] \in ProfileState
        /\ [st |-> "Loading", orders |-> 0] \in OrderState
    BY <1>0 DEF ProfileState, OrderState
  <2>3. /\ page' \in {"out", "home", "pay", "profile", "edit", "orders"}
        /\ under' \in {"profile", "pay"}
        /\ ctx' \in BOOLEAN
        /\ net' \in BOOLEAN
        /\ missed' \in BOOLEAN
        /\ name' \in [Users -> Texts]
        /\ profile' \in ProfileState
        /\ orders' \in OrderState
        /\ text' \in Texts
        /\ typed' \in BOOLEAN
    <3> USE DEF TypeOK, tileVars, dataVars, editVars
    <3>1. CASE OpenFinalPay
      BY <2>2, <3>1 DEF OpenFinalPay, FetchProfile
    <3>2. CASE OpenProfile /\ net
      BY <2>2, <3>2 DEF OpenProfile, FetchProfile
    <3>3. CASE OpenOrders
      BY <2>2, <3>3 DEF OpenOrders, FetchOrder
    <3>4. CASE OpenEdit
      BY <1>0, <3>4 DEF OpenEdit
    <3>5. CASE Save
      BY <2>1, <3>5 DEF Save
    <3>6. CASE LeaveEdit /\ ctx
      BY <1>0, <2>2, <3>6 DEF LeaveEdit, FetchProfile
    <3>7. CASE NetBack /\ TabOpen
      BY <2>2, <3>7 DEF NetBack, FetchProfile
    <3> QED
      BY <1>4, <3>1, <3>2, <3>3, <3>4, <3>5, <3>6, <3>7 DEF Starting
  <2> QED
    BY <2>1, <2>3 DEF TypeOK
<1>5. CASE (\E u \in Users : SignIn(u)) \/ (\E t \in Texts : Type(t))
  BY <1>5 DEF TypeOK, SignIn, Type, modeVars, tileVars, dataVars, editVars
<1>8. CASE Resting /\ ~ Book
  BY <1>8, RestingFacts DEF TypeOK
<1>9. CASE LeaveEdit /\ ~ ctx
  <2>1. /\ fetches' \in [Slots -> FetchRec]
        /\ page' \in {"out", "home", "pay", "profile", "edit", "orders"}
        /\ under' \in {"profile", "pay"}
        /\ text' \in Texts
        /\ UNCHANGED <<patient, reliable, net, me, name, tickets, inbox, profile, orders>>
    BY <1>0, <1>9, ThrowsInstead, WithoutEditFacts
  <2>2. ctx' \in BOOLEAN /\ missed' \in BOOLEAN /\ typed' \in BOOLEAN
    BY <1>9, ThrowsInstead
  <2> QED
    BY <2>1, <2>2 DEF TypeOK
<1>6. CASE Book
  <2>1. me \in Users
    BY <1>6, SomebodyOnPage DEF Book
  <2>2. tickets[me] \in 0 .. MaxTickets /\ tickets[me] < MaxTickets
    BY <1>6, <2>1 DEF Book, TypeOK
  <2>3. tickets[me] + 1 \in 0 .. MaxTickets
    BY <2>2, BoundAssumption
  <2>4. tickets' \in [Users -> 0 .. MaxTickets]
    BY <1>6, <2>1, <2>3 DEF Book, TypeOK
  <2> QED
    BY <1>6, <2>4 DEF TypeOK, Book, modeVars, tileVars, editVars
<1>7. CASE KillApp
  <2>1. <<>> \in Seq(Reply)
    BY EmptySeq
  <2> QED
    BY <1>0, <1>7, <2>1, NoFetchFacts DEF TypeOK, KillApp, modeVars, tileVars, dataVars
<1> QED
  BY <1>1, <1>2, <1>3, <1>4, <1>5, <1>6, <1>7, <1>8, <1>9, StepKinds

\* A fetch is for an account, and the blocs' fetches are never cut off.
LEMMA FetchInvStep ==
  ASSUME TypeOK, FetchInv, AnswerInv, [Next]_vars
  PROVE  FetchInv'
<1>1. ASSUME NEW k \in Slots, Reloaded(k)
      PROVE  FetchInv'
  BY <1>1, ReloadedFacts DEF FetchInv
<1>2. ASSUME NEW k \in Slots, Got(k) \/ Throws(k)
      PROVE  FetchInv'
  <2>1. /\ fetches[k].stage \in {"reload", "get"}
        /\ fetches'[k].stage = "answered"
        /\ fetches'[k].kind = fetches[k].kind
        /\ fetches'[k].who = fetches[k].who
        /\ fetches'[k].alive = fetches[k].alive
        /\ \A j \in Slots \ {k} : fetches'[j] = fetches[j]
        /\ UNCHANGED <<page, me>>
    BY <1>2, FetchAnswered
  <2>2. fetches[k] # NoFetch
    BY <2>1, NoFetchFacts
  <2> QED
    BY <2>1, <2>2 DEF FetchInv
<1>3. CASE Deliver
  <2>1. /\ fetches'[inbox[1].k] = NoFetch
        /\ \A j \in Slots \ {inbox[1].k} : fetches'[j] = fetches[j]
        /\ UNCHANGED <<page, me>>
    BY <1>3, DeliverFacts
  <2> QED
    BY <2>1, NoFetchFacts DEF FetchInv
<1>4. CASE Starting
  <2>1. PICK fs \in [Slots -> FetchRec], kind \in Kinds :
          /\ me \in Users
          /\ Start(kind, fs)
          /\ UNCHANGED me
          /\ page # "out" /\ page' # "out"
          /\ fs = fetches \/ fs = WithoutEdit
    BY <1>4, PageStarts
  <2>2. PICK k \in Slots :
          /\ fetches'[k].kind = kind
          /\ fetches'[k].stage \in {"reload", "get"}
          /\ fetches'[k].who = me
          /\ fetches'[k].alive
          /\ \A j \in Slots \ {k} : fetches'[j] = fs[j]
    BY <2>1, StartFills
  <2>3. \A j \in Slots :
          /\ fs[j].stage = "none" => fs[j] = NoFetch
          /\ fs[j] # NoFetch => fs[j].who \in Users /\ fs[j].kind \in Kinds
          /\ fs[j].kind \in {"profile", "orders"} => fs[j].alive
    <3>1. CASE fs = fetches
      BY <3>1 DEF FetchInv
    <3>2. CASE fs = WithoutEdit
      <4>1. ASSUME NEW j \in Slots, fetches[j].kind = "edit"
            PROVE  /\ fs[j].stage = "none" => fs[j] = NoFetch
                   /\ fs[j].who \in Users /\ fs[j].kind \in Kinds
                   /\ ~ (fs[j].kind \in {"profile", "orders"})
        <5>1. fetches[j] # NoFetch
          BY <4>1, NoFetchFacts
        <5>2. fetches[j].stage # "none" /\ fetches[j].who \in Users
          BY <5>1 DEF FetchInv
        <5> QED
          BY <3>2, <4>1, <5>2, WithoutEditFacts DEF Kinds
      <4>2. ASSUME NEW j \in Slots, fetches[j].kind # "edit"
            PROVE  fs[j] = fetches[j]
        BY <3>2, <4>2, WithoutEditFacts
      <4> QED
        BY <4>1, <4>2 DEF FetchInv
    <3> QED
      BY <2>1, <3>1, <3>2
  <2>4. page' = "out" <=> me' = NoUser
    BY <2>1, UserAssumption
  <2>5. ASSUME NEW j \in Slots
        PROVE  /\ fetches'[j].stage = "none" => fetches'[j] = NoFetch
               /\ fetches'[j] # NoFetch =>
                    fetches'[j].who \in Users /\ fetches'[j].kind \in Kinds
               /\ fetches'[j].kind \in {"profile", "orders"} => fetches'[j].alive
    <3>1. CASE j = k
      BY <2>1, <2>2, <3>1
    <3>2. CASE j # k
      BY <2>2, <2>3, <3>2
    <3> QED
      BY <3>1, <3>2
  <2> QED
    BY <2>4, <2>5 DEF FetchInv
<1>5. CASE \E u \in Users : SignIn(u)
  BY <1>5, UserAssumption DEF FetchInv, SignIn
<1>6. CASE Resting
  BY <1>6, RestingFacts, UserAssumption DEF FetchInv, TypeOK
<1>7. CASE \E t \in Texts : Type(t)
  BY <1>7 DEF FetchInv, Type
<1>8. CASE KillApp
  BY <1>8, NoFetchFacts DEF FetchInv, KillApp
<1>9. CASE LeaveEdit /\ ~ ctx
  <2>1. /\ fetches' = WithoutEdit
        /\ page = "edit" /\ page' \in {"profile", "pay"} /\ me' = me
    BY <1>9, ThrowsInstead
  <2>2. ASSUME NEW j \in Slots
        PROVE  /\ fetches'[j].stage = "none" => fetches'[j] = NoFetch
               /\ fetches'[j] # NoFetch =>
                    fetches'[j].who \in Users /\ fetches'[j].kind \in Kinds
               /\ fetches'[j].kind \in {"profile", "orders"} => fetches'[j].alive
    <3>1. CASE fetches[j].kind = "edit"
      <4>1. fetches[j] # NoFetch
        BY <3>1, NoFetchFacts
      <4>2. fetches[j].stage # "none" /\ fetches[j].who \in Users
        BY <4>1 DEF FetchInv
      <4> QED
        BY <2>1, <3>1, <4>2, WithoutEditFacts DEF Kinds
    <3>2. CASE fetches[j].kind # "edit"
      BY <2>1, <3>2, WithoutEditFacts DEF FetchInv
    <3> QED
      BY <3>1, <3>2
  <2> QED
    BY <2>1, <2>2 DEF FetchInv
<1> QED
  BY <1>1, <1>2, <1>3, <1>4, <1>5, <1>6, <1>7, <1>8, <1>9, StepKinds

\* An answer is for a slot.
LEMMA AnswersHaveSlots ==
  ASSUME TypeOK
  PROVE  \A i \in 1 .. Len(inbox) : inbox[i].k \in Slots
<1>1. \A i \in 1 .. Len(inbox) : inbox[i] \in Reply
  BY DEF TypeOK
<1>2. \A r \in Reply : r.k \in Slots
  BY DEF Reply
<1> QED
  BY <1>1, <1>2

\* A step that starts a fetch uses a slot no answer is for.
LEMMA StartAwayFromAnswers ==
  ASSUME TypeOK, AnswerInv, NEW fs,
         fs = fetches \/ fs = WithoutEdit,
         NEW k \in Slots, fs[k] = NoFetch, NEW i \in 1 .. Len(inbox)
  PROVE  inbox[i].k \in Slots /\ inbox[i].k # k /\ fs[inbox[i].k].stage = "answered"
<1>1. inbox[i] \in Reply
  BY DEF TypeOK
<1>2. inbox[i].k \in Slots
  BY <1>1 DEF Reply
<1>3. fetches[inbox[i].k].stage = "answered"
  BY DEF AnswerInv
<1>4. fs[inbox[i].k].stage = "answered"
  BY <1>2, <1>3, WithoutEditFacts
<1> QED
  BY <1>2, <1>4, NoFetchFacts

\* Every answer has a fetch of its own that waits for it.
LEMMA AnswerInvStep ==
  ASSUME TypeOK, FetchInv, AnswerInv, [Next]_vars
  PROVE  AnswerInv'
<1>0. \A i \in 1 .. Len(inbox) : inbox[i].k \in Slots
  BY AnswersHaveSlots
<1>1. ASSUME NEW k \in Slots, Reloaded(k)
      PROVE  AnswerInv'
  <2>1. /\ fetches[k].stage = "reload"
        /\ \A j \in Slots \ {k} : fetches'[j] = fetches[j]
        /\ UNCHANGED <<inbox, reliable>>
    BY <1>1 DEF TypeOK, Reloaded, modeVars
  <2> QED
    BY <1>0, <2>1 DEF AnswerInv
<1>2. ASSUME NEW k \in Slots, Got(k) \/ Throws(k)
      PROVE  AnswerInv'
  <2>1. PICK r \in Reply :
          /\ inbox' = Append(inbox, r)
          /\ r.k = k
          /\ reliable => r.ok
          /\ fetches[k].stage \in {"reload", "get"}
          /\ fetches'[k].stage = "answered"
          /\ \A j \in Slots \ {k} : fetches'[j] = fetches[j]
          /\ UNCHANGED reliable
    BY <1>2, FetchAnswered
  <2> DEFINE m == Len(inbox) + 1
  <2>2. /\ inbox'[m] = r
        /\ \A i \in 1 .. Len(inbox) : inbox'[i] = inbox[i]
        /\ 1 .. Len(inbox') = 1 .. Len(inbox) \cup {m}
    BY <2>1, AnswerJoins DEF TypeOK
  <2> HIDE DEF m
  <2>3. \A i \in 1 .. Len(inbox) : inbox[i].k # k
    BY <2>1 DEF AnswerInv
  <2>4. ASSUME NEW i \in 1 .. Len(inbox)
        PROVE  /\ fetches'[inbox'[i].k].stage = "answered"
               /\ \A j \in 1 .. Len(inbox') : inbox'[j].k = inbox'[i].k => j = i
               /\ reliable' => inbox'[i].ok
    BY <1>0, <2>1, <2>2, <2>3 DEF AnswerInv
  <2>5. /\ fetches'[inbox'[m].k].stage = "answered"
        /\ \A j \in 1 .. Len(inbox') : inbox'[j].k = inbox'[m].k => j = m
        /\ reliable' => inbox'[m].ok
    BY <2>1, <2>2, <2>3
  <2> QED
    BY <2>2, <2>4, <2>5 DEF AnswerInv
<1>3. CASE Deliver
  <2>1. /\ inbox \in Seq(Reply)
        /\ inbox # <<>>
        /\ inbox' = Tail(inbox)
        /\ \A j \in Slots \ {inbox[1].k} : fetches'[j] = fetches[j]
        /\ UNCHANGED reliable
    BY <1>3, DeliverFacts DEF TypeOK
  <2>2. 1 \in 1 .. Len(inbox)
    BY <2>1, AnswerLeaves
  <2>3. \A i \in 1 .. Len(inbox') : /\ i \in Nat
                                    /\ i + 1 \in 1 .. Len(inbox)
                                    /\ i + 1 # 1
                                    /\ inbox'[i] = inbox[i + 1]
    BY <2>1, AnswerLeaves
  <2>4. \A i \in 1 .. Len(inbox') : inbox[i + 1].k # inbox[1].k
    BY <2>2, <2>3 DEF AnswerInv
  <2>5. ASSUME NEW i \in 1 .. Len(inbox')
        PROVE  /\ fetches'[inbox'[i].k].stage = "answered"
               /\ reliable' => inbox'[i].ok
    BY <1>0, <2>1, <2>3, <2>4 DEF AnswerInv
  <2>6. ASSUME NEW i \in 1 .. Len(inbox'), NEW j \in 1 .. Len(inbox'),
               inbox'[j].k = inbox'[i].k
        PROVE  j = i
    <3>1. j + 1 = i + 1
      BY <2>3, <2>6 DEF AnswerInv
    <3> QED
      BY <2>3, <3>1
  <2> QED
    BY <2>5, <2>6 DEF AnswerInv
<1>4. CASE Starting
  <2>1. PICK fs \in [Slots -> FetchRec], kind \in Kinds :
          /\ me \in Users
          /\ Start(kind, fs)
          /\ UNCHANGED <<inbox, reliable>>
          /\ fs = fetches \/ fs = WithoutEdit
    BY <1>4, PageStarts
  <2>2. PICK k \in Slots : /\ fs[k] = NoFetch
                           /\ \A j \in Slots \ {k} : fetches'[j] = fs[j]
    BY <2>1, StartFills
  <2>3. \A i \in 1 .. Len(inbox) : fetches'[inbox[i].k].stage = "answered"
    BY <2>1, <2>2, StartAwayFromAnswers
  <2> QED
    BY <2>1, <2>3 DEF AnswerInv
<1>5. CASE (\E u \in Users : SignIn(u)) \/ (\E t \in Texts : Type(t)) \/ Resting
  <2>1. UNCHANGED <<fetches, inbox, reliable>>
    BY <1>5, RestingFacts DEF SignIn, Type, modeVars
  <2> QED
    BY <2>1 DEF AnswerInv
<1>7. CASE LeaveEdit /\ ~ ctx
  <2>1. fetches' = WithoutEdit /\ UNCHANGED <<inbox, reliable>>
    BY <1>7, ThrowsInstead
  <2> QED
    BY <1>0, <2>1, WithoutEditFacts DEF AnswerInv
<1>6. CASE KillApp
  <2>1. inbox' = <<>> /\ Len(inbox') = 0
    BY <1>6 DEF KillApp
  <2> QED
    BY <2>1 DEF AnswerInv
<1> QED
  BY <1>1, <1>2, <1>3, <1>4, <1>5, <1>6, <1>7, StepKinds

\* The fetches of a user who waits, and those of the open edit page, are for the
\* account that is signed in.
LEMMA WhoInvStep ==
  ASSUME TypeOK, FetchInv, AnswerInv, WhoInv, [Next]_vars
  PROVE  WhoInv'
<1>1. ASSUME NEW k \in Slots, Reloaded(k)
      PROVE  WhoInv'
  BY <1>1, ReloadedFacts DEF WhoInv
<1>2. ASSUME NEW k \in Slots, Got(k) \/ Throws(k)
      PROVE  WhoInv'
  <2>1. /\ fetches[k].stage \in {"reload", "get"}
        /\ fetches'[k].kind = fetches[k].kind
        /\ fetches'[k].who = fetches[k].who
        /\ fetches'[k].alive = fetches[k].alive
        /\ \A j \in Slots \ {k} : fetches'[j] = fetches[j]
        /\ UNCHANGED <<page, me, patient>>
    BY <1>2, FetchAnswered
  <2>2. fetches[k] # NoFetch
    BY <2>1, NoFetchFacts
  <2> QED
    BY <2>1, <2>2 DEF WhoInv
<1>3. CASE Deliver
  <2>1. /\ fetches'[inbox[1].k] = NoFetch
        /\ \A j \in Slots \ {inbox[1].k} : fetches'[j] = fetches[j]
        /\ UNCHANGED <<page, me, patient>>
    BY <1>3, DeliverFacts
  <2> QED
    BY <2>1, NoFetchFacts DEF WhoInv
<1>4. CASE Starting
  <2>1. PICK fs \in [Slots -> FetchRec], kind \in Kinds :
          /\ me \in Users
          /\ Start(kind, fs)
          /\ UNCHANGED <<patient, me>>
          /\ \/ fs = fetches /\ ~ LeaveEdit
             \/ fs = WithoutEdit /\ LeaveEdit /\ kind = "profile" /\ page' # "edit"
          /\ kind = "edit" => page' = "edit"
          /\ (~ LeaveEdit /\ page = "edit") => page' = "edit"
    BY <1>4, PageStarts
  <2>2. PICK k \in Slots :
          /\ fetches'[k].kind = kind
          /\ fetches'[k].who = me
          /\ fetches'[k].alive
          /\ \A j \in Slots \ {k} : fetches'[j] = fs[j]
    BY <2>1, StartFills
  <2>3. ASSUME NEW j \in Slots \ {k}
        PROVE  /\ (patient' /\ fetches'[j] # NoFetch) => fetches'[j].who = me'
               /\ (fetches'[j].kind = "edit" /\ fetches'[j].alive) =>
                    page' = "edit" /\ fetches'[j].who = me'
    <3>1. CASE fs = fetches /\ ~ LeaveEdit
      BY <2>1, <2>2, <3>1 DEF WhoInv
    <3>2. CASE fs = WithoutEdit
      BY <2>1, <2>2, <3>2, WithoutEditFacts, NoFetchFacts DEF WhoInv
    <3> QED
      BY <2>1, <3>1, <3>2
  <2> QED
    BY <2>1, <2>2, <2>3 DEF WhoInv
<1>5. CASE \E u \in Users : SignIn(u)
  <2>1. me = NoUser /\ page = "out"
    BY <1>5 DEF SignIn, FetchInv
  <2>2. UNCHANGED <<patient, fetches>>
    BY <1>5 DEF SignIn, modeVars
  <2>3. ASSUME NEW k \in Slots
        PROVE  /\ patient => fetches[k] = NoFetch
               /\ ~ (fetches[k].kind = "edit" /\ fetches[k].alive)
    BY <2>1, UserAssumption DEF WhoInv, FetchInv
  <2> QED
    BY <2>2, <2>3 DEF WhoInv
<1>6. CASE SignOut
  BY <1>6 DEF SignOut, WhoInv, Quiet, modeVars
<1>7. CASE Resting /\ ~ SignOut
  BY <1>7, RestingFacts DEF WhoInv
<1>8. CASE \E t \in Texts : Type(t)
  BY <1>8 DEF WhoInv, Type, modeVars
<1>9. CASE KillApp
  BY <1>9, NoFetchFacts DEF WhoInv, KillApp
<1>10. CASE LeaveEdit /\ ~ ctx
  BY <1>10, ThrowsInstead, WithoutEditFacts, NoFetchFacts DEF WhoInv
<1> QED
  BY <1>1, <1>2, <1>3, <1>4, <1>5, <1>6, <1>7, <1>8, <1>9, <1>10, StepKinds

--------------------------------------------------------------------------
(* What is shown last is current.                                          *)

\* What is shown stays current in a step that reads, shows and changes nothing
\* of its kind.
LEMMA FreshKept ==
  ASSUME NEW kind \in Kinds, Fresh(kind),
         OnPage(kind)' => OnPage(kind),
         Settled(kind)' => Settled(kind),
         inbox' = inbox,
         \A i \in 1 .. Len(inbox) : Live(kind, inbox[i].k)' <=> Live(kind, inbox[i].k),
         UNCHANGED <<name, me>>, kind = "orders" => UNCHANGED tickets,
         Shown(kind) => Shown(kind)'
  PROVE  Fresh(kind)'
<1> SUFFICES ASSUME OnPage(kind)', Settled(kind)'
             PROVE  /\ \A i \in 1 .. Len(inbox') :
                         (IsLast(kind, i)' /\ inbox'[i].ok) => Current(kind, inbox[i])'
                    /\ (\A i \in 1 .. Len(inbox') : ~ Live(kind, inbox[i].k)')
                          => Shown(kind)'
  BY DEF Fresh
<1>1. /\ \A i \in 1 .. Len(inbox) :
           (IsLast(kind, i) /\ inbox[i].ok) => Current(kind, inbox[i])
      /\ (\A i \in 1 .. Len(inbox) : ~ Live(kind, inbox[i].k)) => Shown(kind)
  BY DEF Fresh
<1>2. \A i \in 1 .. Len(inbox) : IsLast(kind, i)' => IsLast(kind, i)
  BY DEF IsLast
<1>3. \A i \in 1 .. Len(inbox) : Current(kind, inbox[i]) => Current(kind, inbox[i])'
  BY DEF Current
<1> QED
  BY <1>1, <1>2, <1>3

\* A page that starts a fetch of this kind has not read all yet.
LEMMA FreshStarted ==
  ASSUME NEW kind \in Kinds, NEW k \in Slots, fetches'[k].kind = kind,
         fetches'[k].alive, fetches'[k].stage \in {"reload", "get"}
  PROVE  Fresh(kind)'
<1>1. ~ Settled(kind)'
  BY DEF Settled, Live
<1> QED
  BY <1>1 DEF Fresh

\* Off its page nothing is asked of a kind.
LEMMA FreshElsewhere ==
  ASSUME NEW kind \in Kinds, ~ OnPage(kind)'
  PROVE  Fresh(kind)'
BY DEF Fresh

\* Other fetches do not notice that one starts.
LEMMA OthersUnaware ==
  ASSUME TypeOK, AnswerInv, NEW fs \in [Slots -> FetchRec], fs = fetches \/ fs = WithoutEdit,
         NEW k \in Slots, fs[k] = NoFetch,
         \A j \in Slots \ {k} : fetches'[j] = fs[j],
         NEW kind \in Kinds, kind # fetches'[k].kind,
         fs = fetches \/ kind # "edit",
         inbox' = inbox
  PROVE  /\ Settled(kind)' => Settled(kind)
         /\ \A i \in 1 .. Len(inbox) : Live(kind, inbox[i].k)' <=> Live(kind, inbox[i].k)
<1>1. \A j \in Slots \ {k} : /\ Live(kind, j)' <=> Live(kind, j)
                             /\ fetches'[j].stage = fetches[j].stage
  BY WithoutEditFacts DEF Live
<1>2. ~ Live(kind, k)
  <2>1. CASE fetches[k] = NoFetch
    BY <2>1, NoFetchFacts DEF Live
  <2>2. CASE fs = WithoutEdit
    BY <2>2, NoFetchFacts, WithoutEditFacts DEF Live, Kinds
  <2> QED
    BY <2>1, <2>2
<1>3. Settled(kind)' => Settled(kind)
  BY <1>1, <1>2 DEF Settled
<1>4. \A i \in 1 .. Len(inbox) : inbox[i].k \in Slots \ {k}
  BY StartAwayFromAnswers
<1> QED
  BY <1>1, <1>3, <1>4

\* The answer that is read last is current: its account is the one signed in
\* (profile_bloc.dart 17-35, order_bloc.dart 17-38, edit_profile.dart 52-74).
LEMMA FreshRead ==
  ASSUME TypeOK, FetchInv, AnswerInv, WhoInv, NEW kind \in Kinds, Fresh(kind),
         NEW k \in Slots, Got(k) \/ Throws(k)
  PROVE  Fresh(kind)'
<1> SUFFICES ASSUME OnPage(kind)', Settled(kind)'
             PROVE  /\ \A i \in 1 .. Len(inbox') :
                         (IsLast(kind, i)' /\ inbox'[i].ok) => Current(kind, inbox[i])'
                    /\ (\A i \in 1 .. Len(inbox') : ~ Live(kind, inbox[i].k)')
                          => Shown(kind)'
  BY DEF Fresh
<1>1. PICK r \in Reply :
        /\ inbox' = Append(inbox, r)
        /\ r.k = k
        /\ r.ok => /\ r.name = name[fetches[k].who]
                   /\ r.tickets = tickets[fetches[k].who]
        /\ fetches[k].stage \in {"reload", "get"}
        /\ fetches'[k].kind = fetches[k].kind
        /\ fetches'[k].alive = fetches[k].alive
        /\ \A j \in Slots \ {k} : fetches'[j] = fetches[j]
        /\ UNCHANGED <<patient, reliable, net, me, page, under, ctx, missed, name,
                       tickets, profile, orders, text, typed>>
  BY FetchAnswered
<1>0. PICK m \in Nat : m = Len(inbox) + 1
  BY EmptySeq, LenProperties DEF TypeOK
<1>2. /\ inbox'[m] = r
      /\ \A i \in 1 .. Len(inbox) : inbox'[i] = inbox[i]
      /\ 1 .. Len(inbox') = 1 .. Len(inbox) \cup {m}
      /\ \A i \in 1 .. Len(inbox) : i < m
  BY <1>0, <1>1, AnswerJoins DEF TypeOK
<1>3. \A i \in 1 .. Len(inbox) : inbox[i].k \in Slots \ {k}
  BY <1>1, AnswersHaveSlots DEF AnswerInv
<1>4. /\ \A i \in 1 .. Len(inbox) : Live(kind, inbox[i].k)' <=> Live(kind, inbox[i].k)
      /\ Live(kind, inbox[m].k)' <=> Live(kind, k)
      /\ \A j \in Slots : Live(kind, j)' <=> Live(kind, j)
  BY <1>1, <1>2, <1>3 DEF Live
<1>5. OnPage(kind)
  BY <1>1 DEF OnPage
<1>6. CASE Live(kind, k)
  <2>1. \A i \in 1 .. Len(inbox') : IsLast(kind, i)' => i = m
    BY <1>2, <1>4, <1>6 DEF IsLast
  <2>2. fetches[k] # NoFetch
    BY <1>1, NoFetchFacts
  <2>3. fetches[k].who = me
    BY <1>5, <1>6, <2>2 DEF OnPage, Live, WhoInv
  <2>4. r.ok => Current(kind, inbox[m])'
    BY <1>1, <1>2, <2>3 DEF Current
  <2> QED
    BY <1>2, <1>4, <1>6, <2>1, <2>4
<1>7. CASE ~ Live(kind, k)
  <2>1. Settled(kind)
    BY <1>1, <1>4, <1>7 DEF Settled
  <2>2. /\ \A i \in 1 .. Len(inbox) :
             (IsLast(kind, i) /\ inbox[i].ok) => Current(kind, inbox[i])
        /\ (\A i \in 1 .. Len(inbox) : ~ Live(kind, inbox[i].k)) => Shown(kind)
    BY <1>5, <2>1 DEF Fresh
  <2>3. \A i \in 1 .. Len(inbox) : IsLast(kind, i)' => IsLast(kind, i)
    BY <1>2, <1>4 DEF IsLast
  <2>4. ~ IsLast(kind, m)'
    BY <1>4, <1>7 DEF IsLast
  <2>5. \A i \in 1 .. Len(inbox) : Current(kind, inbox[i]) => Current(kind, inbox[i])'
    BY <1>1, <1>2 DEF Current
  <2>6. Shown(kind) => Shown(kind)'
    BY <1>1 DEF Shown
  <2> QED
    BY <1>2, <1>4, <2>2, <2>3, <2>4, <2>5, <2>6
<1> QED
  BY <1>6, <1>7

\* The answer that is shown last was current when it was read and still is
\* (profile_bloc.dart 33-36, order_bloc.dart 36-40, edit_profile.dart 58-74).
LEMMA FreshDelivered ==
  ASSUME TypeOK, FetchInv, AnswerInv, NEW kind \in Kinds, Fresh(kind), Deliver
  PROVE  Fresh(kind)'
<1> SUFFICES ASSUME OnPage(kind)', Settled(kind)'
             PROVE  /\ \A i \in 1 .. Len(inbox') :
                         (IsLast(kind, i)' /\ inbox'[i].ok) => Current(kind, inbox[i])'
                    /\ (\A i \in 1 .. Len(inbox') : ~ Live(kind, inbox[i].k)')
                          => Shown(kind)'
  BY DEF Fresh
<1>1. /\ inbox \in Seq(Reply)
      /\ inbox # <<>>
      /\ inbox[1].k \in Slots
      /\ inbox' = Tail(inbox)
      /\ fetches[inbox[1].k].stage = "answered"
      /\ fetches'[inbox[1].k] = NoFetch
      /\ \A j \in Slots \ {inbox[1].k} : fetches'[j] = fetches[j]
      /\ UNCHANGED <<patient, reliable, net, me, page, under, ctx, missed, name,
                     tickets>>
      /\ \/ fetches[inbox[1].k].kind = "profile" /\ ShowProfile(inbox[1])
         \/ fetches[inbox[1].k].kind = "orders"  /\ ShowOrders(inbox[1])
         \/ fetches[inbox[1].k].kind = "edit"    /\ ShowFields(inbox[1])
  BY DeliverFacts DEF TypeOK
<1>2. 1 \in 1 .. Len(inbox) /\ Len(inbox) \in Nat /\ Len(inbox') = Len(inbox) - 1
  BY <1>1, AnswerLeaves
<1>3. \A i \in 1 .. Len(inbox') : /\ i \in Nat
                                  /\ i + 1 \in 1 .. Len(inbox)
                                  /\ i + 1 # 1
                                  /\ inbox'[i] = inbox[i + 1]
  BY <1>1, AnswerLeaves
<1>4. \A i \in 1 .. Len(inbox') : inbox[i + 1].k \in Slots \ {inbox[1].k}
  BY <1>2, <1>3, AnswersHaveSlots DEF AnswerInv
<1>5. \A i \in 1 .. Len(inbox') : Live(kind, inbox[i].k)' <=> Live(kind, inbox[i + 1].k)
  BY <1>1, <1>3, <1>4 DEF Live
<1>6. \A i \in 1 .. Len(inbox) : i = 1 \/ (i - 1 \in 1 .. Len(inbox') /\ (i - 1) + 1 = i)
  BY <1>2
<1>7. OnPage(kind) /\ Settled(kind)
  <2>1. OnPage(kind)
    BY <1>1 DEF OnPage
  <2>2. Settled(kind)
    BY <1>1 DEF Settled, Live
  <2> QED
    BY <2>1, <2>2
<1>8. /\ \A i \in 1 .. Len(inbox) :
           (IsLast(kind, i) /\ inbox[i].ok) => Current(kind, inbox[i])
      /\ (\A i \in 1 .. Len(inbox) : ~ Live(kind, inbox[i].k)) => Shown(kind)
  BY <1>7 DEF Fresh
<1>9. ASSUME NEW i \in 1 .. Len(inbox'), IsLast(kind, i)', inbox'[i].ok
      PROVE  Current(kind, inbox[i])'
  <2>1. IsLast(kind, i + 1)
    <3>1. Live(kind, inbox[i + 1].k)
      BY <1>5, <1>9 DEF IsLast
    <3>2. ASSUME NEW j \in 1 .. Len(inbox), i + 1 < j
          PROVE  ~ Live(kind, inbox[j].k)
      <4>1. j # 1 /\ i < j - 1
        BY <1>3, <3>2
      <4>2. j - 1 \in 1 .. Len(inbox') /\ (j - 1) + 1 = j
        BY <1>6, <4>1
      <4>3. ~ Live(kind, inbox[j - 1].k)'
        BY <1>9, <4>1, <4>2 DEF IsLast
      <4> QED
        BY <1>5, <4>2, <4>3
    <3> QED
      BY <3>1, <3>2 DEF IsLast
  <2>2. Current(kind, inbox[i + 1])
    BY <1>3, <1>8, <1>9, <2>1
  <2> QED
    BY <1>1, <1>3, <2>2 DEF Current
<1>10. ASSUME \A i \in 1 .. Len(inbox') : ~ Live(kind, inbox[i].k)'
       PROVE  Shown(kind)'
  <2>1. \A i \in 1 .. Len(inbox) : i # 1 => ~ Live(kind, inbox[i].k)
    BY <1>5, <1>6, <1>10
  <2>2. CASE Live(kind, inbox[1].k)
    <3>1. IsLast(kind, 1)
      BY <2>1, <2>2 DEF IsLast
    <3>2. inbox[1].ok => Current(kind, inbox[1])
      BY <1>2, <1>8, <3>1
    <3>3. CASE kind = "profile"
      <4>1. ShowProfile(inbox[1])
        BY <1>1, <2>2, <3>3 DEF Live
      <4>2. CASE inbox[1].ok
        <5>1. profile' = [st |-> "Loaded", profileData |-> inbox[1].name]
          BY <4>1, <4>2 DEF ShowProfile
        <5>2. profile'.profileData = name[me]
          BY <3>2, <3>3, <4>2, <5>1 DEF Current
        <5> QED
          BY <1>1, <3>3, <5>2 DEF Shown
      <4>3. CASE ~ inbox[1].ok
        <5>1. profile' = [st |-> "Error", profileData |-> Blank]
          BY <4>1, <4>3 DEF ShowProfile
        <5>2. profile'.st = "Error"
          BY <5>1
        <5> QED
          BY <3>3, <5>2 DEF Shown
      <4> QED
        BY <4>2, <4>3
    <3>4. CASE kind = "orders"
      <4>1. ShowOrders(inbox[1])
        BY <1>1, <2>2, <3>4 DEF Live
      <4>2. CASE inbox[1].ok
        <5>1. orders' = [st |-> "Loaded", orders |-> inbox[1].tickets]
          BY <4>1, <4>2 DEF ShowOrders
        <5>2. orders'.orders = tickets[me]
          BY <3>2, <3>4, <4>2, <5>1 DEF Current
        <5> QED
          BY <1>1, <3>4, <5>2 DEF Shown
      <4>3. CASE ~ inbox[1].ok
        <5>1. orders' = [st |-> "Error", orders |-> 0]
          BY <4>1, <4>3 DEF ShowOrders
        <5>2. orders'.st = "Error"
          BY <5>1
        <5> QED
          BY <3>4, <5>2 DEF Shown
      <4> QED
        BY <4>2, <4>3
    <3>5. CASE kind = "edit"
      <4>1. ShowFields(inbox[1]) /\ fetches[inbox[1].k].alive
        BY <1>1, <2>2, <3>5 DEF Live
      <4>2. inbox[1].ok
        BY <1>2, <1>7, <3>5 DEF AnswerInv, OnPage
      <4>3. text' = inbox[1].name
        BY <4>1, <4>2 DEF ShowFields
      <4> QED
        BY <1>1, <3>2, <3>5, <4>2, <4>3 DEF Current, Shown
    <3> QED
      BY <3>3, <3>4, <3>5 DEF Kinds
  <2>3. CASE ~ Live(kind, inbox[1].k)
    <3>1. Shown(kind)
      BY <1>8, <2>1, <2>3
    <3>2. fetches[inbox[1].k].kind # kind \/ ~ fetches[inbox[1].k].alive
      BY <2>3 DEF Live
    <3>3. fetches[inbox[1].k].kind \in {"profile", "orders"}
            => fetches[inbox[1].k].alive
      BY <1>1 DEF FetchInv
    <3>4. CASE fetches[inbox[1].k].kind = "profile" /\ ShowProfile(inbox[1])
      BY <1>1, <3>1, <3>2, <3>3, <3>4 DEF ShowProfile, Shown, editVars
    <3>5. CASE fetches[inbox[1].k].kind = "orders" /\ ShowOrders(inbox[1])
      BY <1>1, <3>1, <3>2, <3>3, <3>5 DEF ShowOrders, Shown, editVars
    <3>6. CASE fetches[inbox[1].k].kind = "edit" /\ ShowFields(inbox[1])
      <4>1. UNCHANGED <<profile, orders>>
        BY <3>6 DEF ShowFields
      <4>2. kind = "edit" => UNCHANGED <<text, typed>>
        BY <3>2, <3>6 DEF ShowFields, editVars
      <4> QED
        BY <1>1, <3>1, <4>1, <4>2 DEF Shown
    <3> QED
      BY <1>1, <3>4, <3>5, <3>6
  <2> QED
    BY <2>2, <2>3
<1> QED
  BY <1>9, <1>10

\* A page that starts a fetch of the kind it shows has not read all yet.
LEMMA FreshOnStart ==
  ASSUME TypeOK, FetchInv, NEW fs \in [Slots -> FetchRec], NEW kind \in Kinds,
         page # "out", Start(kind, fs)
  PROVE  Fresh(kind)'
<1>1. me \in Users
  BY SomebodyOnPage
<1>2. PICK k \in Slots : /\ fetches'[k].kind = kind
                         /\ fetches'[k].stage \in {"reload", "get"}
                         /\ fetches'[k].alive
  BY <1>1, StartFills
<1> QED
  BY <1>2, FreshStarted

\* Every step leaves what is shown last current.
LEMMA FreshInvStep ==
  ASSUME TypeOK, FetchInv, AnswerInv, WhoInv, FreshInv, [Next]_vars
  PROVE  FreshInv'
<1> SUFFICES ASSUME NEW kind \in Kinds
             PROVE  Fresh(kind)'
  BY DEF FreshInv
<1>0. Fresh(kind)
  BY DEF FreshInv
<1>k. kind \in {"profile", "orders", "edit"}
  BY DEF Kinds
<1>f. fetches \in [Slots -> FetchRec] /\ WithoutEdit \in [Slots -> FetchRec]
  BY WithoutEditFacts DEF TypeOK
<1>1. ASSUME NEW k \in Slots, Reloaded(k)
      PROVE  Fresh(kind)'
  <2>1. \A j \in Slots : Live(kind, j)' <=> Live(kind, j)
    BY <1>1, ReloadedFacts DEF Live
  <2>2. Settled(kind)' => Settled(kind)
    BY <1>1, <2>1, ReloadedFacts DEF Settled
  <2>3. \A i \in 1 .. Len(inbox) : inbox[i].k \in Slots
    BY AnswersHaveSlots
  <2>4. UNCHANGED <<patient, reliable, net, me, page, under, ctx, missed, name,
                    tickets, inbox, profile, orders, text, typed>>
    BY <1>1, ReloadedFacts
  <2>5. /\ \A i \in 1 .. Len(inbox) : Live(kind, inbox[i].k)' <=> Live(kind, inbox[i].k)
        /\ OnPage(kind)' => OnPage(kind)
        /\ Shown(kind) => Shown(kind)'
    BY <2>1, <2>3, <2>4 DEF OnPage, Shown, Live
  <2> QED
    BY <1>0, <2>2, <2>4, <2>5, FreshKept
<1>2. ASSUME NEW k \in Slots, Got(k) \/ Throws(k)
      PROVE  Fresh(kind)'
  BY <1>0, <1>2, FreshRead
<1>3. CASE Deliver
  BY <1>0, <1>3, FreshDelivered
<1>4. CASE (\E u \in Users : SignIn(u)) \/ KillApp
  <2>1. page' \in {"out", "home"}
    BY <1>4 DEF SignIn, KillApp
  <2> QED
    BY <2>1, FreshElsewhere DEF OnPage
<1>5. CASE OpenFinalPay \/ (OpenProfile /\ net) \/ (LeaveEdit /\ ctx)
  <2>1. page' \in {"pay", "profile"} /\ page # "out"
    BY <1>5 DEF OpenFinalPay, OpenProfile, LeaveEdit, TypeOK
  <2>2. CASE kind = "profile"
    <3>1. Start(kind, fetches) \/ Start(kind, WithoutEdit)
      BY <1>5, <2>2 DEF OpenFinalPay, OpenProfile, LeaveEdit, FetchProfile
    <3> QED
      BY <1>f, <2>1, <3>1, FreshOnStart
  <2> QED
    BY <1>k, <2>1, <2>2, FreshElsewhere DEF OnPage
<1>9. CASE NetBack /\ TabOpen
  <2>1. /\ page # "out"
        /\ Start("profile", fetches)
        /\ UNCHANGED <<patient, reliable, me, page, name, tickets, inbox, orders, text,
                       typed>>
    BY <1>9 DEF NetBack, FetchProfile, modeVars, tileVars, dataVars, editVars
  <2>2. CASE kind = "profile"
    BY <1>f, <2>1, <2>2, FreshOnStart
  <2>3. CASE kind # "profile"
    <3>1. me \in Users /\ "profile" \in Kinds
      BY <2>1, SomebodyOnPage DEF Kinds
    <3>2. PICK k \in Slots : /\ fetches[k] = NoFetch
                             /\ fetches'[k].kind = "profile"
                             /\ \A j \in Slots \ {k} : fetches'[j] = fetches[j]
      BY <1>f, <2>1, <3>1, StartFills
    <3>3. /\ Settled(kind)' => Settled(kind)
          /\ \A i \in 1 .. Len(inbox) : Live(kind, inbox[i].k)' <=> Live(kind, inbox[i].k)
      BY <1>f, <2>1, <2>3, <3>2, OthersUnaware
    <3>4. /\ OnPage(kind)' => OnPage(kind)
          /\ Shown(kind) => Shown(kind)'
      BY <1>k, <2>1, <2>3 DEF OnPage, Shown
    <3> QED
      BY <1>0, <2>1, <3>3, <3>4, FreshKept
  <2> QED
    BY <2>2, <2>3
<1>10. CASE LeaveEdit /\ ~ ctx
  <2>1. missed' /\ page' \in {"profile", "pay"}
    BY <1>10, ThrowsInstead
  <2> QED
    BY <1>k, <2>1, FreshElsewhere DEF OnPage
<1>11. CASE Resting
  <2>1. UNCHANGED <<patient, reliable, fetches, inbox, profile, orders, name, text, typed,
                    missed>>
    BY <1>11, RestingFacts
  <2>2. CASE OnPage(kind)'
    <3>1. OnPage(kind) /\ me' = me /\ (kind = "orders" => UNCHANGED tickets)
      <4> USE DEF OnPage, modeVars, tileVars, dataVars, editVars
      <4>1. CASE SignOut \/ LeaveProfile \/ LeaveFinalPay
        BY <2>2, <4>1 DEF SignOut, LeaveProfile, LeaveFinalPay
      <4>2. CASE Book
        BY <1>k, <2>1, <2>2, <4>2 DEF Book
      <4>3. CASE LeaveOrders
        BY <1>k, <2>1, <2>2, <4>3 DEF LeaveOrders
      <4>4. CASE OpenProfile /\ ~ net
        BY <1>k, <2>1, <2>2, <4>4 DEF OpenProfile
      <4>5. CASE NetLost
        BY <1>k, <2>1, <2>2, <4>5 DEF NetLost
      <4>6. CASE NetBack /\ ~ TabOpen
        BY <1>k, <2>1, <2>2, <4>6 DEF NetBack, TabOpen
      <4>7. CASE UNCHANGED vars
        BY <1>k, <2>1, <2>2, <4>7 DEF vars
      <4> QED
        BY <1>11, <4>1, <4>2, <4>3, <4>4, <4>5, <4>6, <4>7 DEF Resting
    <3>2. Shown(kind) => Shown(kind)'
      BY <1>k, <2>1, <3>1 DEF Shown
    <3>3. /\ Settled(kind)' => Settled(kind)
          /\ \A i \in 1 .. Len(inbox) : Live(kind, inbox[i].k)' <=> Live(kind, inbox[i].k)
      BY <2>1 DEF Settled, Live
    <3> QED
      BY <1>0, <2>1, <3>1, <3>2, <3>3, FreshKept
  <2> QED
    BY <2>2, FreshElsewhere
<1>6. CASE OpenEdit \/ Save
  <2>1. page' = "edit" /\ page # "out"
    BY <1>6 DEF OpenEdit, Save, TypeOK
  <2>2. CASE kind = "edit"
    BY <1>6, <1>f, <2>1, <2>2, FreshOnStart DEF OpenEdit, Save
  <2> QED
    BY <1>k, <2>1, <2>2, FreshElsewhere DEF OnPage
<1>7. CASE OpenOrders
  <2>1. /\ page = "profile"
        /\ page' = "orders"
        /\ Start("orders", fetches)
        /\ UNCHANGED <<patient, reliable, net, missed, me, name, tickets, inbox, profile>>
    BY <1>7 DEF OpenOrders, FetchOrder, modeVars, tileVars, dataVars
  <2>2. CASE kind = "orders"
    BY <1>f, <2>1, <2>2, FreshOnStart
  <2>3. CASE kind = "edit"
    BY <2>1, <2>3, FreshElsewhere DEF OnPage
  <2>4. CASE kind = "profile"
    <3>1. me \in Users /\ "orders" \in Kinds
      BY <2>1, SomebodyOnPage DEF Kinds
    <3>2. PICK k \in Slots : /\ fetches[k] = NoFetch
                             /\ fetches'[k].kind = "orders"
                             /\ \A j \in Slots \ {k} : fetches'[j] = fetches[j]
      BY <1>f, <2>1, <3>1, StartFills
    <3>3. /\ Settled(kind)' => Settled(kind)
          /\ \A i \in 1 .. Len(inbox) : Live(kind, inbox[i].k)' <=> Live(kind, inbox[i].k)
      BY <1>f, <2>1, <2>4, <3>2, OthersUnaware
    <3>4. /\ OnPage(kind)' => OnPage(kind)
          /\ Shown(kind) => Shown(kind)'
      BY <2>1, <2>4 DEF OnPage, Shown
    <3> QED
      BY <1>0, <2>1, <3>3, <3>4, FreshKept
  <2> QED
    BY <1>k, <2>2, <2>3, <2>4
<1>8. CASE \E t \in Texts : Type(t)
  <2>1. /\ page = "edit"
        /\ UNCHANGED <<patient, reliable, fetches, inbox, profile, orders, name, tickets, me,
                       page>>
        /\ typed'
    BY <1>8 DEF Type, modeVars, dataVars
  <2>2. /\ OnPage(kind)' => OnPage(kind)
        /\ Shown(kind) => Shown(kind)'
    BY <1>k, <2>1 DEF OnPage, Shown
  <2>3. /\ Settled(kind)' => Settled(kind)
        /\ \A i \in 1 .. Len(inbox) : Live(kind, inbox[i].k)' <=> Live(kind, inbox[i].k)
    BY <2>1 DEF Settled, Live
  <2> QED
    BY <1>0, <2>1, <2>2, <2>3, FreshKept
<1> QED
  BY <1>1, <1>2, <1>3, <1>4, <1>5, <1>6, <1>7, <1>8, <1>9, <1>10, <1>11, StepKinds
  DEF Starting

--------------------------------------------------------------------------
(* The theorems.                                                           *)

\* Init satisfies the invariant.
LEMMA ProfileStarts ==
  Init => ProfileInv
<1> SUFFICES ASSUME Init PROVE ProfileInv
  OBVIOUS
<1>1. TypeOK
  <2>1. /\ Blank \in Texts
        /\ 0 \in 0 .. MaxTickets
        /\ ProfileInitial \in ProfileState
        /\ OrderInitial \in OrderState
        /\ Names \subseteq Texts
    BY BoundAssumption
    DEF Texts, ProfileInitial, ProfileState, OrderInitial, OrderState
  <2>2. /\ fetches \in [Slots -> FetchRec]
        /\ tickets \in [Users -> 0 .. MaxTickets]
        /\ name \in [Users -> Texts]
    BY <2>1, NoFetchFacts DEF Init
  <2>3. inbox \in Seq(Reply)
    BY DEF Init
  <2> QED
    BY <2>1, <2>2, <2>3 DEF Init, TypeOK
<1>2. Len(inbox) = 0 /\ 1 .. Len(inbox) = {}
  BY DEF Init
<1>3. FetchInv /\ WhoInv
  BY NoFetchFacts DEF Init, FetchInv, WhoInv
<1>4. AnswerInv
  BY <1>2 DEF AnswerInv
<1>5. FreshInv
  BY DEF Init, FreshInv, Fresh, OnPage
<1> QED
  BY <1>1, <1>3, <1>4, <1>5 DEF ProfileInv

\* Every step keeps it.
LEMMA ProfileStep ==
  ProfileInv /\ [Next]_vars => ProfileInv'
BY ProfileTypeStep, FetchInvStep, AnswerInvStep, WhoInvStep, FreshInvStep DEF ProfileInv

\* Answers may be stale, but never the one that is shown last, however many
\* fetches, saves, bookings and sessions overlap (profile_bloc.dart 13-37,
\* order_bloc.dart 13-41, edit_profile.dart 52-85, 200-203).
THEOREM ProfileInvariant == Spec => []ProfileInv
BY ProfileStarts, ProfileStep, PTL DEF Spec

\* Every behaviour of the personal pages keeps the types of its variables
\* (profile_state.dart, order_state.dart, edit_profile.dart 16-27).
THEOREM ProfileTypes == Spec => []TypeOK
<1>1. ProfileInv => TypeOK
  BY DEF ProfileInv
<1> QED
  BY <1>1, ProfileInvariant, PTL

\* Without a fetch of a kind, no answer is of that kind and all has been read.
LEMMA NoneLeft ==
  ASSUME TypeOK, NEW kind \in Kinds, ~ Pending(kind)
  PROVE  /\ Settled(kind)
         /\ \A i \in 1 .. Len(inbox) : ~ Live(kind, inbox[i].k)
<1>1. \A k \in Slots : ~ Live(kind, k)
  BY DEF Pending, Live
<1> QED
  BY <1>1, AnswersHaveSlots DEF Settled

\* Once no fetch is left, what is shown is what is stored.
LEMMA ShownIsStored ==
  ASSUME ProfileInv
  PROVE  HeaderFresh /\ OrdersComplete /\ EditShowsStored
<1>1. "profile" \in Kinds /\ "orders" \in Kinds /\ "edit" \in Kinds
  BY DEF Kinds
<1>2. Fresh("profile") /\ Fresh("orders") /\ Fresh("edit")
  BY <1>1 DEF ProfileInv, FreshInv
<1> USE DEF ProfileInv
<1>3. HeaderFresh
  BY <1>1, <1>2, NoneLeft DEF HeaderFresh, HeaderReflects, Fresh, OnPage, Shown
<1>4. OrdersComplete
  BY <1>1, <1>2, NoneLeft DEF OrdersComplete, Fresh, OnPage, Shown
<1>5. EditShowsStored
  BY <1>1, <1>2, NoneLeft DEF EditShowsStored, Fresh, OnPage, Shown
<1> QED
  BY <1>3, <1>4, <1>5

\* Once no fetch is left, the header greets the signed-in user with the name saved
\* last and FinalPay has the number saved last, except after an edit page that
\* outlived the tile that had opened it, until the next FetchProfile
\* (profile.dart 84-95, mainhome.dart 103-178, finalPay.dart 189-214,
\* profile_bloc.dart 13-37, edit_profile.dart 200-203).
THEOREM HeaderIsFresh == Spec => []HeaderFresh
BY ProfileInvariant, ShownIsStored, PTL

\* Once no fetch is left, the page of orders lists all bookings of the signed-in
\* account, and no other's (order_bloc.dart 13-41).
THEOREM OrdersAreComplete == Spec => []OrdersComplete
BY ProfileInvariant, ShownIsStored, PTL

\* Once no fetch is left, the edit page shows what is stored, unless the user
\* has typed since (edit_profile.dart 52-85, 200-203).
THEOREM EditIsStored == Spec => []EditShowsStored
BY ProfileInvariant, ShownIsStored, PTL
==========================================================================
