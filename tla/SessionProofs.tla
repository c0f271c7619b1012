-------------------------- MODULE SessionProofs --------------------------
(***************************************************************************)
(* Proofs about Session, for any number of accounts, calls in progress,    *)
(* messages and kills: who reached MainScreen stays signed in until Sign   *)
(* Out is tapped, and who was told of an account has one.                  *)
(***************************************************************************)
EXTENDS Session, SequenceTheorems, TLAPS

--------------------------------------------------------------------------
(* Pages.                                                                  *)

\* Only a Navigator without pages has neither a visible nor a first page.
LEMMA TopFacts ==
  ASSUME TypeOK, stack # <<>>
  PROVE  /\ Len(stack) \in Nat
         /\ Len(stack) >= 1
         /\ Len(stack) \in 1 .. Len(stack)
         /\ 1 \in 1 .. Len(stack)
         /\ Top = stack[Len(stack)]
         /\ Base = stack[1]
         /\ Top \in Pages
         /\ Base \in Pages
         /\ \A i \in 1 .. Len(stack) : stack[i] \in Pages
<1>1. stack \in Seq(Pages)
  BY DEF TypeOK
<1>2. Len(stack) \in Nat /\ Len(stack) # 0
  BY <1>1, EmptySeq
<1>3. \A i \in 1 .. Len(stack) : stack[i] \in Pages
  BY <1>1
<1>4. Len(stack) \in 1 .. Len(stack) /\ 1 \in 1 .. Len(stack)
  BY <1>2
<1> QED
  BY <1>2, <1>3, <1>4 DEF Top, Base

LEMMA NoPages ==
  /\ Top # "none" => stack # <<>>
  /\ Base # "none" => stack # <<>>
BY DEF Top, Base

\* pushReplacement changes the visible page and nothing below it.
LEMMA ReplacedFacts ==
  ASSUME TypeOK, stack # <<>>, NEW p \in Pages
  PROVE  /\ Replaced(p) \in Seq(Pages)
         /\ Replaced(p) # <<>>
         /\ Len(Replaced(p)) = Len(stack)
         /\ Replaced(p)[Len(stack)] = p
         /\ \A i \in 1 .. Len(stack) : i # Len(stack) => Replaced(p)[i] = stack[i]
<1>1. stack \in Seq(Pages)
  BY DEF TypeOK
<1>2. Len(stack) \in Nat /\ Len(stack) >= 1 /\ Len(stack) \in 1 .. Len(stack)
  BY TopFacts
<1>3. /\ Replaced(p) \in Seq(Pages)
      /\ Len(Replaced(p)) = Len(stack)
  BY <1>1, <1>2, ExceptSeq DEF Replaced
<1>4. /\ Replaced(p)[Len(stack)] = p
      /\ \A i \in 1 .. Len(stack) : i # Len(stack) => Replaced(p)[i] = stack[i]
  BY <1>1, <1>2 DEF Replaced
<1> QED
  BY <1>2, <1>3, <1>4, EmptySeq

\* A FutureBuilder that is drawn again changes the first page and no other.
LEMMA RedrawnFacts ==
  ASSUME TypeOK, stack # <<>>, NEW p \in Pages
  PROVE  /\ Redrawn(p) \in Seq(Pages)
         /\ Redrawn(p) # <<>>
         /\ Len(Redrawn(p)) = Len(stack)
         /\ Redrawn(p)[1] = p
         /\ \A i \in 1 .. Len(stack) : i # 1 => Redrawn(p)[i] = stack[i]
<1>1. stack \in Seq(Pages)
  BY DEF TypeOK
<1>2. Len(stack) \in Nat /\ Len(stack) >= 1 /\ 1 \in 1 .. Len(stack)
  BY TopFacts
<1>3. /\ Redrawn(p) \in Seq(Pages)
      /\ Len(Redrawn(p)) = Len(stack)
  BY <1>1, <1>2, ExceptSeq DEF Redrawn
<1>4. /\ Redrawn(p)[1] = p
      /\ \A i \in 1 .. Len(stack) : i # 1 => Redrawn(p)[i] = stack[i]
  BY <1>1, <1>2 DEF Redrawn
<1> QED
  BY <1>2, <1>3, <1>4, EmptySeq

\* push adds a page on top.
LEMMA PushedFacts ==
  ASSUME TypeOK, NEW p \in Pages
  PROVE  /\ Pushed(p) \in Seq(Pages)
         /\ Pushed(p) # <<>>
         /\ Len(Pushed(p)) = Len(stack) + 1
         /\ Pushed(p)[Len(stack) + 1] = p
         /\ \A i \in 1 .. Len(stack) : Pushed(p)[i] = stack[i]
<1>1. stack \in Seq(Pages)
  BY DEF TypeOK
<1> QED
  BY <1>1 DEF Pushed

\* pop takes the visible page away, the last one, too.
LEMMA PoppedFacts ==
  ASSUME TypeOK, stack # <<>>
  PROVE  /\ Popped \in Seq(Pages)
         /\ Len(Popped) = Len(stack) - 1
         /\ Popped = <<>> <=> Len(stack) = 1
         /\ \A i \in 1 .. (Len(stack) - 1) : Popped[i] = stack[i]
         /\ 1 .. (Len(stack) - 1) \subseteq 1 .. Len(stack)
<1>1. stack \in Seq(Pages)
  BY DEF TypeOK
<1>2. Len(stack) \in Nat /\ Len(stack) >= 1
  BY TopFacts
<1>3. /\ Popped \in Seq(Pages)
      /\ Len(Popped) = Len(stack) - 1
      /\ \A i \in 1 .. (Len(stack) - 1) : Popped[i] = stack[i]
  <2>1. CASE Len(stack) = 1
    <3>1. Popped = SubSeq(stack, 1, 0)
      BY <2>1 DEF Popped
    <3>2. Popped = <<>>
      BY <3>1, SubSeqEmpty
    <3> QED
      BY <2>1, <3>2
  <2>2. CASE Len(stack) > 1
    BY <1>1, <1>2, <2>2 DEF Popped
  <2>3. \A n \in Nat : n >= 1 => n = 1 \/ n > 1
    OBVIOUS
  <2>4. Len(stack) = 1 \/ Len(stack) > 1
    BY <1>2, <2>3, Zenon
  <2> QED
    BY <2>1, <2>2, <2>4, Zenon
<1>4. Popped = <<>> <=> Len(Popped) = 0
  BY <1>3, EmptySeq
<1> QED
  BY <1>2, <1>3, <1>4

--------------------------------------------------------------------------
(* Calls.                                                                  *)

\* No call is a call record, of no kind, in no phase and of no page.
LEMMA NoCallFacts ==
  /\ NoCall \in CallRec
  /\ NoCall.kind = "none"
  /\ NoCall.phase = "none"
  /\ NoCall.user = NoUser
  /\ NoCall.page = "gone"
BY DEF NoCall, CallRec

\* The page a call is made from.
LEMMA PageOfFacts ==
  /\ PageOf("login") = "login"
  /\ PageOf("createAccount") = "signup"
  /\ PageOf("reset") = "reset"
  /\ PageOf("signOut") = "account"
  /\ PageOf("none") = "none"
  /\ \A r \in CallRec : PageOf(r.kind) \in {"login", "signup", "reset", "account", "none"}
BY DEF PageOf, CallRec

\* When its page is left a call goes on waiting for what it waits for.
LEMMA LeftFacts ==
  ASSUME NEW r \in CallRec
  PROVE  /\ Left(r) \in CallRec
         /\ Left(r).kind = r.kind
         /\ Left(r).phase = r.phase
         /\ Left(r).user = r.user
         /\ r.page # "mounted" => Left(r) = r
BY DEF CallRec, Left

LEMMA NoCallLeft == Left(NoCall) = NoCall
BY NoCallFacts, LeftFacts

\* Leaving page p ends no call.
LEMMA WithoutFacts ==
  ASSUME NEW cs \in [Slots -> CallRec], NEW p
  PROVE  /\ Without(cs, p) \in [Slots -> CallRec]
         /\ \A k \in Slots :
              /\ Without(cs, p)[k].kind = cs[k].kind
              /\ Without(cs, p)[k].phase = cs[k].phase
              /\ Without(cs, p)[k].user = cs[k].user
              /\ cs[k] = NoCall => Without(cs, p)[k] = NoCall
<1>1. \A k \in Slots : cs[k] \in CallRec
  OBVIOUS
<1>2. \A k \in Slots : Without(cs, p)[k] \in {Left(cs[k]), cs[k]}
  BY DEF Without
<1>3. ASSUME NEW k \in Slots
      PROVE  /\ Without(cs, p)[k] \in CallRec
             /\ Without(cs, p)[k].kind = cs[k].kind
             /\ Without(cs, p)[k].phase = cs[k].phase
             /\ Without(cs, p)[k].user = cs[k].user
  <2>1. CASE Without(cs, p)[k] = Left(cs[k])
    BY <1>1, <2>1, LeftFacts
  <2>2. CASE Without(cs, p)[k] = cs[k]
    BY <1>1, <2>2
  <2> QED
    BY <1>2, <2>1, <2>2
<1>4. Without(cs, p) \in [Slots -> CallRec]
  <2>1. Without(cs, p) = [k \in Slots |-> Without(cs, p)[k]]
    BY DEF Without
  <2> QED
    BY <1>3, <2>1
<1>6. ASSUME NEW k \in Slots, cs[k] = NoCall
      PROVE  Without(cs, p)[k] = NoCall
  BY <1>2, <1>6, NoCallLeft
<1> QED
  BY <1>3, <1>4, <1>6

\* A call ends in its slot.
LEMMA EndedFacts ==
  ASSUME TypeOK, NEW k \in Slots
  PROVE  /\ Ended(k) \in [Slots -> CallRec]
         /\ Ended(k)[k] = NoCall
         /\ \A j \in Slots \ {k} : Ended(k)[j] = calls[j]
BY NoCallFacts DEF TypeOK, Ended

\* A call starts in a free slot, as its page asked for, and touches no other
\* (login_screen.dart 26-41, signup_screen.dart 53-63).
LEMMA StartCallFacts ==
  ASSUME TypeOK, NEW kind \in {"login", "createAccount", "reset", "signOut"},
         NEW phase \in {"asked", "deleting"}, NEW u \in Users \cup {NoUser},
         StartCall(kind, phase, u)
  PROVE  /\ calls' \in [Slots -> CallRec]
         /\ \E k \in Slots :
              /\ calls[k] = NoCall
              /\ calls'[k].kind = kind
              /\ calls'[k].phase = phase
              /\ calls'[k].user = u
              /\ calls'[k].page = "mounted"
              /\ \A j \in Slots \ {k} : calls'[j] = calls[j]
<1> DEFINE new == [kind |-> kind, phase |-> phase, user |-> u, page |-> "mounted"]
<1>1. PICK k \in Slots : calls[k] = NoCall /\ calls' = [calls EXCEPT ![k] = new]
  BY DEF StartCall
<1>2. /\ new \in CallRec
      /\ new.kind = kind
      /\ new.phase = phase
      /\ new.user = u
      /\ new.page = "mounted"
  BY DEF CallRec
<1> HIDE DEF new
<1>3. calls \in [Slots -> CallRec]
  BY DEF TypeOK
<1>4. calls' \in [Slots -> CallRec]
  BY <1>1, <1>2, <1>3
<1>5. calls'[k] = new /\ \A j \in Slots \ {k} : calls'[j] = calls[j]
  BY <1>1, <1>3
<1> QED
  BY <1>1, <1>2, <1>4, <1>5

\* A call goes on to its next await.
LEMMA PhaseFacts ==
  ASSUME TypeOK, NEW k \in Slots, NEW phase \in {"granted", "storing", "leaving"},
         calls' = [calls EXCEPT ![k].phase = phase]
  PROVE  /\ calls' \in [Slots -> CallRec]
         /\ calls'[k].kind = calls[k].kind
         /\ calls'[k].phase = phase
         /\ calls'[k].user = calls[k].user
         /\ calls'[k].page = calls[k].page
         /\ \A j \in Slots \ {k} : calls'[j] = calls[j]
<1>1. calls \in [Slots -> CallRec] /\ calls[k] \in CallRec
  BY DEF TypeOK
<1>2. \A r \in CallRec : /\ [r EXCEPT !.phase = phase] \in CallRec
                         /\ [r EXCEPT !.phase = phase].kind = r.kind
                         /\ [r EXCEPT !.phase = phase].phase = phase
                         /\ [r EXCEPT !.phase = phase].user = r.user
                         /\ [r EXCEPT !.phase = phase].page = r.page
  BY DEF CallRec
<1>3. /\ calls'[k] = [calls[k] EXCEPT !.phase = phase]
      /\ \A j \in Slots \ {k} : calls'[j] = calls[j]
  BY <1>1
<1>4. calls' = [calls EXCEPT ![k] = [calls[k] EXCEPT !.phase = phase]]
  BY <1>1
<1>5. calls' \in [Slots -> CallRec]
  BY <1>1, <1>2, <1>4
<1> QED
  BY <1>1, <1>2, <1>3, <1>5

\* No call begins and none goes on: every call is as it was, but perhaps for its
\* page, or has ended.
Cut ==
  /\ calls' \in [Slots -> CallRec]
  /\ \A j \in Slots :
       \/ calls'[j] = NoCall
       \/ /\ calls[j] # NoCall
          /\ calls'[j].kind = calls[j].kind
          /\ calls'[j].phase = calls[j].phase
          /\ calls'[j].user = calls[j].user

LEMMA CutByNothing ==
  ASSUME TypeOK, calls' = calls
  PROVE  Cut
BY DEF TypeOK, Cut

LEMMA CutByEnd ==
  ASSUME TypeOK, NEW k \in Slots, calls' = Ended(k)
  PROVE  Cut
BY EndedFacts DEF Cut

LEMMA CutByPage ==
  ASSUME TypeOK, NEW p, calls' = Without(calls, p)
  PROVE  Cut
<1>1. calls \in [Slots -> CallRec]
  BY DEF TypeOK
<1> QED
  BY <1>1, WithoutFacts DEF Cut

LEMMA CutByEndAndPage ==
  ASSUME TypeOK, NEW k \in Slots, NEW p, calls' = Without(Ended(k), p)
  PROVE  Cut
<1> DEFINE e == Ended(k)
<1>1. /\ e \in [Slots -> CallRec]
      /\ e[k] = NoCall
      /\ \A j \in Slots \ {k} : e[j] = calls[j]
  BY EndedFacts
<1> HIDE DEF e
<1>2. /\ calls' \in [Slots -> CallRec]
      /\ \A j \in Slots : /\ calls'[j].kind = e[j].kind
                          /\ calls'[j].phase = e[j].phase
                          /\ calls'[j].user = e[j].user
                          /\ e[j] = NoCall => calls'[j] = NoCall
  <2>1. calls' = Without(e, p)
    BY DEF e
  <2> QED
    BY <1>1, <2>1, WithoutFacts
<1> QED
  BY <1>1, <1>2 DEF Cut

\* LoginScreen has replaced all pages.
LEMMA CutBySignOut ==
  ASSUME TypeOK, NEW k \in Slots, calls' = [j \in Slots |-> Left(Ended(k)[j])]
  PROVE  Cut
<1> DEFINE e == Ended(k)
<1>1. /\ e \in [Slots -> CallRec]
      /\ e[k] = NoCall
      /\ \A j \in Slots \ {k} : e[j] = calls[j]
  BY EndedFacts
<1>2. \A j \in Slots : calls'[j] = Left(e[j])
  OBVIOUS
<1>3. calls' = [j \in Slots |-> calls'[j]]
  OBVIOUS
<1> HIDE DEF e
<1>4. ASSUME NEW j \in Slots
      PROVE  /\ calls'[j] \in CallRec
             /\ calls'[j].kind = e[j].kind
             /\ calls'[j].phase = e[j].phase
             /\ calls'[j].user = e[j].user
             /\ e[j] = NoCall => calls'[j] = NoCall
  <2>1. e[j] \in CallRec
    BY <1>1
  <2>2. calls'[j] = Left(e[j])
    BY <1>2
  <2> QED
    BY <2>1, <2>2, LeftFacts, NoCallLeft
<1>5. calls' \in [Slots -> CallRec]
  BY <1>3, <1>4
<1> QED
  BY <1>1, <1>4, <1>5 DEF Cut

\* The exit transition of a page ends.
LEMMA CutByTransition ==
  ASSUME TypeOK, NEW k \in Slots, TransitionEnds(k)
  PROVE  Cut
<1>1. calls \in [Slots -> CallRec] /\ calls[k] \in CallRec
  BY DEF TypeOK
<1>2. \A r \in CallRec : /\ [r EXCEPT !.page = "gone"] \in CallRec
                         /\ [r EXCEPT !.page = "gone"].kind = r.kind
                         /\ [r EXCEPT !.page = "gone"].phase = r.phase
                         /\ [r EXCEPT !.page = "gone"].user = r.user
  BY DEF CallRec
<1>3. /\ calls'[k] = [calls[k] EXCEPT !.page = "gone"]
      /\ \A j \in Slots \ {k} : calls'[j] = calls[j]
  BY <1>1 DEF TransitionEnds
<1>4. calls' = [calls EXCEPT ![k] = [calls[k] EXCEPT !.page = "gone"]]
  BY <1>1 DEF TransitionEnds
<1>5. calls' \in [Slots -> CallRec]
  BY <1>1, <1>2, <1>4
<1>6. calls[k] # NoCall
  BY NoCallFacts DEF TransitionEnds
<1>7. /\ calls'[k].kind = calls[k].kind
      /\ calls'[k].phase = calls[k].phase
      /\ calls'[k].user = calls[k].user
  BY <1>1, <1>2, <1>3
<1>8. \A j \in Slots : calls'[j] = NoCall \/ j = k \/ (calls[j] # NoCall /\ calls'[j] = calls[j])
  BY <1>3
<1> QED
  BY <1>5, <1>6, <1>7, <1>8 DEF Cut

LEMMA CutByKill ==
  ASSUME calls' = [j \in Slots |-> NoCall]
  PROVE  Cut
BY NoCallFacts DEF Cut

\* Calls are only cut in all steps but the taps that make a call and the
\* answers that let it go on.
LEMMA CutSteps ==
  ASSUME TypeOK,
         \/ NetChange \/ Listen \/ TimerFires \/ CheckLoginStatus \/ CheckFails
         \/ SwitchForm("login", "signup") \/ SwitchForm("signup", "login")
         \/ OpenPage("login", "reset") \/ Back
         \/ \E p \in MainPages : OpenPage(p, "account")
         \/ \E u \in Users : DocumentSent(u)
         \/ \E k \in Slots : UidStored(k) \/ Created(k) \/ ResetSent(k)
                             \/ SignedOut(k) \/ CallFails(k) \/ TransitionEnds(k)
         \/ KillApp
         \/ UNCHANGED vars
  PROVE  Cut
<1>1. CASE \/ NetChange \/ Listen \/ TimerFires \/ CheckLoginStatus \/ CheckFails
           \/ OpenPage("login", "reset")
           \/ \E p \in MainPages : OpenPage(p, "account")
           \/ \E u \in Users : DocumentSent(u)
           \/ UNCHANGED vars
  <2>1. calls' = calls
    BY <1>1 DEF NetChange, Listen, TimerFires, CheckLoginStatus, CheckFails, OpenPage,
                DocumentSent, vars
  <2> QED
    BY <2>1, CutByNothing
<1>2. CASE SwitchForm("login", "signup") \/ SwitchForm("signup", "login") \/ Back
  BY <1>2, CutByPage DEF SwitchForm, Back
<1>3. ASSUME NEW k \in Slots,
             UidStored(k) \/ Created(k) \/ ResetSent(k)
      PROVE  Cut
  BY <1>3, CutByEnd, CutByEndAndPage DEF UidStored, Created, ResetSent
<1>4. ASSUME NEW k \in Slots, SignedOut(k)
      PROVE  Cut
  BY <1>4, CutByEnd, CutBySignOut DEF SignedOut
<1>5. ASSUME NEW k \in Slots, CallFails(k)
      PROVE  Cut
  BY <1>5, CutByEnd DEF CallFails
<1>6. CASE KillApp
  BY <1>6, CutByKill DEF KillApp
<1> QED
  BY <1>1, <1>2, <1>3, <1>4, <1>5, <1>6, CutByTransition

--------------------------------------------------------------------------
(* Messages.                                                               *)

\* The first messages: one of con(), and with a connection one more.
LEMMA FirstFacts ==
  ASSUME NEW n \in BOOLEAN
  PROVE  /\ FirstMessages(n) \in Seq(Message)
         /\ FirstMessages(n) # <<>>
         /\ \A i \in 1 .. Len(FirstMessages(n)) :
              /\ FirstMessages(n)[i].of = "con" => i = 1
              /\ FirstMessages(n)[i].net <=> n
         /\ n => Len(FirstMessages(n)) > 1
<1> DEFINE c == [of |-> "con", net |-> TRUE]
           h == [of |-> "change", net |-> TRUE]
           o == [of |-> "con", net |-> FALSE]
<1>1. /\ c \in Message /\ c.of = "con" /\ c.net
      /\ h \in Message /\ h.of = "change" /\ h.net
      /\ o \in Message /\ o.of = "con" /\ ~ o.net
  BY DEF Message
<1> HIDE DEF c, h, o
<1>2. CASE n
  <2>1. FirstMessages(n) = <<c, h>>
    BY <1>2 DEF FirstMessages, c, h
  <2>2. /\ <<c, h>> \in Seq(Message)
        /\ Len(<<c, h>>) = 2
        /\ <<c, h>>[1] = c
        /\ <<c, h>>[2] = h
    BY <1>1
  <2>3. <<c, h>> # <<>> /\ Len(<<c, h>>) > 1
    BY <2>2
  <2>4. ASSUME NEW i \in 1 .. Len(<<c, h>>)
        PROVE  /\ <<c, h>>[i].of = "con" => i = 1
               /\ <<c, h>>[i].net
    <3>1. i = 1 \/ i = 2
      BY <2>2
    <3>2. CASE i = 1
      BY <1>1, <2>2, <3>2
    <3>3. CASE i = 2
      BY <1>1, <2>2, <3>3
    <3> QED
      BY <3>1, <3>2, <3>3
  <2> DEFINE f == <<c, h>>
  <2> HIDE DEF f
  <2>5. /\ f \in Seq(Message)
        /\ f # <<>>
        /\ \A i \in 1 .. Len(f) : (f[i].of = "con" => i = 1) /\ f[i].net
        /\ Len(f) > 1
    BY <2>2, <2>3, <2>4 DEF f
  <2>6. FirstMessages(n) = f
    BY <2>1 DEF f
  <2> QED
    BY <1>2, <2>5, <2>6, Zenon
<1>3. CASE ~ n
  <2>1. FirstMessages(n) = <<o>>
    BY <1>3 DEF FirstMessages, o
  <2>2. /\ <<o>> \in Seq(Message)
        /\ Len(<<o>>) = 1
        /\ <<o>>[1] = o
    BY <1>1
  <2>3. <<o>> # <<>>
    BY <2>2
  <2>4. ASSUME NEW i \in 1 .. Len(<<o>>)
        PROVE  i = 1 /\ ~ <<o>>[i].net
    <3>1. i = 1
      BY <2>2
    <3> QED
      BY <1>1, <2>2, <3>1
  <2> DEFINE f == <<o>>
  <2> HIDE DEF f
  <2>5. /\ f \in Seq(Message)
        /\ f # <<>>
        /\ \A i \in 1 .. Len(f) : i = 1 /\ ~ f[i].net
    BY <2>2, <2>3, <2>4 DEF f
  <2>6. FirstMessages(n) = f
    BY <2>1 DEF f
  <2> QED
    BY <1>3, <2>5, <2>6, Zenon
<1> QED
  BY <1>2, <1>3

\* The splash page takes the oldest message.
LEMMA TailFacts ==
  ASSUME TypeOK, inbox # <<>>
  PROVE  /\ Tail(inbox) \in Seq(Message)
         /\ Head(inbox) = inbox[1]
         /\ inbox[1] \in Message
         /\ Len(inbox) \in Nat \ {0}
         /\ 1 \in 1 .. Len(inbox)
         /\ Len(Tail(inbox)) = Len(inbox) - 1
         /\ \A i \in 1 .. Len(Tail(inbox)) : /\ i + 1 \in 1 .. Len(inbox)
                                             /\ i + 1 # 1
                                             /\ Tail(inbox)[i] = inbox[i + 1]
<1>1. inbox \in Seq(Message)
  BY DEF TypeOK
<1>2. Len(inbox) \in Nat /\ Len(inbox) # 0
  BY <1>1, EmptySeq
<1>3. /\ Head(inbox) \in Message
      /\ Tail(inbox) \in Seq(Message)
      /\ Len(Tail(inbox)) = Len(inbox) - 1
      /\ \A i \in 1 .. Len(Tail(inbox)) : Tail(inbox)[i] = inbox[i + 1]
  BY <1>1, HeadTailProperties
<1>4. Head(inbox) = inbox[1]
  BY <1>1
<1>5. 1 \in 1 .. Len(inbox)
  BY <1>2
<1>6. \A i \in 1 .. Len(Tail(inbox)) : i + 1 \in 1 .. Len(inbox) /\ i + 1 # 1
  BY <1>2, <1>3
<1> QED
  BY <1>2, <1>3, <1>4, <1>5, <1>6

\* The plugin adds a message.
LEMMA MessageJoins ==
  ASSUME TypeOK, NEW m \in Message
  PROVE  /\ Append(inbox, m) \in Seq(Message)
         /\ Append(inbox, m) # <<>>
         /\ Len(inbox) \in Nat
         /\ Len(Append(inbox, m)) = Len(inbox) + 1
         /\ Append(inbox, m)[Len(inbox) + 1] = m
         /\ \A i \in 1 .. Len(inbox) : Append(inbox, m)[i] = inbox[i]
<1>1. inbox \in Seq(Message)
  BY DEF TypeOK
<1> QED
  BY <1>1

--------------------------------------------------------------------------
(* Types.                                                                  *)

\* The stack stays a stack of pages.
LEMMA StackTypeStep ==
  ASSUME TypeOK, [Next]_vars
  PROVE  stack' \in Seq(Pages)
<1>0. /\ "check" \in Pages /\ "login" \in Pages /\ "signup" \in Pages
      /\ "main" \in Pages /\ "reset" \in Pages /\ "account" \in Pages
      /\ "splash" \in Pages /\ "unchecked" \in Pages
  BY DEF Pages, MainPages, Unread
<1>1. CASE UNCHANGED stack
  BY <1>1 DEF TypeOK
<1>2. ASSUME stack # <<>>, NEW p \in Pages, stack' = Replaced(p) \/ stack' = Redrawn(p)
      PROVE  stack' \in Seq(Pages)
  BY <1>2, ReplacedFacts, RedrawnFacts
<1>3. ASSUME NEW p \in Pages, stack' = Pushed(p)
      PROVE  stack' \in Seq(Pages)
  BY <1>3, PushedFacts
<1>4. CASE stack # <<>> /\ stack' = Popped
  BY <1>4, PoppedFacts
<1>5. ASSUME NEW p \in Pages, stack' = <<p>>
      PROVE  stack' \in Seq(Pages)
  BY <1>5
<1>6. CASE \/ NetChange \/ Listen \/ UNCHANGED vars
           \/ \E u \in Users : TapLogin(u) \/ TapSignUp(u) \/ DocumentSent(u)
           \/ TapReset \/ TapSignOut
           \/ \E k \in Slots : SignedIn(k) \/ AccountMade(k) \/ CreateUserAnswers(k)
                               \/ UidDeleted(k) \/ CallFails(k) \/ TransitionEnds(k)
  BY <1>1, <1>6
  DEF NetChange, Listen, vars, TapLogin, TapSignUp, DocumentSent, TapReset, TapSignOut,
      SignedIn, AccountMade, CreateUserAnswers, UidDeleted, CallFails, TransitionEnds
<1>7. CASE \/ TimerFires
           \/ SwitchForm("login", "signup") \/ SwitchForm("signup", "login")
  <2>1. stack # <<>>
    BY <1>7, NoPages DEF TimerFires, SwitchForm
  <2> QED
    BY <1>0, <1>2, <1>7, <2>1 DEF TimerFires, SwitchForm
<1>8. CASE CheckLoginStatus \/ CheckFails
  <2>1. stack # <<>>
    BY <1>8, NoPages DEF CheckLoginStatus, CheckFails
  <2> QED
    BY <1>0, <1>2, <1>8, <2>1 DEF CheckLoginStatus, CheckFails
<1>9. CASE OpenPage("login", "reset") \/ \E p \in MainPages : OpenPage(p, "account")
  BY <1>0, <1>3, <1>9 DEF OpenPage
<1>10. CASE Back
  <2>1. stack # <<>>
    BY <1>10 DEF Back
  <2> QED
    BY <1>4, <1>10, <2>1 DEF Back
<1>11. CASE KillApp
  BY <1>0, <1>5, <1>11 DEF KillApp
<1>12. ASSUME NEW k \in Slots,
              UidStored(k) \/ Created(k) \/ SignedOut(k) \/ ResetSent(k)
       PROVE  stack' \in Seq(Pages)
  BY <1>0, <1>1, <1>2, <1>4, <1>5, <1>12
  DEF UidStored, Created, SignedOut, ResetSent, HasNavigator
<1> QED
  BY <1>6, <1>7, <1>8, <1>9, <1>10, <1>11, <1>12 DEF Next, Answer

\* The calls stay calls.
LEMMA CallsTypeStep ==
  ASSUME TypeOK, [Next]_vars
  PROVE  calls' \in [Slots -> CallRec]
<1>1. CASE \E u \in Users : TapLogin(u) \/ TapSignUp(u)
  BY <1>1, StartCallFacts DEF TapLogin, TapSignUp
<1>2. CASE TapReset \/ TapSignOut
  BY <1>2, StartCallFacts DEF TapReset, TapSignOut
<1>3. ASSUME NEW k \in Slots, SignedIn(k) \/ AccountMade(k) \/ UidDeleted(k)
      PROVE  calls' \in [Slots -> CallRec]
  BY <1>3, PhaseFacts DEF SignedIn, AccountMade, UidDeleted
<1>4. ASSUME NEW k \in Slots, CreateUserAnswers(k)
      PROVE  calls' \in [Slots -> CallRec]
  BY <1>4, PhaseFacts, EndedFacts DEF CreateUserAnswers
<1>5. CASE /\ ~ \E u \in Users : TapLogin(u) \/ TapSignUp(u)
           /\ ~ (TapReset \/ TapSignOut)
           /\ ~ \E k \in Slots : \/ SignedIn(k) \/ AccountMade(k) \/ UidDeleted(k)
                                 \/ CreateUserAnswers(k)
  <2>1. Cut
    BY <1>5, CutSteps DEF Next, Answer
  <2> QED
    BY <2>1 DEF Cut
<1> QED
  BY <1>1, <1>2, <1>3, <1>4, <1>5

\* What the splash page knows keeps its type.
LEMMA SplashTypeStep ==
  ASSUME TypeOK, [Next]_vars
  PROVE  /\ patient' \in BOOLEAN
         /\ net' \in BOOLEAN
         /\ inbox' \in Seq(Message)
         /\ isoffline' \in BOOLEAN
         /\ timer' \in BOOLEAN
         /\ heard' \in BOOLEAN
         /\ kills' \in 0 .. MaxKills
<1>1. CASE NetChange
  <2>1. [of |-> "change", net |-> ~ net] \in Message
    BY DEF Message
  <2>2. inbox' \in Seq(Message)
    BY <1>1, <2>1, MessageJoins DEF NetChange, TypeOK
  <2>3. net' \in BOOLEAN /\ heard' \in BOOLEAN
    BY <1>1 DEF NetChange
  <2> QED
    BY <1>1, <2>2, <2>3 DEF NetChange, TypeOK
<1>2. CASE Listen
  <2>1. inbox' \in Seq(Message)
    BY <1>2, TailFacts DEF Listen
  <2>2. Head(inbox) \in Message
    BY <1>2, TailFacts DEF Listen
  <2>3. isoffline' \in BOOLEAN /\ timer' \in BOOLEAN
    BY <1>2 DEF Listen, TypeOK
  <2> QED
    BY <1>2, <2>1, <2>3 DEF Listen, TypeOK
<1>3. CASE TimerFires
  <2>1. inbox' \in Seq(Message)
    BY <1>3 DEF TimerFires
  <2> QED
    BY <1>3, <2>1 DEF TimerFires, TypeOK
<1>4. CASE KillApp
  <2>1. inbox' \in Seq(Message)
    BY <1>4, FirstFacts DEF KillApp, TypeOK
  <2>2. kills' \in 0 .. MaxKills
    BY <1>4, BoundAssumption DEF KillApp, TypeOK
  <2> QED
    BY <1>4, <2>1, <2>2 DEF KillApp, TypeOK
<1>5. CASE UNCHANGED <<patient, net, inbox, isoffline, timer, heard, kills>>
  BY <1>5 DEF TypeOK
<1>6. CASE \/ CheckLoginStatus \/ CheckFails \/ UNCHANGED vars \/ Back
           \/ SwitchForm("login", "signup") \/ SwitchForm("signup", "login")
           \/ OpenPage("login", "reset") \/ (\E p \in MainPages : OpenPage(p, "account"))
           \/ \E u \in Users : TapLogin(u) \/ TapSignUp(u) \/ DocumentSent(u)
           \/ TapReset \/ TapSignOut
  BY <1>5, <1>6
  DEF CheckLoginStatus, CheckFails, vars, Back, SwitchForm, OpenPage, TapLogin,
      TapSignUp, DocumentSent, TapReset, TapSignOut, splashVars
<1>7. ASSUME NEW k \in Slots, Answer(k) \/ TransitionEnds(k)
      PROVE  UNCHANGED <<patient, net, inbox, isoffline, timer, heard, kills>>
  BY <1>7
  DEF Answer, SignedIn, UidStored, AccountMade, CreateUserAnswers, Created, ResetSent,
      UidDeleted, SignedOut, CallFails, TransitionEnds, splashVars
<1> QED
  BY <1>1, <1>2, <1>3, <1>4, <1>5, <1>6, <1>7 DEF Next

\* The user of a call that logs in or signs up stays somebody.
LEMMA CallerStep ==
  ASSUME TypeOK, CallerInv, [Next]_vars
  PROVE  CallerInv'
<1>1. CASE \E u \in Users : TapLogin(u) \/ TapSignUp(u)
  <2>1. PICK u \in Users : TapLogin(u) \/ TapSignUp(u)
    BY <1>1
  <2>2. PICK k \in Slots : /\ calls'[k].user = u
                           /\ \A j \in Slots \ {k} : calls'[j] = calls[j]
    BY <2>1, StartCallFacts DEF TapLogin, TapSignUp
  <2> QED
    BY <2>2 DEF CallerInv
<1>2. CASE TapReset \/ TapSignOut
  <2>1. PICK k \in Slots : /\ calls'[k].kind \in {"reset", "signOut"}
                           /\ \A j \in Slots \ {k} : calls'[j] = calls[j]
    BY <1>2, StartCallFacts DEF TapReset, TapSignOut
  <2> QED
    BY <2>1 DEF CallerInv
<1>3. ASSUME NEW k \in Slots, SignedIn(k) \/ AccountMade(k) \/ UidDeleted(k)
      PROVE  CallerInv'
  <2>1. /\ calls'[k].kind = calls[k].kind
        /\ calls'[k].user = calls[k].user
        /\ \A j \in Slots \ {k} : calls'[j] = calls[j]
    BY <1>3, PhaseFacts DEF SignedIn, AccountMade, UidDeleted
  <2> QED
    BY <2>1 DEF CallerInv
<1>4. ASSUME NEW k \in Slots, CreateUserAnswers(k)
      PROVE  CallerInv'
  <2>1. /\ \/ calls'[k] = NoCall
           \/ calls'[k].kind = calls[k].kind /\ calls'[k].user = calls[k].user
        /\ \A j \in Slots \ {k} : calls'[j] = calls[j]
    BY <1>4, PhaseFacts, EndedFacts DEF CreateUserAnswers
  <2> QED
    BY <2>1, NoCallFacts DEF CallerInv
<1>5. CASE /\ ~ \E u \in Users : TapLogin(u) \/ TapSignUp(u)
           /\ ~ (TapReset \/ TapSignOut)
           /\ ~ \E k \in Slots : \/ SignedIn(k) \/ AccountMade(k) \/ UidDeleted(k)
                                 \/ CreateUserAnswers(k)
  <2>1. Cut
    BY <1>5, CutSteps DEF Next, Answer
  <2> QED
    BY <2>1, NoCallFacts DEF Cut, CallerInv
<1> QED
  BY <1>1, <1>2, <1>3, <1>4, <1>5

\* Storage, Firebase and the history keep their types.
LEMMA StoreTypeStep ==
  ASSUME TypeOK, CallerInv, [Next]_vars
  PROVE  /\ uid' \in Users \cup {NoUser}
         /\ fbUser' \in Users \cup {NoUser}
         /\ accounts' \in SUBSET Users
         /\ docs' \in [Users -> {"none", "queued", "stored"}]
         /\ session' \in Users \cup {NoUser}
         /\ confirmed' \in SUBSET Users
<1>0. /\ \A k \in Slots : calls[k].user \in Users \cup {NoUser}
      /\ \A k \in Slots : calls[k].kind \in {"login", "createAccount"}
                            => calls[k].user \in Users
  BY DEF TypeOK, CallRec, CallerInv
<1>1. CASE \/ NetChange \/ Listen \/ TimerFires \/ UNCHANGED vars \/ Back
           \/ SwitchForm("login", "signup") \/ SwitchForm("signup", "login")
           \/ OpenPage("login", "reset") \/ (\E p \in MainPages : OpenPage(p, "account"))
           \/ \E u \in Users : TapLogin(u) \/ TapSignUp(u)
           \/ TapReset \/ KillApp \/ CheckFails
           \/ \E k \in Slots : ResetSent(k) \/ CallFails(k) \/ TransitionEnds(k)
  BY <1>1
  DEF TypeOK, NetChange, Listen, TimerFires, CheckFails, vars, Back, SwitchForm, OpenPage,
      TapLogin, TapSignUp, TapReset, KillApp, ResetSent, CallFails, TransitionEnds,
      storeVars, serverVars
<1>2. CASE CheckLoginStatus \/ TapSignOut
  BY <1>2 DEF TypeOK, CheckLoginStatus, TapSignOut, storeVars, serverVars
<1>3. CASE \E u \in Users : DocumentSent(u)
  BY <1>3 DEF TypeOK, DocumentSent, storeVars
<1>4. ASSUME NEW k \in Slots, SignedIn(k) \/ UidStored(k) \/ UidDeleted(k) \/ SignedOut(k)
      PROVE  /\ UNCHANGED <<accounts, docs, confirmed>>
             /\ uid' \in Users \cup {NoUser}
             /\ fbUser' \in Users \cup {NoUser}
             /\ session' \in Users \cup {NoUser}
  BY <1>0, <1>4
  DEF TypeOK, SignedIn, UidStored, UidDeleted, SignedOut, serverVars
<1>5. ASSUME NEW k \in Slots, AccountMade(k)
      PROVE  /\ UNCHANGED <<uid, fbUser, docs, session, confirmed>>
             /\ accounts' \in SUBSET Users
  BY <1>0, <1>5 DEF TypeOK, AccountMade, InCall, storeVars
<1>6. ASSUME NEW k \in Slots, CreateUserAnswers(k)
      PROVE  /\ UNCHANGED <<uid, accounts, session, confirmed>>
             /\ fbUser' \in Users \cup {NoUser}
             /\ docs' \in [Users -> {"none", "queued", "stored"}]
  BY <1>0, <1>6 DEF TypeOK, CreateUserAnswers, InCall
<1>7. ASSUME NEW k \in Slots, Created(k)
      PROVE  /\ UNCHANGED <<uid, fbUser, accounts, docs, session>>
             /\ confirmed' \in SUBSET Users
  BY <1>0, <1>7 DEF TypeOK, Created, InCall, storeVars, serverVars
<1>8. ASSUME NEW k \in Slots, Answer(k), ~ ResetSent(k), ~ CallFails(k)
      PROVE  /\ uid' \in Users \cup {NoUser}
             /\ fbUser' \in Users \cup {NoUser}
             /\ accounts' \in SUBSET Users
             /\ docs' \in [Users -> {"none", "queued", "stored"}]
             /\ session' \in Users \cup {NoUser}
             /\ confirmed' \in SUBSET Users
  <2>1. CASE SignedIn(k) \/ UidStored(k) \/ UidDeleted(k) \/ SignedOut(k)
    BY <1>4, <2>1 DEF TypeOK
  <2>2. CASE AccountMade(k)
    BY <1>5, <2>2 DEF TypeOK
  <2>3. CASE CreateUserAnswers(k)
    BY <1>6, <2>3 DEF TypeOK
  <2>4. CASE Created(k)
    BY <1>7, <2>4 DEF TypeOK
  <2> QED
    BY <1>8, <2>1, <2>2, <2>3, <2>4 DEF Answer
<1> QED
  BY <1>1, <1>2, <1>3, <1>8 DEF Next

\* Every step keeps the types.
LEMMA SessionTypeStep ==
  ASSUME TypeOK, CallerInv, [Next]_vars
  PROVE  TypeOK'
<1>1. stack' \in Seq(Pages)
  BY StackTypeStep
<1>2. calls' \in [Slots -> CallRec]
  BY CallsTypeStep
<1>3. /\ patient' \in BOOLEAN
      /\ net' \in BOOLEAN
      /\ inbox' \in Seq(Message)
      /\ isoffline' \in BOOLEAN
      /\ timer' \in BOOLEAN
      /\ heard' \in BOOLEAN
      /\ kills' \in 0 .. MaxKills
  BY SplashTypeStep
<1>4. /\ uid' \in Users \cup {NoUser}
      /\ fbUser' \in Users \cup {NoUser}
      /\ accounts' \in SUBSET Users
      /\ docs' \in [Users -> {"none", "queued", "stored"}]
      /\ session' \in Users \cup {NoUser}
      /\ confirmed' \in SUBSET Users
  BY StoreTypeStep
<1> QED
  BY <1>1, <1>2, <1>3, <1>4 DEF TypeOK

--------------------------------------------------------------------------
(* Pages, messages and the calls made from a page.                         *)

\* The splash page is visible wherever it is.
LEMMA FirstIsTop ==
  ASSUME TypeOK, NavInv, Base = "splash"
  PROVE  stack # <<>> /\ Len(stack) = 1 /\ Top = "splash"
<1>1. stack # <<>>
  BY NoPages
<1>2. Len(stack) = 1
  BY DEF NavInv
<1> QED
  BY <1>1, <1>2, TopFacts

\* What the visible page says of the first one.
LEMMA TopIsFirst ==
  ASSUME TypeOK, NavInv
  PROVE  /\ Top = "splash" => Base = "splash"
         /\ Top \in Unread => Base = Top
         /\ Top \in {"login", "signup", "reset"} => Base \notin Unread
         /\ Top # "splash" => Base # "splash"
<1>1. CASE stack = <<>>
  BY <1>1 DEF Top, Base, Unread
<1>2. CASE stack # <<>>
  <2>1. /\ Len(stack) \in Nat
        /\ Len(stack) >= 1
        /\ Len(stack) \in 1 .. Len(stack)
        /\ Top = stack[Len(stack)]
        /\ Base = stack[1]
    BY <1>2, TopFacts
  <2>2. CASE Len(stack) = 1
    BY <2>1, <2>2 DEF Unread
  <2>3. CASE Len(stack) > 1
    BY <2>1, <2>3 DEF NavInv, Unread
  <2> QED
    BY <2>1, <2>2, <2>3
<1> QED
  BY <1>1, <1>2

\* The kinds of calls that are made from a form.
Forms == {"login", "createAccount", "reset"}

\* A page takes the place of the visible one.
LEMMA NavReplaced ==
  ASSUME TypeOK, NavInv, NEW p \in {"login", "signup", "main"}, stack # <<>>,
         stack' = Replaced(p), Base \notin Unread \cup {"splash"}, UNCHANGED <<timer, inbox>>
  PROVE  NavInv'
<1>0. p \in Pages
  BY DEF Pages, MainPages, Unread
<1>1. /\ stack' # <<>>
      /\ Len(stack') = Len(stack)
      /\ stack'[Len(stack)] = p
      /\ \A i \in 1 .. Len(stack) : i # Len(stack) => stack'[i] = stack[i]
  BY <1>0, ReplacedFacts
<1>2. 1 \in 1 .. Len(stack) /\ Base = stack[1] /\ Len(stack) \in Nat
  BY TopFacts
<1>3. Base' = stack'[1]
  BY <1>1 DEF Base
<1>4. Base' \in {p, Base}
  BY <1>1, <1>2, <1>3
<1>5. Base' \notin Unread \cup {"splash"} /\ Base' \notin {"reset", "account"}
  BY <1>4 DEF NavInv, Unread
<1>6. \A i \in 1 .. Len(stack') : i > 1 => stack'[i] \notin Unread \cup {"splash"}
  BY <1>1 DEF NavInv, Unread
<1>7. ~ timer' /\ inbox' = <<>>
  BY DEF NavInv
<1> QED
  BY <1>5, <1>6, <1>7 DEF NavInv

\* The visible page goes away.
LEMMA NavPopped ==
  ASSUME TypeOK, NavInv, stack # <<>>, stack' = Popped, Base # "splash",
         UNCHANGED <<timer, inbox>>, Cut
  PROVE  NavInv'
<1>1. /\ Len(stack') = Len(stack) - 1
      /\ stack' = <<>> <=> Len(stack) = 1
      /\ \A i \in 1 .. (Len(stack) - 1) : stack'[i] = stack[i]
      /\ 1 .. (Len(stack) - 1) \subseteq 1 .. Len(stack)
  BY PoppedFacts
<1>2. Len(stack) \in Nat /\ Len(stack) >= 1 /\ Base = stack[1]
  BY TopFacts
<1>3. \A i \in 1 .. Len(stack') : i \in 1 .. Len(stack) /\ stack'[i] = stack[i]
  BY <1>1, <1>2
<1>4. Base' \in {Base, "none"}
  <2>1. CASE Len(stack) = 1
    BY <1>1, <2>1 DEF Base
  <2>2. CASE Len(stack) > 1
    <3>1. stack' # <<>> /\ stack'[1] = stack[1]
      BY <1>1, <1>2, <2>2
    <3> QED
      BY <1>2, <3>1 DEF Base
  <2> QED
    BY <1>2, <2>1, <2>2
<1>5. ~ timer' /\ inbox' = <<>>
  BY DEF NavInv
<1>6. \A i \in 1 .. Len(stack') : i > 1 => stack'[i] \notin Unread \cup {"splash"}
  BY <1>3 DEF NavInv
<1>7. Base' \in Unread => \A i \in 1 .. Len(stack') : i > 1 => stack'[i] = "account"
  BY <1>3, <1>4 DEF NavInv, Unread
<1>8. \A k \in Slots : calls'[k].kind \in Forms => calls[k].kind \in Forms
  BY NoCallFacts DEF Cut, Forms
<1>9. \A k \in Slots : calls'[k].kind \in Forms => Base' \notin Unread
  BY <1>4, <1>8 DEF NavInv, Unread, Forms
<1>10. Base' # "splash" /\ Base' \notin {"reset", "account"}
  BY <1>4 DEF NavInv
<1> QED
  BY <1>5, <1>6, <1>7, <1>9, <1>10 DEF NavInv, Forms

\* A page is opened from another one.
LEMMA NavPushed ==
  ASSUME TypeOK, NavInv, NEW p \in {"reset", "account"}, Top \in MainPages \cup {"login"},
         p = "reset" => Top = "login",
         stack' = Pushed(p), UNCHANGED <<timer, inbox, calls>>
  PROVE  NavInv'
<1>0. p \in Pages /\ stack # <<>> /\ Top # "splash"
  BY NoPages DEF Pages, MainPages, Unread
<1>1. /\ stack' # <<>>
      /\ Len(stack') = Len(stack) + 1
      /\ stack'[Len(stack) + 1] = p
      /\ \A i \in 1 .. Len(stack) : stack'[i] = stack[i]
  BY <1>0, PushedFacts
<1>2. Len(stack) \in Nat /\ 1 \in 1 .. Len(stack) /\ Base = stack[1]
  BY <1>0, TopFacts
<1>3. Base' = Base
  BY <1>1, <1>2 DEF Base
<1>4. \A i \in 1 .. Len(stack') : i \in 1 .. Len(stack) \/ i = Len(stack) + 1
  BY <1>1, <1>2
<1>5. Base # "splash" /\ (p = "reset" => Base \notin Unread)
  BY <1>0, TopIsFirst
<1>6. \A i \in 1 .. Len(stack') : i > 1 => stack'[i] \notin Unread \cup {"splash"}
  BY <1>1, <1>4 DEF NavInv, Unread
<1>7. Base' \in Unread => \A i \in 1 .. Len(stack') : i > 1 => stack'[i] = "account"
  BY <1>1, <1>3, <1>4, <1>5 DEF NavInv
<1> QED
  BY <1>3, <1>5, <1>6, <1>7 DEF NavInv

\* The storage has answered, or has thrown.
LEMMA NavRedrawn ==
  ASSUME TypeOK, NavInv, NEW p \in {"login", "main", "unchecked"}, Base = "check",
         stack' = Redrawn(p), UNCHANGED <<timer, inbox, calls>>
  PROVE  NavInv'
<1>0. p \in Pages /\ stack # <<>>
  BY NoPages DEF Pages, MainPages, Unread
<1>1. /\ stack' # <<>>
      /\ Len(stack') = Len(stack)
      /\ stack'[1] = p
      /\ \A i \in 1 .. Len(stack) : i # 1 => stack'[i] = stack[i]
  BY <1>0, RedrawnFacts
<1>2. Base' = p
  BY <1>1 DEF Base
<1>3. \A i \in 1 .. Len(stack') : i > 1 => stack'[i] = stack[i] /\ i \in 1 .. Len(stack)
  BY <1>1
<1>4. /\ \A i \in 1 .. Len(stack) : i > 1 => stack[i] = "account"
      /\ \A k \in Slots : calls[k].kind \notin {"login", "createAccount", "reset"}
      /\ ~ timer /\ inbox = <<>>
  BY DEF NavInv, Unread
<1>5. \A i \in 1 .. Len(stack') : i > 1 => stack'[i] = "account"
  BY <1>3, <1>4
<1> QED
  BY <1>2, <1>4, <1>5 DEF NavInv, Unread

\* The pages stay, and no new call comes from where none may.
LEMMA NavKept ==
  ASSUME TypeOK, NavInv, UNCHANGED stack,
         timer' \/ inbox' # <<>> => Base = "splash",
         \A k \in Slots :
           \/ calls'[k] = NoCall
           \/ calls[k] # NoCall /\ calls'[k].kind = calls[k].kind
           \/ Base # "splash" /\ (calls'[k].kind \in Forms => Base \notin Unread)
  PROVE  NavInv'
<1>1. Base' = Base
  BY DEF Base
<1>2. ASSUME NEW k \in Slots
      PROVE  /\ calls'[k] # NoCall => Base # "splash"
             /\ calls'[k].kind \in Forms => Base \notin Unread
  BY NoCallFacts DEF NavInv, Forms
<1> QED
  BY <1>1, <1>2 DEF NavInv, Forms

\* One page is left; if it is not LoginScreen, no call is.
LEMMA NavAlone ==
  ASSUME NEW p \in {"login", "splash", "check"}, stack' = <<p>>,
         timer' \/ inbox' # <<>> => p = "splash",
         p # "login" => \A k \in Slots : calls'[k] = NoCall
  PROVE  NavInv'
<1>1. Len(stack') = 1 /\ stack' # <<>> /\ stack'[1] = p
  OBVIOUS
<1>2. Base' = p
  BY <1>1 DEF Base
<1>3. \A i \in 1 .. Len(stack') : ~ (i > 1)
  BY <1>1
<1> QED
  BY <1>1, <1>2, <1>3, NoCallFacts DEF NavInv, Unread

\* A tap makes one call, from the visible page.
LEMMA TapFacts ==
  ASSUME TypeOK,
         \/ \E u \in Users : TapLogin(u) \/ TapSignUp(u)
         \/ TapReset \/ TapSignOut
  PROVE  /\ MayTap
         /\ \E k \in Slots :
              /\ calls[k] = NoCall
              /\ PageOf(calls'[k].kind) = Top
              /\ calls'[k].kind # "none"
              /\ calls'[k].kind \in Forms => Top \in {"login", "signup", "reset"}
              /\ Top # "splash"
              /\ calls'[k].phase \in {"asked", "deleting"}
              /\ calls'[k].page = "mounted"
              /\ calls'[k].kind = "signOut" => session' = NoUser
              /\ \A j \in Slots \ {k} : calls'[j] = calls[j]
         /\ UNCHANGED <<patient, net, inbox, isoffline, timer, stack, uid, fbUser,
                        accounts, docs, confirmed, kills, heard>>
         /\ session' \in {session, NoUser}
<1>0. NoUser \in Users \cup {NoUser} /\ Users \subseteq Users \cup {NoUser}
  OBVIOUS
<1>1. CASE \E u \in Users : TapLogin(u)
  BY <1>1, StartCallFacts, PageOfFacts DEF TapLogin, Forms, splashVars, storeVars, serverVars
<1>2. CASE \E u \in Users : TapSignUp(u)
  BY <1>2, StartCallFacts, PageOfFacts DEF TapSignUp, Forms, splashVars, storeVars, serverVars
<1>3. CASE TapReset
  BY <1>0, <1>3, StartCallFacts, PageOfFacts
  DEF TapReset, Forms, splashVars, storeVars, serverVars
<1>4. CASE TapSignOut
  BY <1>0, <1>4, StartCallFacts, PageOfFacts
  DEF TapSignOut, Forms, splashVars, storeVars, serverVars
<1> QED
  BY <1>1, <1>2, <1>3, <1>4

\* Every step leaves pages, timers and messages in order.
LEMMA NavStep ==
  ASSUME TypeOK, NavInv, [Next]_vars
  PROVE  NavInv'
<1>1. CASE \/ NetChange \/ Listen \/ UNCHANGED vars
           \/ \E u \in Users : DocumentSent(u)
  <2>1. UNCHANGED <<stack, calls>>
    BY <1>1 DEF NetChange, Listen, vars, DocumentSent
  <2>2. timer' \/ inbox' # <<>> => Base = "splash"
    BY <1>1 DEF NavInv, NetChange, Listen, vars, DocumentSent, splashVars
  <2> QED
    BY <2>1, <2>2, NavKept
<1>2. CASE TimerFires
  <2>1. stack \in Seq(Pages) /\ stack # <<>> /\ Len(stack) = 1 /\ Base = "splash"
    BY <1>2, TopIsFirst, FirstIsTop DEF TimerFires, TypeOK
  <2>2. stack' = << "check" >>
    <3>1. stack' \in Seq(Pages) /\ Len(stack') = 1 /\ stack'[1] = "check"
      BY <1>2, <2>1, ReplacedFacts DEF TimerFires, Pages, MainPages, Unread
    <3> QED
      BY <3>1
  <2>3. \A k \in Slots : calls'[k] = NoCall
    BY <1>2, <2>1 DEF TimerFires, NavInv
  <2> QED
    BY <1>2, <2>2, <2>3, NavAlone DEF TimerFires
<1>3. CASE CheckLoginStatus \/ CheckFails
  <2>1. PICK p \in {"login", "main", "unchecked"} : stack' = Redrawn(p)
    BY <1>3 DEF CheckLoginStatus, CheckFails
  <2>2. Base = "check" /\ UNCHANGED <<timer, inbox, calls>>
    BY <1>3 DEF CheckLoginStatus, CheckFails, splashVars
  <2> QED
    BY <2>1, <2>2, NavRedrawn
<1>4. ASSUME NEW from \in {"login", "signup"}, NEW to \in {"login", "signup"},
             SwitchForm(from, to)
      PROVE  NavInv'
  <2>1. Base \notin Unread \cup {"splash"} /\ stack # <<>>
    BY <1>4, TopIsFirst, NoPages DEF SwitchForm
  <2> QED
    BY <1>4, <2>1, NavReplaced DEF SwitchForm, splashVars
<1>5. CASE OpenPage("login", "reset")
  BY <1>5, NavPushed DEF OpenPage, splashVars
<1>6. CASE \E p \in MainPages : OpenPage(p, "account")
  BY <1>6, NavPushed DEF OpenPage, splashVars
<1>7. CASE Back
  <2>1. Cut
    BY <1>7, CutSteps
  <2>2. Len(stack) > 1
    BY <1>7 DEF Back
  <2>3. stack # <<>>
    BY <2>2
  <2>4. Base # "splash"
    <3>1. ASSUME Base = "splash"
          PROVE  Len(stack) = 1
      BY <3>1, FirstIsTop
    <3>2. Len(stack) # 1
      BY <2>2, <2>3, TopFacts
    <3> QED
      BY <3>1, <3>2
  <2> QED
    BY <1>7, <2>1, <2>3, <2>4, NavPopped DEF Back, splashVars
<1>8. CASE \/ \E u \in Users : TapLogin(u) \/ TapSignUp(u)
           \/ TapReset \/ TapSignOut
  <2>1. PICK k \in Slots : /\ PageOf(calls'[k].kind) = Top
                           /\ calls'[k].kind # "none"
                           /\ calls'[k].kind \in Forms => Top \in {"login", "signup", "reset"}
                           /\ Top # "splash"
                           /\ \A j \in Slots \ {k} : calls'[j] = calls[j]
    BY <1>8, TapFacts
  <2>2. UNCHANGED <<stack, timer, inbox>>
    BY <1>8, TapFacts
  <2>3. timer' \/ inbox' # <<>> => Base = "splash"
    BY <2>2 DEF NavInv
  <2>4. Base # "splash" /\ (calls'[k].kind \in Forms => Base \notin Unread)
    BY <2>1, TopIsFirst
  <2> QED
    BY <2>1, <2>2, <2>3, <2>4, NavKept
<1>9. ASSUME NEW k \in Slots,
             SignedIn(k) \/ AccountMade(k) \/ CreateUserAnswers(k) \/ UidDeleted(k)
      PROVE  NavInv'
  <2>1. UNCHANGED <<stack, timer, inbox>>
    BY <1>9 DEF SignedIn, AccountMade, CreateUserAnswers, UidDeleted, splashVars
  <2>2. calls[k] # NoCall
    BY <1>9, NoCallFacts DEF SignedIn, AccountMade, CreateUserAnswers, UidDeleted, InCall
  <2>3. /\ calls'[k] = NoCall \/ calls'[k].kind = calls[k].kind
        /\ \A j \in Slots \ {k} : calls'[j] = calls[j]
    BY <1>9, PhaseFacts, EndedFacts
    DEF SignedIn, AccountMade, CreateUserAnswers, UidDeleted
  <2>4. timer' \/ inbox' # <<>> => Base = "splash"
    BY <2>1 DEF NavInv
  <2> QED
    BY <2>1, <2>2, <2>3, <2>4, NavKept
<1>10. ASSUME NEW k \in Slots, UNCHANGED stack,
              \/ UidStored(k) \/ Created(k) \/ ResetSent(k) \/ SignedOut(k)
              \/ CallFails(k) \/ TransitionEnds(k)
       PROVE  NavInv'
  <2>1. UNCHANGED <<timer, inbox>>
    BY <1>10
    DEF UidStored, Created, ResetSent, SignedOut, CallFails, TransitionEnds, splashVars
  <2>2. Cut
    BY <1>10, CutSteps
  <2>3. timer' \/ inbox' # <<>> => Base = "splash"
    BY <2>1 DEF NavInv
  <2> QED
    BY <1>10, <2>2, <2>3, NavKept DEF Cut
<1>11. ASSUME NEW k \in Slots, HasNavigator(k), UidStored(k) \/ Created(k)
       PROVE  NavInv'
  <2>1. calls[k].kind \in {"login", "createAccount"} /\ calls[k] # NoCall
    BY <1>11, NoCallFacts DEF UidStored, Created, InCall
  <2>2. Base \notin Unread \cup {"splash"} /\ stack # <<>>
    BY <1>11, <2>1 DEF NavInv, HasNavigator
  <2> QED
    BY <1>11, <2>2, NavReplaced DEF UidStored, Created, splashVars
<1>12. ASSUME NEW k \in Slots, HasNavigator(k), ResetSent(k)
       PROVE  NavInv'
  <2>1. calls[k].kind = "reset" /\ calls[k] # NoCall
    BY <1>12, NoCallFacts DEF ResetSent, InCall
  <2>2. Base # "splash" /\ stack # <<>>
    BY <1>12, <2>1 DEF NavInv, HasNavigator
  <2>3. Cut
    BY <1>12, CutSteps
  <2> QED
    BY <1>12, <2>2, <2>3, NavPopped DEF ResetSent, splashVars
<1>13. ASSUME NEW k \in Slots, calls[k].page # "gone", SignedOut(k)
       PROVE  NavInv'
  <2>1. Base # "splash"
    BY <1>13, NoCallFacts DEF NavInv
  <2>2. ~ timer' /\ inbox' = <<>> /\ stack' = << "login" >>
    BY <1>13, <2>1 DEF NavInv, SignedOut, splashVars
  <2> QED
    BY <2>2, NavAlone
<1>14. CASE KillApp
  <2>1. stack' = << "splash" >> /\ \A k \in Slots : calls'[k] = NoCall
    BY <1>14 DEF KillApp
  <2> QED
    BY <2>1, NavAlone
<1>15. ASSUME NEW k \in Slots, UidStored(k) \/ Created(k) \/ ResetSent(k), ~ HasNavigator(k)
       PROVE  UNCHANGED stack
  BY <1>15 DEF UidStored, Created, ResetSent
<1>16. ASSUME NEW k \in Slots, SignedOut(k), calls[k].page = "gone"
       PROVE  UNCHANGED stack
  BY <1>16 DEF SignedOut
<1>17. ASSUME NEW k \in Slots, CallFails(k) \/ TransitionEnds(k)
       PROVE  UNCHANGED stack
  BY <1>17 DEF CallFails, TransitionEnds
<1>18. ASSUME NEW k \in Slots, Answer(k) \/ TransitionEnds(k)
       PROVE  NavInv'
  BY <1>9, <1>10, <1>11, <1>12, <1>13, <1>15, <1>16, <1>17, <1>18 DEF Answer
<1> QED
  BY <1>1, <1>2, <1>3, <1>4, <1>5, <1>6, <1>7, <1>8, <1>14, <1>18 DEF Next

\* Only its timer leaves the splash page, and only a start of the app opens it.
LEMMA FirstPageStep ==
  ASSUME TypeOK, NavInv, TypeOK', NavInv', [Next]_vars, ~ TimerFires, ~ KillApp
  PROVE  Base' = "splash" <=> Base = "splash"
<1>1. ASSUME Base = "splash"
      PROVE  Base' = "splash"
  <2>1. Top = "splash" /\ Len(stack) = 1
    BY <1>1, FirstIsTop
  <2>2. \A k \in Slots : calls[k] = NoCall
    BY <1>1 DEF NavInv
  <2>3. \A k \in Slots : ~ Answer(k) /\ ~ TransitionEnds(k)
    BY <2>2, NoCallFacts
    DEF Answer, SignedIn, UidStored, AccountMade, CreateUserAnswers, Created, ResetSent,
        UidDeleted, SignedOut, CallFails, TransitionEnds, InCall
  <2>4. /\ ~ CheckLoginStatus /\ ~ CheckFails /\ ~ Back
        /\ ~ SwitchForm("login", "signup") /\ ~ SwitchForm("signup", "login")
        /\ ~ OpenPage("login", "reset") /\ ~ (\E p \in MainPages : OpenPage(p, "account"))
    BY <1>1, <2>1
    DEF CheckLoginStatus, CheckFails, Back, SwitchForm, OpenPage, MainPages, Unread
  <2>5. UNCHANGED stack
    BY <2>3, <2>4
    DEF Next, NetChange, Listen, TapLogin, TapSignUp, DocumentSent, TapReset, TapSignOut,
        vars
  <2> QED
    BY <1>1, <2>5 DEF Base
<1>2. ASSUME Base' = "splash"
      PROVE  Base = "splash"
  <2>1. stack' \in Seq(Pages) /\ stack' # <<>> /\ Len(stack') = 1 /\ stack'[1] = "splash"
    BY <1>2 DEF Base, NavInv, TypeOK
  <2>2. CASE UNCHANGED stack
    BY <1>2, <2>2 DEF Base
  <2>3. ASSUME stack # <<>>, NEW p \in {"login", "signup", "main", "unchecked"},
               stack' = Replaced(p) \/ stack' = Redrawn(p)
        PROVE  FALSE
    <3>1. p \in Pages
      BY DEF Pages, MainPages, Unread
    <3>2. CASE stack' = Replaced(p)
      <4>1. Len(stack) = 1 /\ stack'[Len(stack)] = p
        BY <2>1, <2>3, <3>1, <3>2, ReplacedFacts
      <4> QED
        BY <2>1, <4>1
    <3>3. CASE stack' = Redrawn(p)
      BY <2>1, <2>3, <3>1, <3>3, RedrawnFacts
    <3> QED
      BY <2>3, <3>2, <3>3
  <2>4. CASE SwitchForm("login", "signup") \/ SwitchForm("signup", "login")
    <3>1. stack # <<>>
      BY <2>4, NoPages DEF SwitchForm
    <3> QED
      BY <2>3, <2>4, <3>1 DEF SwitchForm
  <2>5. CASE CheckLoginStatus \/ CheckFails
    <3>1. stack # <<>>
      BY <2>5, NoPages DEF CheckLoginStatus, CheckFails
    <3> QED
      BY <2>3, <2>5, <3>1 DEF CheckLoginStatus, CheckFails
  <2>6. CASE OpenPage("login", "reset") \/ \E p \in MainPages : OpenPage(p, "account")
    <3>1. PICK p \in {"reset", "account"} : stack' = Pushed(p)
      BY <2>6 DEF OpenPage
    <3>2. stack # <<>>
      BY <2>6, NoPages DEF OpenPage, MainPages, Unread
    <3>3. Len(stack') = Len(stack) + 1 /\ Len(stack) \in Nat /\ Len(stack) >= 1
      BY <3>1, <3>2, PushedFacts, TopFacts DEF Pages
    <3> QED
      BY <2>1, <3>3
  <2>7. ASSUME stack # <<>>, stack' = Popped
        PROVE  Base = "splash"
    <3>1. Len(stack') = Len(stack) - 1 /\ \A i \in 1 .. (Len(stack) - 1) : stack'[i] = stack[i]
      BY <2>7, PoppedFacts
    <3>2. Len(stack) \in Nat /\ Base = stack[1]
      BY <2>7, TopFacts
    <3>3. stack'[1] = stack[1]
      BY <2>1, <3>1, <3>2
    <3> QED
      BY <2>1, <3>2, <3>3
  <2>8. CASE Back
    <3>1. stack # <<>>
      BY <2>8 DEF Back
    <3> QED
      BY <2>7, <2>8, <3>1 DEF Back
  <2>9. ASSUME NEW k \in Slots, UidStored(k) \/ Created(k)
        PROVE  Base = "splash"
    BY <2>2, <2>3, <2>9 DEF UidStored, Created, HasNavigator
  <2>10. ASSUME NEW k \in Slots, ResetSent(k)
         PROVE  Base = "splash"
    BY <2>2, <2>7, <2>10 DEF ResetSent, HasNavigator
  <2>11. ASSUME NEW k \in Slots, SignedOut(k)
         PROVE  Base = "splash"
    <3>1. stack' # << "login" >>
      BY <2>1
    <3> QED
      BY <2>2, <2>11, <3>1 DEF SignedOut
  <2>12. ASSUME NEW k \in Slots, Answer(k) \/ TransitionEnds(k)
         PROVE  Base = "splash"
    <3>1. CASE SignedIn(k) \/ AccountMade(k) \/ CreateUserAnswers(k) \/ UidDeleted(k)
               \/ CallFails(k) \/ TransitionEnds(k)
      BY <2>2, <3>1
      DEF SignedIn, AccountMade, CreateUserAnswers, UidDeleted, CallFails, TransitionEnds
    <3> QED
      BY <2>9, <2>10, <2>11, <2>12, <3>1 DEF Answer
  <2>13. CASE \/ NetChange \/ Listen \/ UNCHANGED vars
              \/ \E u \in Users : TapLogin(u) \/ TapSignUp(u) \/ DocumentSent(u)
              \/ TapReset \/ TapSignOut
    BY <2>2, <2>13
    DEF NetChange, Listen, TapLogin, TapSignUp, DocumentSent, TapReset, TapSignOut, vars
  <2> QED
    BY <2>4, <2>5, <2>6, <2>8, <2>12, <2>13 DEF Next
<1> QED
  BY <1>1, <1>2

\* Every step leaves the splash page a cause to spin.
LEMMA MessageStep ==
  ASSUME TypeOK, NavInv, MessageInv, [Next]_vars, TypeOK', NavInv'
  PROVE  MessageInv'
<1>0. /\ \A i \in 1 .. Len(inbox) : inbox[i].of = "con" => i = 1
      /\ (inbox # <<>> /\ inbox[1].of = "con" /\ inbox[1].net) => Len(inbox) > 1
      /\ \A i \in 1 .. Len(inbox) : inbox[i].net => heard
      /\ timer \/ Base # "splash" => heard
  BY DEF MessageInv
<1>1. Top' = "splash" => Base' = "splash"
  <2>1. CASE stack' = <<>>
    BY <2>1 DEF Top
  <2>2. CASE stack' # <<>>
    <3>1. stack' \in Seq(Pages)
      BY DEF TypeOK
    <3>2. /\ Len(stack') \in Nat
          /\ Len(stack') # 0
          /\ Top' = stack'[Len(stack')]
          /\ Base' = stack'[1]
      BY <2>2, <3>1, EmptySeq DEF Top, Base
    <3>3. \A i \in 1 .. Len(stack') : i > 1 => stack'[i] # "splash"
      BY DEF NavInv
    <3>4. \A n \in Nat : n # 0 => n = 1 \/ (n \in 1 .. n /\ n > 1)
      OBVIOUS
    <3>5. Len(stack') = 1 \/ (Len(stack') \in 1 .. Len(stack') /\ Len(stack') > 1)
      BY <3>2, <3>4, Zenon
    <3> QED
      BY <3>2, <3>3, <3>5
  <2> QED
    BY <2>1, <2>2
<1>2. Base = "splash" => Top = "splash"
  BY FirstIsTop
<1>3. CASE TimerFires
  <2>1. timer /\ inbox' = <<>> /\ ~ timer' /\ UNCHANGED heard
    BY <1>3 DEF TimerFires
  <2>2. heard'
    BY <1>0, <2>1
  <2>3. Base' # "splash"
    <3>1. stack # <<>> /\ Len(stack) = 1 /\ "check" \in Pages
      BY <1>3, TopIsFirst, FirstIsTop DEF TimerFires, Pages, MainPages, Unread
    <3>2. stack' # <<>> /\ stack'[1] = "check"
      BY <1>3, <3>1, ReplacedFacts DEF TimerFires
    <3> QED
      BY <3>2 DEF Base
  <2>4. 1 .. Len(inbox') = {}
    BY <2>1
  <2> QED
    BY <1>1, <2>1, <2>2, <2>3, <2>4 DEF MessageInv, SplashSpinnerHasCause
<1>4. CASE KillApp
  <2>1. /\ inbox' = FirstMessages(net)
        /\ inbox' # <<>>
        /\ ~ timer'
        /\ Base' = "splash"
        /\ heard' = net
        /\ net \in BOOLEAN
    BY <1>4, FirstFacts DEF KillApp, TypeOK, Base
  <2>2. /\ \A i \in 1 .. Len(inbox') : /\ inbox'[i].of = "con" => i = 1
                                       /\ inbox'[i].net <=> net
        /\ net => Len(inbox') > 1
    BY <2>1, FirstFacts
  <2>3. inbox'[1].net => Len(inbox') > 1
    <3>1. inbox' \in Seq(Message)
      BY DEF TypeOK
    <3>2. 1 \in 1 .. Len(inbox')
      BY <2>1, <3>1, EmptySeq
    <3> QED
      BY <2>2, <3>2
  <2> QED
    BY <2>1, <2>2, <2>3 DEF MessageInv, SplashSpinnerHasCause
<1>5. CASE NetChange
  <2>0. Base' = Base /\ UNCHANGED <<timer, isoffline>> /\ heard' = (heard \/ ~ net)
    BY <1>5 DEF NetChange, Base
  <2>1. CASE Base # "splash"
    <3>1. inbox' = inbox /\ inbox = <<>>
      BY <1>5, <2>1 DEF NetChange, NavInv
    <3>2. 1 .. Len(inbox') = {}
      BY <3>1
    <3> QED
      BY <1>0, <1>1, <2>0, <2>1, <3>1, <3>2 DEF MessageInv, SplashSpinnerHasCause
  <2>2. CASE Base = "splash"
    <3>1. PICK m \in Message : m.of = "change" /\ (m.net <=> ~ net)
                               /\ inbox' = Append(inbox, m)
      BY <1>5, <2>2 DEF NetChange, Message, TypeOK
    <3>2. /\ inbox' # <<>>
          /\ Len(inbox) \in Nat
          /\ Len(inbox') = Len(inbox) + 1
          /\ inbox'[Len(inbox) + 1] = m
          /\ \A i \in 1 .. Len(inbox) : inbox'[i] = inbox[i]
      BY <3>1, MessageJoins
    <3>3. \A i \in 1 .. Len(inbox') : i \in 1 .. Len(inbox) \/ i = Len(inbox) + 1
      BY <3>2
    <3>4. \A i \in 1 .. Len(inbox') : /\ inbox'[i].of = "con" => i = 1
                                      /\ inbox'[i].net => heard'
      BY <1>0, <2>0, <3>1, <3>2, <3>3
    <3>5. inbox'[1].of = "con" => Len(inbox') > 1
      BY <3>1, <3>2
    <3> QED
      BY <1>0, <2>0, <2>2, <3>2, <3>4, <3>5 DEF MessageInv, SplashSpinnerHasCause
  <2> QED
    BY <2>1, <2>2
<1>6. CASE Listen
  <2>0. Base' = Base /\ UNCHANGED heard /\ inbox # <<>> /\ inbox' = Tail(inbox)
    BY <1>6 DEF Listen, Base
  <2>1. /\ Head(inbox) = inbox[1]
        /\ inbox[1].of \in {"con", "change"}
        /\ Len(inbox) \in Nat
        /\ 1 \in 1 .. Len(inbox)
        /\ Len(inbox') = Len(inbox) - 1
        /\ \A i \in 1 .. Len(inbox') : /\ i + 1 \in 1 .. Len(inbox)
                                       /\ i + 1 # 1
                                       /\ inbox'[i] = inbox[i + 1]
    BY <2>0, TailFacts DEF Message
  <2>2. \A i \in 1 .. Len(inbox') : /\ inbox'[i].of # "con"
                                    /\ inbox'[i].net => heard
    BY <1>0, <2>1
  <2>3. inbox' # <<>> => inbox'[1].of # "con"
    <3>1. inbox' \in Seq(Message)
      BY DEF TypeOK
    <3>2. inbox' # <<>> => 1 \in 1 .. Len(inbox')
      BY <3>1, EmptySeq
    <3> QED
      BY <2>2, <3>2
  <2>4. timer' => heard
    BY <1>0, <1>6, <2>1 DEF Listen
  <2>5. timer' \/ isoffline' \/ inbox' # <<>>
    <3>1. CASE inbox[1].of = "change"
      BY <1>6, <2>1, <3>1 DEF Listen
    <3>2. CASE inbox[1].of = "con" /\ ~ inbox[1].net
      BY <1>6, <2>1, <3>2 DEF Listen
    <3>3. CASE inbox[1].of = "con" /\ inbox[1].net
      <4>1. Len(inbox) > 1
        BY <1>0, <2>0, <3>3
      <4>2. Len(inbox') # 0
        BY <2>1, <4>1
      <4> QED
        BY <4>2
    <3> QED
      BY <2>1, <3>1, <3>2, <3>3
  <2> QED
    BY <1>0, <2>0, <2>2, <2>3, <2>4, <2>5 DEF MessageInv, SplashSpinnerHasCause
<1>7. CASE UNCHANGED <<inbox, isoffline, timer, heard>> /\ ~ TimerFires /\ ~ KillApp
  <2>1. Base' = "splash" <=> Base = "splash"
    BY <1>7, FirstPageStep
  <2> QED
    BY <1>0, <1>1, <1>2, <1>7, <2>1 DEF MessageInv, SplashSpinnerHasCause
<1>8. CASE \/ \E u \in Users : TapLogin(u) \/ TapSignUp(u)
           \/ TapReset \/ TapSignOut
  BY <1>3, <1>4, <1>7, <1>8, TapFacts
<1>9. CASE \/ CheckLoginStatus \/ CheckFails \/ UNCHANGED vars \/ Back
           \/ SwitchForm("login", "signup") \/ SwitchForm("signup", "login")
           \/ OpenPage("login", "reset") \/ (\E p \in MainPages : OpenPage(p, "account"))
           \/ \E u \in Users : DocumentSent(u)
  BY <1>3, <1>4, <1>7, <1>9
  DEF CheckLoginStatus, CheckFails, vars, Back, SwitchForm, OpenPage, DocumentSent,
      splashVars
<1>10. ASSUME NEW k \in Slots, Answer(k) \/ TransitionEnds(k)
       PROVE  UNCHANGED <<inbox, isoffline, timer, heard>>
  BY <1>10
  DEF Answer, SignedIn, UidStored, AccountMade, CreateUserAnswers, Created, ResetSent,
      UidDeleted, SignedOut, CallFails, TransitionEnds, splashVars
<1> QED
  BY <1>3, <1>4, <1>5, <1>6, <1>7, <1>8, <1>9, <1>10 DEF Next

--------------------------------------------------------------------------
(* Accounts and documents.                                                 *)

\* Calls that neither begin nor go on leave accounts and documents in order.
LEMMA DataKept ==
  ASSUME DataInv, UNCHANGED <<accounts, docs>>,
         \A k \in Slots : HasMade(k)' => /\ HasMade(k)
                                         /\ calls'[k].user = calls[k].user
                                         /\ calls'[k].phase = calls[k].phase,
         ConfirmedHasData'
  PROVE  DataInv'
<1>1. \A u \in Users : docs[u] # "none" => u \in accounts
  BY DEF DataInv
<1>2. \A k \in Slots : HasMade(k) =>
        /\ calls[k].user \in accounts
        /\ calls[k].phase = "granted" => docs[calls[k].user] = "none"
        /\ \A j \in Slots : HasMade(j) /\ calls[j].user = calls[k].user => j = k
  BY DEF DataInv
<1>3. \A k \in Slots : HasMade(k)' =>
        /\ calls'[k].user \in accounts'
        /\ calls'[k].phase = "granted" => docs'[calls'[k].user] = "none"
        /\ \A j \in Slots : HasMade(j)' /\ calls'[j].user = calls'[k].user => j = k
  BY <1>2
<1> QED
  BY <1>1, <1>3 DEF DataInv

LEMMA DataCut ==
  ASSUME DataInv, UNCHANGED <<accounts, docs>>, Cut, ConfirmedHasData'
  PROVE  DataInv'
<1>1. \A k \in Slots : HasMade(k)' => /\ HasMade(k)
                                      /\ calls'[k].user = calls[k].user
                                      /\ calls'[k].phase = calls[k].phase
  BY NoCallFacts DEF Cut, HasMade
<1> QED
  BY <1>1, DataKept

\* Every step leaves accounts and documents in order.
LEMMA DataStep ==
  ASSUME TypeOK, CallerInv, DataInv, [Next]_vars
  PROVE  DataInv'
<1>0. /\ \A u \in Users : docs[u] # "none" => u \in accounts
      /\ \A k \in Slots : HasMade(k) =>
           /\ calls[k].user \in accounts
           /\ calls[k].phase = "granted" => docs[calls[k].user] = "none"
           /\ \A j \in Slots : HasMade(j) /\ calls[j].user = calls[k].user => j = k
      /\ \A u \in confirmed : u \in accounts /\ docs[u] = "stored"
      /\ docs \in [Users -> {"none", "queued", "stored"}]
      /\ accounts \subseteq Users
  BY DEF DataInv, ConfirmedHasData, TypeOK
<1>2. CASE \/ NetChange \/ Listen \/ TimerFires \/ CheckLoginStatus \/ CheckFails
           \/ SwitchForm("login", "signup") \/ SwitchForm("signup", "login")
           \/ OpenPage("login", "reset") \/ (\E p \in MainPages : OpenPage(p, "account")) \/ Back
           \/ \E k \in Slots : UidStored(k) \/ ResetSent(k) \/ SignedOut(k) \/ CallFails(k)
                               \/ TransitionEnds(k)
           \/ KillApp
           \/ UNCHANGED vars
  <2>1. UNCHANGED <<accounts, docs, confirmed>>
    BY <1>2
    DEF NetChange, Listen, TimerFires, CheckLoginStatus, CheckFails, SwitchForm, OpenPage,
        Back, UidStored, ResetSent, SignedOut, CallFails, TransitionEnds, KillApp, vars,
        serverVars
  <2>2. ConfirmedHasData'
    BY <1>0, <2>1 DEF ConfirmedHasData
  <2>3. Cut
    BY <1>2, CutSteps
  <2> QED
    BY <2>1, <2>2, <2>3, DataCut
<1>3. CASE \/ \E u \in Users : TapLogin(u) \/ TapSignUp(u)
           \/ TapReset \/ TapSignOut
  <2>1. UNCHANGED <<accounts, docs, confirmed>>
    BY <1>3, TapFacts
  <2>2. ConfirmedHasData'
    BY <1>0, <2>1 DEF ConfirmedHasData
  <2>3. PICK k \in Slots : /\ calls'[k].phase \in {"asked", "deleting"}
                           /\ \A j \in Slots \ {k} : calls'[j] = calls[j]
    BY <1>3, TapFacts
  <2>4. \A j \in Slots : HasMade(j)' => /\ HasMade(j)
                                        /\ calls'[j].user = calls[j].user
                                        /\ calls'[j].phase = calls[j].phase
    BY <2>3 DEF HasMade
  <2> QED
    BY <2>1, <2>2, <2>4, DataKept
<1>4. ASSUME NEW k \in Slots, SignedIn(k) \/ UidDeleted(k)
      PROVE  DataInv'
  <2>1. UNCHANGED <<accounts, docs, confirmed>>
    BY <1>4 DEF SignedIn, UidDeleted, serverVars
  <2>2. ConfirmedHasData'
    BY <1>0, <2>1 DEF ConfirmedHasData
  <2>3. /\ calls'[k].kind # "createAccount"
        /\ \A j \in Slots \ {k} : calls'[j] = calls[j]
    BY <1>4, PhaseFacts DEF SignedIn, UidDeleted, InCall
  <2>4. \A j \in Slots : HasMade(j)' => /\ HasMade(j)
                                        /\ calls'[j].user = calls[j].user
                                        /\ calls'[j].phase = calls[j].phase
    BY <2>3 DEF HasMade
  <2> QED
    BY <2>1, <2>2, <2>4, DataKept
<1>5. ASSUME NEW k \in Slots, AccountMade(k)
      PROVE  DataInv'
  <2>1. /\ calls[k].kind = "createAccount"
        /\ calls[k].phase = "asked"
        /\ calls[k].user \in Users
        /\ calls[k].user \notin accounts
        /\ accounts' = accounts \cup {calls[k].user}
        /\ UNCHANGED <<docs, confirmed>>
    BY <1>5 DEF AccountMade, InCall, CallerInv
  <2>2. /\ calls'[k].kind = "createAccount"
        /\ calls'[k].phase = "granted"
        /\ calls'[k].user = calls[k].user
        /\ \A j \in Slots \ {k} : calls'[j] = calls[j]
    BY <1>5, <2>1, PhaseFacts DEF AccountMade
  <2>3. docs[calls[k].user] = "none"
    BY <1>0, <2>1
  <2>4. HasMade(k)' /\ \A j \in Slots \ {k} : HasMade(j)' => HasMade(j)
    BY <2>2 DEF HasMade
  <2>5. \A j \in Slots \ {k} : HasMade(j) => calls[j].user # calls[k].user
    BY <1>0, <2>1
  <2>6. ASSUME NEW j \in Slots, HasMade(j)'
        PROVE  /\ calls'[j].user \in accounts'
               /\ calls'[j].phase = "granted" => docs'[calls'[j].user] = "none"
               /\ \A i \in Slots : HasMade(i)' /\ calls'[i].user = calls'[j].user => i = j
    BY <1>0, <2>1, <2>2, <2>3, <2>4, <2>5, <2>6
  <2>7. ConfirmedHasData'
    BY <1>0, <2>1 DEF ConfirmedHasData
  <2>8. \A u \in Users : docs'[u] # "none" => u \in accounts'
    BY <1>0, <2>1
  <2> QED
    BY <2>6, <2>7, <2>8 DEF DataInv
<1>6. ASSUME NEW k \in Slots, CreateUserAnswers(k)
      PROVE  DataInv'
  <2>1. /\ HasMade(k)
        /\ calls[k].phase = "granted"
        /\ UNCHANGED <<accounts, confirmed>>
    BY <1>6 DEF CreateUserAnswers, InCall, HasMade
  <2>2. CASE UNCHANGED docs /\ calls' = Ended(k)
    <3>1. Cut
      BY <2>2, CutByEnd
    <3>2. ConfirmedHasData'
      BY <1>0, <2>1, <2>2 DEF ConfirmedHasData
    <3> QED
      BY <2>1, <2>2, <3>1, <3>2, DataCut
  <2>3. CASE /\ docs' = [docs EXCEPT ![calls[k].user] = "queued"]
             /\ calls' = [calls EXCEPT ![k].phase = "storing"]
    <3>1. calls[k].user \in accounts /\ calls[k].user \in Users
          /\ docs[calls[k].user] = "none"
      BY <1>0, <2>1
    <3>2. /\ docs'[calls[k].user] = "queued"
          /\ \A u \in Users : u # calls[k].user => docs'[u] = docs[u]
      BY <1>0, <2>3, <3>1
    <3>3. /\ calls'[k].kind = calls[k].kind
          /\ calls'[k].phase = "storing"
          /\ calls'[k].user = calls[k].user
          /\ \A j \in Slots \ {k} : calls'[j] = calls[j]
      BY <2>3, PhaseFacts
    <3>4. \A j \in Slots : HasMade(j)' => HasMade(j) /\ calls'[j].user = calls[j].user
      BY <2>1, <3>3 DEF HasMade
    <3>6. ASSUME NEW j \in Slots, HasMade(j)'
          PROVE  /\ calls'[j].user \in accounts'
                 /\ calls'[j].phase = "granted" => docs'[calls'[j].user] = "none"
                 /\ \A i \in Slots : HasMade(i)' /\ calls'[i].user = calls'[j].user => i = j
      <4>1. HasMade(j) /\ calls'[j].user = calls[j].user
        BY <3>4, <3>6
      <4>2. CASE j = k
        BY <1>0, <2>1, <3>1, <3>3, <3>4, <4>1, <4>2
      <4>3. CASE j # k
        <5>1. calls[j].user # calls[k].user /\ calls[j].user \in Users
          BY <1>0, <2>1, <4>1, <4>3
        <5>2. docs'[calls'[j].user] = docs[calls[j].user]
          BY <3>2, <4>1, <5>1
        <5> QED
          BY <1>0, <2>1, <3>3, <3>4, <4>1, <4>3, <5>2
      <4> QED
        BY <4>2, <4>3
    <3>7. ConfirmedHasData'
      BY <1>0, <2>1, <3>1, <3>2 DEF ConfirmedHasData
    <3>8. \A u \in Users : docs'[u] # "none" => u \in accounts'
      BY <1>0, <2>1, <3>1, <3>2
    <3> QED
      BY <3>6, <3>7, <3>8 DEF DataInv
  <2> QED
    BY <1>6, <2>2, <2>3 DEF CreateUserAnswers
<1>7. ASSUME NEW v \in Users, DocumentSent(v)
      PROVE  DataInv'
  <2>1. /\ docs[v] = "queued"
        /\ docs'[v] = "stored"
        /\ \A u \in Users : u # v => docs'[u] = docs[u]
        /\ UNCHANGED <<accounts, calls, confirmed>>
    BY <1>0, <1>7 DEF DocumentSent
  <2>2. \A u \in Users : docs'[u] # "none" => u \in accounts'
    BY <1>0, <2>1
  <2>3. ConfirmedHasData'
    BY <1>0, <2>1 DEF ConfirmedHasData
  <2>4. \A k \in Slots : HasMade(k)' <=> HasMade(k)
    BY <2>1 DEF HasMade
  <2>5. \A k \in Slots : HasMade(k)' =>
          /\ calls'[k].user \in accounts'
          /\ calls'[k].phase = "granted" => docs'[calls'[k].user] = "none"
          /\ \A j \in Slots : HasMade(j)' /\ calls'[j].user = calls'[k].user => j = k
    BY <1>0, <2>1, <2>4
  <2> QED
    BY <2>2, <2>3, <2>5 DEF DataInv
<1>8. ASSUME NEW k \in Slots, Created(k)
      PROVE  DataInv'
  <2>1. /\ HasMade(k)
        /\ docs[calls[k].user] = "stored"
        /\ confirmed' \subseteq confirmed \cup {calls[k].user}
        /\ UNCHANGED <<accounts, docs>>
    BY <1>8 DEF Created, InCall, HasMade, serverVars
  <2>2. ConfirmedHasData'
    BY <1>0, <2>1 DEF ConfirmedHasData
  <2>3. Cut
    BY <1>8, CutSteps
  <2> QED
    BY <2>1, <2>2, <2>3, DataCut
<1> QED
  BY <1>2, <1>3, <1>4, <1>5, <1>6, <1>7, <1>8 DEF Next, Answer

--------------------------------------------------------------------------
(* A user who waits: the two memories of the session.                      *)

\* The call that is answered last, or fails, is gone.
LEMMA EndsCall ==
  ASSUME TypeOK, NEW k \in Slots,
         UidStored(k) \/ Created(k) \/ ResetSent(k) \/ SignedOut(k) \/ CallFails(k)
  PROVE  calls'[k] = NoCall
<1>1. Ended(k) \in [Slots -> CallRec] /\ Ended(k)[k] = NoCall
  BY EndedFacts
<1>2. Without(Ended(k), Top)[k] = NoCall
  BY <1>1, WithoutFacts
<1>3. ASSUME calls' = [j \in Slots |-> Left(Ended(k)[j])]
      PROVE  calls'[k] = NoCall
  BY <1>1, <1>3, NoCallLeft
<1> QED
  BY <1>1, <1>2, <1>3 DEF UidStored, Created, ResetSent, SignedOut, CallFails

\* When the only call ends, none is left.
LEMMA LastEnds ==
  ASSUME CallInv, Cut, NEW k \in Slots, calls[k] # NoCall, calls'[k] = NoCall
  PROVE  \A j \in Slots : calls'[j] = NoCall
BY DEF CallInv, Cut

\* Only the reset and the account page lie on another one.
LEMMA AloneUnlessOpened ==
  ASSUME TypeOK, PagesAgree, Top \notin {"reset", "account"}
  PROVE  Len(stack) = 1 /\ 1 \in 1 .. Len(stack) /\ stack[1] = Top /\ Base = Top
<1>0. stack # <<>>
  BY DEF PagesAgree
<1>1. ~ (Len(stack) > 1)
  BY <1>0, TopFacts DEF PagesAgree
<1>2. Len(stack) \in Nat /\ Len(stack) >= 1
  BY <1>0, TopFacts
<1>3. \A n \in Nat : n >= 1 => n > 1 \/ n = 1
  OBVIOUS
<1>4. Len(stack) = 1
  BY <1>1, <1>2, <1>3, Zenon
<1> QED
  BY <1>0, <1>4, TopFacts

\* The page that waits for the storage is visible to a user who waits.
LEMMA CheckIsTop ==
  ASSUME TypeOK, PagesAgree, Base = "check"
  PROVE  Top = "check"
<1>1. stack # <<>> /\ Len(stack) = 1
  BY DEF PagesAgree
<1> QED
  BY <1>1, TopFacts

\* The splash page and the page that waits for the storage have no call.
LEMMA NoCallYet ==
  ASSUME TypeOK, CallInv, Top \in {"splash", "check"}
  PROVE  Idle
<1>1. \A k \in Slots : PageOf(calls[k].kind) # Top
  BY PageOfFacts DEF TypeOK
<1> QED
  BY <1>1 DEF CallInv, Idle

\* Without calls only pages and memories matter.
LEMMA CallInvIdle ==
  ASSUME \A j \in Slots : calls'[j] = NoCall
  PROVE  CallInv'
BY DEF CallInv

\* One page is left.
LEMMA PagesAlone ==
  ASSUME NEW p \in Pages \ {"reset", "account"}, stack' # <<>>, Len(stack') = 1,
         stack'[1] = p,
         p \in {"login", "signup"} => uid' = NoUser /\ session' = NoUser,
         p = "main" => fbUser' # NoUser
  PROVE  PagesAgree'
<1>1. \A i \in 1 .. Len(stack') : i = 1 /\ ~ (i > 1)
  OBVIOUS
<1> QED
  BY <1>1 DEF PagesAgree

\* The one page is replaced by another.
LEMMA PagesReplaced ==
  ASSUME TypeOK, PagesAgree, Top \notin {"reset", "account"},
         NEW p \in Pages \ {"reset", "account"},
         stack' = Replaced(p) \/ stack' = Redrawn(p),
         p \in {"login", "signup"} => uid' = NoUser /\ session' = NoUser,
         p = "main" => fbUser' # NoUser
  PROVE  PagesAgree'
<1>1. Len(stack) = 1 /\ stack # <<>>
  BY AloneUnlessOpened DEF PagesAgree
<1>2. stack' # <<>> /\ Len(stack') = 1 /\ stack'[1] = p
  BY <1>1, ReplacedFacts, RedrawnFacts
<1> QED
  BY <1>2, PagesAlone

\* The visible page goes away and leaves the one below.
LEMMA PagesPopped ==
  ASSUME TypeOK, PagesAgree, Len(stack) > 1, stack' = Popped,
         UNCHANGED <<uid, fbUser, session>>
  PROVE  PagesAgree'
<1>1. stack # <<>>
  BY DEF PagesAgree
<1>2. /\ Len(stack') = Len(stack) - 1
      /\ stack' # <<>>
      /\ \A i \in 1 .. (Len(stack) - 1) : stack'[i] = stack[i]
      /\ 1 .. (Len(stack) - 1) \subseteq 1 .. Len(stack)
  BY <1>1, PoppedFacts
<1>3. Len(stack) \in Nat /\ Base = stack[1]
  BY <1>1, TopFacts
<1>4. Base' = Base
  BY <1>2, <1>3 DEF Base
<1>5. Base # "check"
  BY DEF PagesAgree
<1>6. \A i \in 1 .. Len(stack') : i \in 1 .. Len(stack) /\ stack'[i] = stack[i]
  BY <1>2
<1> QED
  BY <1>2, <1>4, <1>5, <1>6 DEF PagesAgree

\* Who waits on a page keeps pages and memories in step.
LEMMA PatientPages ==
  ASSUME TypeOK, NavInv, CallInv, PagesAgree, MemoryInv, patient,
         \/ TimerFires \/ CheckLoginStatus \/ CheckFails
         \/ SwitchForm("login", "signup") \/ SwitchForm("signup", "login")
         \/ OpenPage("login", "reset") \/ (\E p \in MainPages : OpenPage(p, "account")) \/ Back
  PROVE  CallInv' /\ PagesAgree' /\ MemoryInv'
<1>0. /\ "check" \in Pages \ {"reset", "account"}
      /\ "login" \in Pages \ {"reset", "account"}
      /\ "signup" \in Pages \ {"reset", "account"}
      /\ "main" \in Pages \ {"reset", "account"}
      /\ "reset" \in Pages /\ "account" \in Pages
      /\ "unchecked" \in Pages \ {"reset", "account"}
  BY DEF Pages, MainPages, Unread
<1>1. Idle
  BY NoCallYet, CheckIsTop
  DEF TimerFires, CheckLoginStatus, CheckFails, SwitchForm, OpenPage, Back, MayTap
<1>2. \A j \in Slots : calls'[j] = NoCall
  <2>1. Cut
    BY CutSteps
  <2> QED
    BY <1>1, <2>1 DEF Cut, Idle
<1>3. CallInv'
  BY <1>2, CallInvIdle
<1>4. UNCHANGED <<uid, fbUser>>
  BY DEF TimerFires, CheckLoginStatus, CheckFails, SwitchForm, OpenPage, Back, storeVars
<1>5. CASE TimerFires
  <2>1. UNCHANGED session /\ Top = "splash" /\ stack' = Replaced("check")
    BY <1>5 DEF TimerFires
  <2>2. PagesAgree'
    BY <1>0, <2>1, PagesReplaced
  <2> QED
    BY <1>3, <1>4, <2>1, <2>2 DEF MemoryInv
<1>6. CASE CheckLoginStatus
  <2>1. /\ session' = uid
        /\ Top = "check"
        /\ stack' = Redrawn(IF uid = NoUser THEN "login" ELSE "main")
    BY <1>6, CheckIsTop DEF CheckLoginStatus
  <2>2. MemoryInv'
    BY <1>4, <2>1 DEF MemoryInv
  <2>3. CASE uid = NoUser
    BY <1>0, <1>3, <1>4, <2>1, <2>2, <2>3, PagesReplaced
  <2>4. CASE uid # NoUser
    <3>1. fbUser' # NoUser
      BY <1>4, <2>4 DEF MemoryInv
    <3> QED
      BY <1>0, <1>3, <2>1, <2>2, <2>4, <3>1, PagesReplaced
  <2> QED
    BY <2>3, <2>4
<1>7. ASSUME NEW from \in {"login", "signup"}, NEW to \in {"login", "signup"},
             SwitchForm(from, to)
      PROVE  CallInv' /\ PagesAgree' /\ MemoryInv'
  <2>1. UNCHANGED session /\ Top = from /\ stack' = Replaced(to)
    BY <1>7 DEF SwitchForm
  <2>2. uid = NoUser /\ session = NoUser
    BY <2>1, TopFacts DEF PagesAgree
  <2>3. PagesAgree'
    BY <1>0, <1>4, <2>1, <2>2, PagesReplaced
  <2> QED
    BY <1>3, <1>4, <2>1, <2>3 DEF MemoryInv
<1>8. CASE OpenPage("login", "reset") \/ (\E p \in MainPages : OpenPage(p, "account"))
  <2>1. /\ UNCHANGED session
        /\ \/ Top = "login" /\ stack' = Pushed("reset")
           \/ Top \in MainPages /\ stack' = Pushed("account")
        /\ Base # "check"
    BY <1>8 DEF OpenPage, MayTap
  <2>2. Len(stack) = 1 /\ 1 \in 1 .. Len(stack) /\ stack[1] = Top /\ Base = Top
    BY <2>1, AloneUnlessOpened DEF MainPages, Unread
  <2>3. PICK q \in {"reset", "account"} : /\ stack' = Pushed(q)
                                          /\ q = "reset" => Top = "login"
                                          /\ q = "account" => Top \in MainPages
    BY <2>1
  <2>4. /\ Len(stack') = 2
        /\ stack' # <<>>
        /\ stack'[1] = Top
        /\ stack'[2] = q
    BY <1>0, <2>2, <2>3, PushedFacts
  <2>5. \A i \in 1 .. Len(stack') : i = 1 \/ i = 2
    BY <2>4
  <2>6. /\ Top = "login" => uid = NoUser /\ session = NoUser
        /\ Top = "main" => fbUser # NoUser
        /\ Top \notin {"reset", "account"}
    BY <2>1, <2>2 DEF PagesAgree, MainPages, Unread
  <2>7. Base' # "check"
    BY <2>1, <2>2, <2>4 DEF Base
  <2>8. ASSUME NEW i \in 1 .. Len(stack')
        PROVE  /\ stack'[i] \in {"reset", "account"} <=> i > 1
               /\ stack'[i] \in {"login", "signup", "reset"}
                    => uid' = NoUser /\ session' = NoUser
               /\ stack'[i] = "main" => fbUser' # NoUser
    <3>1. CASE i = 1
      <4>1. stack'[i] = Top /\ Top \in MainPages \cup {"login"}
        BY <2>3, <2>4, <3>1
      <4> QED
        BY <1>4, <2>1, <2>6, <3>1, <4>1 DEF MainPages, Unread
    <3>2. CASE i = 2
      BY <1>4, <2>1, <2>3, <2>4, <2>6, <3>2
    <3> QED
      BY <2>5, <3>1, <3>2
  <2>9. PagesAgree'
    BY <2>4, <2>7, <2>8 DEF PagesAgree
  <2> QED
    BY <1>3, <1>4, <2>1, <2>9 DEF MemoryInv
<1>9. CASE Back
  <2>1. UNCHANGED session /\ Len(stack) > 1 /\ stack' = Popped
    BY <1>9 DEF Back
  <2>2. PagesAgree'
    BY <1>4, <2>1, PagesPopped
  <2> QED
    BY <1>3, <1>4, <2>1, <2>2 DEF MemoryInv
<1>10. CASE CheckFails
  <2>1. UNCHANGED session /\ Top = "check" /\ stack' = Redrawn("unchecked")
    BY <1>10, CheckIsTop DEF CheckFails
  <2>2. PagesAgree'
    BY <1>0, <2>1, PagesReplaced
  <2> QED
    BY <1>3, <1>4, <2>1, <2>2 DEF MemoryInv
<1> QED
  BY <1>5, <1>6, <1>7, <1>8, <1>9, <1>10

\* A tap of a user who waits makes the only call.
LEMMA PatientTaps ==
  ASSUME TypeOK, CallInv, PagesAgree, MemoryInv, patient,
         \/ \E u \in Users : TapLogin(u) \/ TapSignUp(u)
         \/ TapReset \/ TapSignOut
  PROVE  CallInv' /\ PagesAgree' /\ MemoryInv'
<1>1. Idle
  BY TapFacts DEF MayTap
<1>2. PICK k \in Slots :
        /\ PageOf(calls'[k].kind) = Top
        /\ calls'[k].phase \in {"asked", "deleting"}
        /\ calls'[k].page = "mounted"
        /\ calls'[k].kind = "signOut" => session' = NoUser
        /\ \A j \in Slots \ {k} : calls'[j] = calls[j]
  BY TapFacts
<1>3. UNCHANGED <<stack, uid, fbUser>> /\ session' \in {session, NoUser}
  BY TapFacts
<1>4. \A j \in Slots : calls'[j] # NoCall => j = k
  BY <1>1, <1>2 DEF Idle
<1>5. Top' = Top /\ Base' = Base
  BY <1>3 DEF Top, Base
<1>6. ~ InCall(k, "login", "storing")' /\ ~ InCall(k, "signOut", "leaving")'
  BY <1>2 DEF InCall
<1>7. CallInv'
  BY <1>2, <1>4, <1>5, <1>6 DEF CallInv
<1> QED
  BY <1>3, <1>5, <1>7 DEF PagesAgree, MemoryInv

\* A call of a user who waits goes on to its next await.
LEMMA PatientGoesOn ==
  ASSUME TypeOK, CallerInv, CallInv, PagesAgree, MemoryInv, patient, NEW k \in Slots,
         \/ SignedIn(k)
         \/ AccountMade(k)
         \/ CreateUserAnswers(k)
         \/ UidDeleted(k)
  PROVE  CallInv' /\ PagesAgree' /\ MemoryInv'
<1>1. UNCHANGED <<stack, session>>
  BY DEF SignedIn, AccountMade, CreateUserAnswers, UidDeleted
<1>2. /\ Top' = Top
      /\ Base' = Base
      /\ Top = stack[Len(stack)]
      /\ Len(stack) \in 1 .. Len(stack)
  BY <1>1, TopFacts DEF Top, Base, PagesAgree
<1>3. calls[k] # NoCall
  BY NoCallFacts DEF SignedIn, AccountMade, CreateUserAnswers, UidDeleted, InCall
<1>4. /\ PageOf(calls[k].kind) = Top
      /\ calls[k].page = "mounted"
      /\ \A j \in Slots : calls[j] # NoCall => j = k
      /\ calls[k].kind = "signOut" => session = NoUser
  BY <1>3 DEF CallInv
<1>5. ASSUME NEW phase \in {"granted", "storing", "leaving"},
             calls' = [calls EXCEPT ![k].phase = phase],
             (calls[k].kind = "login" /\ phase = "storing") => fbUser' = calls[k].user,
             (calls[k].kind = "signOut" /\ phase = "leaving") => uid' = NoUser
      PROVE  CallInv'
  <2>1. /\ calls'[k].kind = calls[k].kind
        /\ calls'[k].phase = phase
        /\ calls'[k].user = calls[k].user
        /\ calls'[k].page = calls[k].page
        /\ \A j \in Slots \ {k} : calls'[j] = calls[j]
    BY <1>5, PhaseFacts
  <2>2. \A j \in Slots : calls'[j] # NoCall => j = k
    BY <1>4, <2>1
  <2>3. /\ InCall(k, "login", "storing")' => fbUser' = calls'[k].user
        /\ InCall(k, "signOut", "leaving")' => uid' = NoUser
    BY <1>5, <2>1 DEF InCall
  <2> QED
    BY <1>1, <1>2, <1>4, <2>1, <2>2, <2>3 DEF CallInv
<1>6. CASE SignedIn(k)
  <2>1. /\ calls[k].kind = "login"
        /\ fbUser' = calls[k].user
        /\ calls[k].user \in Users
        /\ calls' = [calls EXCEPT ![k].phase = "storing"]
        /\ UNCHANGED uid
    BY <1>6 DEF SignedIn, InCall, CallerInv
  <2>2. Top = "login"
    BY <1>4, <2>1, PageOfFacts
  <2>3. uid = NoUser /\ session = NoUser
    BY <1>2, <2>2 DEF PagesAgree
  <2>4. CallInv'
    BY <1>5, <2>1
  <2>5. fbUser' # NoUser
    BY <2>1, UserAssumption
  <2> QED
    BY <1>1, <1>2, <2>1, <2>3, <2>4, <2>5 DEF PagesAgree, MemoryInv
<1>7. CASE AccountMade(k)
  <2>1. /\ calls[k].kind = "createAccount"
        /\ calls' = [calls EXCEPT ![k].phase = "granted"]
        /\ UNCHANGED <<uid, fbUser>>
    BY <1>7 DEF AccountMade, InCall, storeVars
  <2>2. CallInv'
    BY <1>5, <2>1
  <2> QED
    BY <1>1, <1>2, <2>1, <2>2 DEF PagesAgree, MemoryInv
<1>8. CASE CreateUserAnswers(k)
  <2>1. /\ calls[k].kind = "createAccount"
        /\ fbUser' = calls[k].user
        /\ calls[k].user \in Users
        /\ calls' = Ended(k) \/ calls' = [calls EXCEPT ![k].phase = "storing"]
        /\ UNCHANGED uid
    BY <1>8 DEF CreateUserAnswers, InCall, CallerInv
  <2>2. Top = "signup"
    BY <1>4, <2>1, PageOfFacts
  <2>3. uid = NoUser /\ session = NoUser
    BY <1>2, <2>2 DEF PagesAgree
  <2>4. CallInv'
    <3>1. CASE calls' = Ended(k)
      <4>1. \A j \in Slots : calls'[j] = NoCall
        BY <1>4, <3>1, EndedFacts
      <4> QED
        BY <4>1, CallInvIdle
    <3>2. CASE calls' = [calls EXCEPT ![k].phase = "storing"]
      BY <1>5, <2>1, <3>2
    <3> QED
      BY <2>1, <3>1, <3>2
  <2>5. fbUser' # NoUser
    BY <2>1, UserAssumption
  <2> QED
    BY <1>1, <1>2, <2>1, <2>3, <2>4, <2>5 DEF PagesAgree, MemoryInv
<1>9. CASE UidDeleted(k)
  <2>1. /\ calls[k].kind = "signOut"
        /\ uid' = NoUser
        /\ calls' = [calls EXCEPT ![k].phase = "leaving"]
        /\ UNCHANGED fbUser
    BY <1>9 DEF UidDeleted, InCall
  <2>2. CallInv'
    BY <1>5, <2>1
  <2> QED
    BY <1>1, <1>2, <1>4, <2>1, <2>2 DEF PagesAgree, MemoryInv
<1> QED
  BY <1>6, <1>7, <1>8, <1>9

\* The call of a user who waits ends.
LEMMA PatientEnds ==
  ASSUME TypeOK, NavInv, CallerInv, CallInv, PagesAgree, MemoryInv, patient,
         NEW k \in Slots,
         UidStored(k) \/ Created(k) \/ ResetSent(k) \/ SignedOut(k) \/ CallFails(k)
  PROVE  CallInv' /\ PagesAgree' /\ MemoryInv'
<1>0. "login" \in Pages \ {"reset", "account"} /\ "main" \in Pages \ {"reset", "account"}
  BY DEF Pages, MainPages, Unread
<1>1. calls[k] # NoCall
  BY NoCallFacts DEF UidStored, Created, ResetSent, SignedOut, CallFails, InCall
<1>2. /\ PageOf(calls[k].kind) = Top
      /\ calls[k].page = "mounted"
      /\ InCall(k, "login", "storing") => fbUser = calls[k].user
      /\ InCall(k, "signOut", "leaving") => uid = NoUser
      /\ calls[k].kind = "signOut" => session = NoUser
  BY <1>1 DEF CallInv
<1>3. CallInv'
  <2>1. Cut /\ calls'[k] = NoCall
    BY CutSteps, EndsCall
  <2> QED
    BY <1>1, <2>1, LastEnds, CallInvIdle
<1>4. /\ Top = stack[Len(stack)]
      /\ Len(stack) \in 1 .. Len(stack)
      /\ Len(stack) \in Nat
      /\ HasNavigator(k)
  BY <1>2, TopFacts DEF PagesAgree, HasNavigator
<1>5. CASE UidStored(k)
  <2>1. /\ calls[k].kind = "login"
        /\ uid' = calls[k].user
        /\ session' = calls[k].user
        /\ stack' = Replaced("main")
        /\ fbUser = calls[k].user
        /\ calls[k].user \in Users
        /\ UNCHANGED fbUser
    BY <1>2, <1>4, <1>5 DEF UidStored, InCall, CallerInv
  <2>2. Top = "login"
    BY <1>2, <2>1, PageOfFacts
  <2>3. fbUser' # NoUser
    BY <2>1, UserAssumption
  <2>4. PagesAgree'
    BY <1>0, <2>1, <2>2, <2>3, PagesReplaced
  <2> QED
    BY <1>3, <2>1, <2>4 DEF MemoryInv
<1>6. CASE Created(k)
  <2>1. /\ calls[k].kind = "createAccount"
        /\ stack' = Replaced("login")
        /\ UNCHANGED <<uid, fbUser, session>>
    BY <1>2, <1>4, <1>6 DEF Created, InCall, storeVars
  <2>2. Top = "signup"
    BY <1>2, <2>1, PageOfFacts
  <2>3. uid = NoUser /\ session = NoUser
    BY <1>4, <2>2 DEF PagesAgree
  <2>4. PagesAgree'
    BY <1>0, <2>1, <2>2, <2>3, PagesReplaced
  <2> QED
    BY <1>3, <2>1, <2>4 DEF MemoryInv
<1>7. CASE ResetSent(k)
  <2>1. /\ stack' = Popped
        /\ UNCHANGED <<uid, fbUser, session>>
        /\ calls[k].kind = "reset"
    BY <1>4, <1>7 DEF ResetSent, InCall, storeVars
  <2>2. Top = "reset"
    BY <1>2, <2>1, PageOfFacts
  <2>3. Len(stack) > 1
    BY <1>4, <2>2 DEF PagesAgree
  <2>4. PagesAgree'
    BY <2>1, <2>3, PagesPopped
  <2> QED
    BY <1>3, <2>1, <2>4 DEF MemoryInv
<1>8. CASE SignedOut(k)
  <2>1. /\ uid = NoUser
        /\ session = NoUser
        /\ stack' = << "login" >>
        /\ UNCHANGED <<uid, session>>
    BY <1>2, <1>8 DEF SignedOut, InCall
  <2>2. stack' # <<>> /\ Len(stack') = 1 /\ stack'[1] = "login"
    BY <2>1
  <2>3. PagesAgree'
    BY <1>0, <2>1, <2>2, PagesAlone
  <2> QED
    BY <1>3, <2>1, <2>3 DEF MemoryInv
<1>9. CASE CallFails(k)
  <2>1. UNCHANGED <<stack, uid, fbUser, session>>
    BY <1>9 DEF CallFails, storeVars
  <2> QED
    BY <1>3, <2>1 DEF PagesAgree, MemoryInv, Base
<1> QED
  BY <1>5, <1>6, <1>7, <1>8, <1>9

\* Nobody becomes patient or impatient.
LEMMA PatienceKept ==
  ASSUME [Next]_vars
  PROVE  patient' = patient
<1>1. ASSUME NEW k \in Slots, Answer(k) \/ TransitionEnds(k)
      PROVE  patient' = patient
  BY <1>1
  DEF Answer, SignedIn, UidStored, AccountMade, CreateUserAnswers, Created, ResetSent,
      UidDeleted, SignedOut, CallFails, TransitionEnds
<1> QED
  BY <1>1
  DEF Next, NetChange, Listen, TimerFires, CheckLoginStatus, CheckFails, SwitchForm,
      OpenPage, Back, TapLogin, TapSignUp, DocumentSent, TapReset, TapSignOut, KillApp, vars

\* Every step of a user who waits leaves pages and memories in step.
LEMMA PatientStep ==
  ASSUME TypeOK, NavInv, CallerInv, CallInv, PagesAgree, MemoryInv, patient, [Next]_vars
  PROVE  CallInv' /\ PagesAgree' /\ MemoryInv'
<1>1. CASE \/ NetChange \/ Listen \/ UNCHANGED vars
           \/ \E u \in Users : DocumentSent(u)
  <2>1. UNCHANGED <<stack, calls, uid, fbUser, session>>
    BY <1>1 DEF NetChange, Listen, vars, DocumentSent, storeVars
  <2>2. CallInv'
    BY <2>1 DEF CallInv, Top, InCall
  <2> QED
    BY <2>1, <2>2 DEF PagesAgree, MemoryInv, Base
<1>2. CASE KillApp
  <2>1. /\ \A j \in Slots : calls'[j] = NoCall
        /\ stack' # <<>>
        /\ Len(stack') = 1
        /\ stack'[1] = "splash"
        /\ "splash" \in Pages \ {"reset", "account"}
        /\ UNCHANGED <<uid, fbUser, session>>
    BY <1>2 DEF KillApp, Pages, MainPages, Unread, storeVars
  <2>2. CallInv' /\ PagesAgree'
    BY <2>1, CallInvIdle, PagesAlone
  <2> QED
    BY <2>1, <2>2 DEF MemoryInv
<1>3. ASSUME NEW k \in Slots
      PROVE  ~ TransitionEnds(k)
  BY NoCallFacts DEF CallInv, TransitionEnds
<1> QED
  BY <1>1, <1>2, <1>3, PatientPages, PatientTaps, PatientGoesOn, PatientEnds DEF Next, Answer

--------------------------------------------------------------------------
(* The theorems.                                                           *)

\* Init satisfies the invariant.
LEMMA SessionStarts ==
  Init => SessionInv
<1> SUFFICES ASSUME Init PROVE SessionInv
  OBVIOUS
<1>0. /\ net \in BOOLEAN
      /\ inbox = FirstMessages(net)
      /\ stack = << "splash" >>
      /\ "splash" \in Pages
      /\ calls = [k \in Slots |-> NoCall]
      /\ ~ timer /\ heard = net
  BY DEF Init, Pages
<1>1. /\ inbox \in Seq(Message)
      /\ inbox # <<>>
      /\ \A i \in 1 .. Len(inbox) : /\ inbox[i].of = "con" => i = 1
                                    /\ inbox[i].net <=> net
      /\ net => Len(inbox) > 1
  BY <1>0, FirstFacts
<1>2. /\ stack \in Seq(Pages)
      /\ stack # <<>>
      /\ Len(stack) = 1
      /\ stack[1] = "splash"
      /\ Base = "splash"
  BY <1>0 DEF Base
<1>3. calls \in [Slots -> CallRec] /\ \A k \in Slots : calls[k] = NoCall
  BY <1>0, NoCallFacts
<1>4. TypeOK
  <2>1. docs \in [Users -> {"none", "queued", "stored"}]
    BY DEF Init
  <2>2. kills \in 0 .. MaxKills
    BY BoundAssumption DEF Init
  <2> QED
    BY <1>1, <1>2, <1>3, <2>1, <2>2 DEF Init, TypeOK
<1>5. \A i \in 1 .. Len(stack) : i = 1 /\ ~ (i > 1)
  BY <1>2
<1>6. NavInv
  BY <1>2, <1>3, <1>5, NoCallFacts DEF NavInv, Unread
<1>7. MessageInv
  <2>1. inbox[1].net => Len(inbox) > 1
    <3>1. 1 \in 1 .. Len(inbox)
      BY <1>1, EmptySeq
    <3> QED
      BY <1>1, <3>1
  <2> QED
    BY <1>0, <1>1, <1>2, <2>1 DEF MessageInv, SplashSpinnerHasCause
<1>8. CallerInv /\ DataInv
  BY <1>3, NoCallFacts DEF Init, CallerInv, DataInv, HasMade, ConfirmedHasData
<1>9. CallInv /\ PagesAgree /\ MemoryInv
  BY <1>2, <1>3, <1>5 DEF Init, CallInv, PagesAgree, MemoryInv
<1> QED
  BY <1>4, <1>6, <1>7, <1>8, <1>9 DEF SessionInv

\* Every step keeps it.
LEMMA SessionStep ==
  SessionInv /\ [Next]_vars => SessionInv'
<1> SUFFICES ASSUME SessionInv, [Next]_vars
             PROVE  SessionInv'
  OBVIOUS
<1>1. /\ TypeOK /\ NavInv /\ MessageInv /\ CallerInv /\ DataInv
      /\ patient => CallInv /\ PagesAgree /\ MemoryInv
  BY DEF SessionInv
<1>2. TypeOK'
  BY <1>1, SessionTypeStep
<1>3. NavInv'
  BY <1>1, NavStep
<1>4. MessageInv'
  BY <1>1, <1>2, <1>3, MessageStep
<1>5. CallerInv' /\ DataInv'
  BY <1>1, CallerStep, DataStep
<1>6. patient' => CallInv' /\ PagesAgree' /\ MemoryInv'
  BY <1>1, PatienceKept, PatientStep
<1> QED
  BY <1>2, <1>3, <1>4, <1>5, <1>6 DEF SessionInv

\* Pages, messages and documents fit each other, and for a user who waits for
\* each call the two memories of the session, the pages and the session agree
\* (splash.dart 49-101, login_screen.dart 38-47, signup_screen.dart 53-70,
\* account.dart 22-31).
THEOREM SessionInvariant == Spec => []SessionInv
BY SessionStarts, SessionStep, PTL DEF Spec

\* Every behaviour of the session keeps the types of its variables (splash.dart
\* 25-47, login_screen.dart 26-41, signup_screen.dart 53-63).
THEOREM SessionTypes == Spec => []TypeOK
<1>1. SessionInv => TypeOK
  BY DEF SessionInv
<1> QED
  BY <1>1, SessionInvariant, PTL

\* Who reached MainScreen and waits for each call to end is signed in, in the
\* storage, in Firebase and on the pages, until Sign Out is tapped
\* (login_screen.dart 38-47, account.dart 22-31, splash.dart 29-37).
THEOREM UsersStaySignedIn == Spec => []StaySignedIn
<1>1. ASSUME SessionInv
      PROVE  StaySignedIn
  <2> SUFFICES ASSUME patient, session # NoUser
               PROVE  /\ uid = session
                      /\ fbUser = session
                      /\ \A i \in 1 .. Len(stack) :
                           stack[i] \notin {"login", "signup", "reset"}
    BY DEF StaySignedIn
  <2>1. uid = session /\ fbUser = session
    BY <1>1 DEF SessionInv, MemoryInv
  <2>2. \A i \in 1 .. Len(stack) : stack[i] \notin {"login", "signup", "reset"}
    BY <1>1 DEF SessionInv, PagesAgree
  <2> QED
    BY <2>1, <2>2
<1> QED
  BY <1>1, SessionInvariant, PTL

\* Behind a MainScreen that came of a login or of the answer of the storage there
\* is a Firebase user, at every point of a sign-out and after any kill in it, for
\* a user who waits (account.dart 22-31, profile_bloc.dart 17-22).
THEOREM MainPagesHaveUser == Spec => []MainHasUser
<1>1. ASSUME SessionInv
      PROVE  MainHasUser
  BY <1>1 DEF SessionInv, PagesAgree, MainHasUser, Shows
<1> QED
  BY <1>1, SessionInvariant, PTL

\* Who was told that the account was created has an account and the personal
\* data in Firestore (signup_screen.dart 53-70).
THEOREM ConfirmedUsersHaveData == Spec => []ConfirmedHasData
<1>1. ASSUME SessionInv
      PROVE  ConfirmedHasData
  BY <1>1 DEF SessionInv, DataInv
<1> QED
  BY <1>1, SessionInvariant, PTL

\* The splash page is left only after there was a connection (splash.dart 75-98).
THEOREM SplashLeftWithConnection == Spec => []SplashNeedsConnection
<1>1. ASSUME SessionInv
      PROVE  SplashNeedsConnection
  BY <1>1 DEF SessionInv, MessageInv, SplashNeedsConnection
<1> QED
  BY <1>1, SessionInvariant, PTL
==========================================================================
