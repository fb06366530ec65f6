---------------------------- MODULE PagesProofs -----------------------------
(***************************************************************************)
(* Proofs about Checkout for any number of cart requests and submissions   *)
(* under way.  PageInv says what the fields of the page mean: placing has  *)
(* one submission to wait for, syncing one sync, and not both at a time.   *)
(* OrderInv relates the pointer of the cart to the orders, and a           *)
(* submission that has looked to the orders it may have missed.  CartInv   *)
(* says that nothing under way can empty a cart nobody emptied.            *)
(*                                                                         *)
(* At the end the theorems of PaymentsProofs are taken over to MCPages,    *)
(* where TLC checks both components.                                       *)
(***************************************************************************)
EXTENDS MCPages, TLAPS

PageInv ==
  /\ OnCheckout \/ co = NewPage(co.method, 0)
  /\ co.placing => ~co.syncing /\ ~co.error
  /\ \A k \in Submits : sub[k].client = "waiting" => co.placing
  /\ \A k, j \in Submits :
       sub[k].client = "waiting" /\ sub[j].client = "waiting" => k = j
  /\ \A i \in Calls : call[i].by = "page" => co.syncing
  /\ \A i \in Calls : call[i].by = "quote" => OnCheckout
  /\ \A i, j \in Calls : call[i].by = "page" /\ call[j].by = "page" => i = j

OrderInv ==
  /\ last # 0 => sub[last].made
  /\ \A k \in Submits :
       /\ sub[k].made => sub[k].at = "done"
       /\ sub[k].order # 0 => Orders # {}
       /\ sub[k].known \subseteq Orders
       /\ sub[k].at = "looked" /\ last # 0 => last \notin sub[k].known
  /\ page = "provider" => Orders # {}

Emptied == cleared \/ Orders # {}

CallKept(c) ==
  /\ c.at = "read" => c.kind = "sync"
  /\ c.kind = "sync" => c.full
  /\ c.answer # "empty"
  /\ c.at = "done" /\ c.by # "nobody" => c.answer # "none"

CartKept == items /\ rows /\ \A i \in Calls : CallKept(call[i])

CartInv == Emptied \/ CartKept

IInv == TypeOK /\ PageInv /\ OrderInv /\ CartInv

-----------------------------------------------------------------------------
(* Types.                                                                   *)

\* What the operators that build requests, pages and submissions return.
LEMMA CallTypes ==
  ASSUME call \in [Calls -> CartCall]
  PROVE  /\ LeftCalls \in [Calls -> CartCall] /\ UnloadedCalls \in [Calls -> CartCall]
         /\ \A who \in {"store", "page", "quote"}, full \in BOOLEAN :
              Sync(who, full) \in CartCall /\ Load(who) \in CartCall
         /\ Idle \in CartCall
<1>1. LeftCalls \in [Calls -> CartCall] /\ UnloadedCalls \in [Calls -> CartCall]
  BY DEF LeftCalls, UnloadedCalls, CartCall
<1>2. \A who \in {"store", "page", "quote"}, full \in BOOLEAN :
        Sync(who, full) \in CartCall /\ Load(who) \in CartCall
  BY DEF Sync, Load, Idle, CartCall
<1>3. Idle \in CartCall
  BY DEF Idle, CartCall
<1> QED
  BY <1>1, <1>2, <1>3

\* A page just opened is of the type of pages.
LEMMA PageTypes ==
  ASSUME co \in CheckoutPage
  PROVE  /\ \A m \in Methods, n \in 0..MaxOrders : NewPage(m, n) \in CheckoutPage
         /\ co.method \in Methods
<1>1. \A m \in Methods, n \in 0..MaxOrders : NewPage(m, n) \in CheckoutPage
  BY DEF NewPage, CheckoutPage
<1>2. co.method \in Methods
  BY DEF CheckoutPage
<1> QED
  BY <1>1, <1>2

SubOK == sub \in [Submits -> Submission]

\* A submission nobody waits for any more is still a submission.
LEMMA ForgetType ==
  ASSUME SubOK, NEW k \in Submits
  PROVE  Forget(k) \in Submission /\ Forget(k).at = sub[k].at
<1>1. sub[k] \in Submission
  BY DEF SubOK
<1>2. 0 \in 0..MaxOrders /\ "cod" \in Methods
  BY BoundAssumption DEF Methods
<1> QED
  BY <1>1, <1>2 DEF Forget, Submission

\* So are those of a page that is left ...
LEMMA LeftType ==
  ASSUME SubOK, co.method \in Methods
  PROVE  /\ LeftSubmissions \in [Submits -> Submission]
         /\ \A k \in Submits : LeftSubmissions[k].at = sub[k].at
<1> SUFFICES ASSUME NEW k \in Submits
             PROVE  LeftSubmissions[k] \in Submission /\ LeftSubmissions[k].at = sub[k].at
  BY DEF LeftSubmissions
<1>1. sub[k] \in Submission
  BY DEF SubOK
<1> QED
  BY <1>1 DEF LeftSubmissions, Submission

\* ... and one that is answered.
LEMMA AnsweredType ==
  ASSUME SubOK, NEW k \in Submits, NEW o \in 0..MaxOrders
  PROVE  Answered(k, o) \in Submission /\ Answered(k, o).at = "done"
<1>1. sub[k] \in Submission
  BY DEF SubOK
<1>2. 0 \in 0..MaxOrders
  BY BoundAssumption
<1> QED
  BY <1>1, <1>2 DEF Answered, Submission

\* No operation of the page shows an error beside a sync: a retry starts with the
\* error gone, and nothing is synced while an order is placed.
LEMMA PageStep ==
  ASSUME IInv, [Next]_vars
  PROVE  co' \in CheckoutPage /\ (co'.error => ~co'.syncing)
<1>0. co \in CheckoutPage /\ (co.error => ~co.syncing) /\ PageInv /\ sent \in 0..MaxOrders
  BY DEF IInv, TypeOK
<1>a. /\ \A m \in Methods, n \in 0..MaxOrders : NewPage(m, n) \in CheckoutPage
      /\ co.method \in Methods /\ 0 \in 0..MaxOrders
  BY <1>0, PageTypes, BoundAssumption
<1>1. CASE \E i \in Calls : EnterCheckout(i)
  BY <1>0, <1>a, <1>1 DEF EnterCheckout, Ask, Room, Sync, Load, NewPage, LeavePage, PageInv, CheckoutPage
<1>2. CASE \E i \in Calls : Retry(i)
  BY <1>0, <1>a, <1>2 DEF Retry, Resync, Ask, Room, Sync, OnCheckout, LeavePage, PageInv, CheckoutPage, NewPage
<1>3. CASE \E i \in Calls : PlaceTooEarly(i)
  BY <1>0, <1>a, <1>3 DEF PlaceTooEarly, Resync, Ask, Room, Sync, OnCheckout, LeavePage, PageInv, CheckoutPage, NewPage
<1>4. CASE BackToCart
  BY <1>0, <1>a, <1>4 DEF BackToCart, Event, GoTo, LeavePage, PageInv, CheckoutPage, NewPage
<1>5. CASE PlaceOrder
  BY <1>0, <1>a, <1>5 DEF PlaceOrder, OnCheckout, LeavePage, PageInv, CheckoutPage, NewPage
<1>6. CASE \E m \in Methods : SetMethod(m)
  BY <1>0, <1>a, <1>6 DEF SetMethod, Event, OnCheckout, LeavePage, PageInv, CheckoutPage, NewPage
<1>7. CASE \E i \in Calls : PageAnswered(i)
  <2>1. PICK i \in Calls : PageAnswered(i)
    BY <1>7
  <2>2. \/ co' = [co EXCEPT !.syncing = FALSE, !.fresh = FALSE, !.error = TRUE]
        \/ co' = [co EXCEPT !.syncing = FALSE, !.fresh = TRUE]
        \/ co' = NewPage(co.method, 0)
    BY <2>1 DEF PageAnswered, TakeCart, LeavePage
  <2> QED
    BY <1>0, <1>a, <2>2 DEF CheckoutPage, NewPage
<1>8. CASE \E i \in Calls : QuoteAnswered(i)
  <2>1. PICK i \in Calls : QuoteAnswered(i)
    BY <1>8
  <2>2. \/ co' = co
        \/ co' = [co EXCEPT !.fresh = TRUE]
        \/ co' = NewPage(co.method, 0)
    BY <2>1 DEF QuoteAnswered, TakeCart, LeavePage
  <2> QED
    BY <1>0, <1>a, <2>2 DEF CheckoutPage, NewPage
<1>9. CASE \E i \in Calls : LeftAnswered(i)
  <2>1. PICK i \in Calls : LeftAnswered(i)
    BY <1>9
  <2>2. co' = co \/ co' = NewPage(co.method, 0)
    BY <2>1 DEF LeftAnswered, TakeCart, LeavePage
  <2> QED
    BY <1>0, <1>a, <2>2 DEF CheckoutPage, NewPage
<1>10. CASE \E k \in Submits : PlacedCard(k)
  <2>1. co' = NewPage(co.method, 0)
    BY <1>10 DEF PlacedCard, Redirect
  <2> QED
    BY <1>a, <2>1 DEF NewPage
<1>11. CASE \E k \in Submits : NotPlaced(k)
  BY <1>0, <1>a, <1>11 DEF NotPlaced, Heard, Forget, ShowError, LeavePage, PageInv, CheckoutPage, NewPage
<1>12. CASE \E k \in Submits : TimeOut(k)
  BY <1>0, <1>a, <1>12 DEF TimeOut, Heard, Forget, ShowError, LeavePage, PageInv, CheckoutPage, NewPage
<1>13. CASE \E k \in Submits : LeftPlacedCard(k)
  <2>1. co' = NewPage(co.method, 0)
    BY <1>13 DEF LeftPlacedCard, Redirect
  <2> QED
    BY <1>a, <2>1 DEF NewPage
<1>14. CASE \E k \in Submits, i \in Calls : PlacedCod(k, i)
  BY <1>0, <1>a, <1>14 DEF PlacedCod, Succeed, Forget, GoTo, LeavePage, PageInv, CheckoutPage, NewPage
<1>15. CASE \E k \in Submits, i \in Calls : LeftPlacedCod(k, i)
  BY <1>0, <1>a, <1>15 DEF LeftPlacedCod, Succeed, Forget, GoTo, LeavePage, PageInv, CheckoutPage, NewPage
<1>16. CASE \/ \E i \in Calls : CartRead(i)
            \/ \E i \in Calls : CartWritten(i)
            \/ \E i \in Calls : CallFails(i)
            \/ \E i \in Calls : StoreTimerFires(i)
            \/ \E i \in Calls : ClearCart(i)
            \/ \E i \in Calls : ShowPage(i)
            \/ \E i \in Calls : StoreAnswered(i)
            \/ \E i \in Calls : Unheard(i)
            \/ \E i \in Calls : Quote(i)
            \/ \E i \in Calls : Paid(i)
            \/ Edit
            \/ OpenCheckout
            \/ NotPaid
            \/ \E k \in Submits : CartLoaded(k)
            \/ \E k \in Submits : Look(k)
            \/ \E k \in Submits : CreateOrder(k)
            \/ \E k \in Submits : Refuse(k)
            \/ \E k \in Submits : LeftNotPlaced(k)
            \/ UNCHANGED vars
  BY <1>0, <1>a, <1>16 DEF CartRead, CartWritten, CallFails, StoreTimerFires, ClearCart, ShowPage, StoreAnswered, Unheard, Quote, Paid, Edit, OpenCheckout, NotPaid, CartLoaded, Look, CreateOrder, Refuse, LeftNotPlaced, vars, clientVars, serverVars, orderVars
<1> QED
  BY <1>1, <1>2, <1>3, <1>4, <1>5, <1>6, <1>7, <1>8, <1>9, <1>10, <1>11, <1>12, <1>13, <1>14, <1>15, <1>16 DEF Next

\* What a step may make of the request in place i.
Requests == {Idle, Sync("store", items), Sync("store", FALSE), Sync("page", TRUE),
             Load("store"), Load("page"), Load("quote")}

OneRequest(i) ==
  \/ call' = call
  \/ \E c \in Requests :
       call' = [call EXCEPT ![i] = c] \/ call' = [LeftCalls EXCEPT ![i] = c]

\* The requests under way keep their type.
LEMMA CallStep == ASSUME IInv, [Next]_vars PROVE call' \in [Calls -> CartCall]
<1>0. call \in [Calls -> CartCall] /\ items \in BOOLEAN
  BY DEF IInv, TypeOK
<1>a. /\ LeftCalls \in [Calls -> CartCall] /\ UnloadedCalls \in [Calls -> CartCall]
      /\ \A who \in {"store", "page", "quote"}, full \in BOOLEAN :
           Sync(who, full) \in CartCall /\ Load(who) \in CartCall
      /\ Idle \in CartCall
  BY <1>0, CallTypes
<1>b. ASSUME NEW i \in Calls, OneRequest(i) PROVE call' \in [Calls -> CartCall]
  <2>1. \A c \in Requests : c \in CartCall
    BY <1>0, <1>a DEF Requests
  <2> QED
    BY <1>0, <1>a, <1>b, <2>1 DEF OneRequest
<1>1. CASE \E i \in Calls : CartRead(i)
  <2>1. PICK i \in Calls : CartRead(i)
    BY <1>1
  <2>2. /\ [call[i] EXCEPT !.at = "done", !.answer = IF rows THEN "items" ELSE "empty"] \in CartCall
        /\ [call[i] EXCEPT !.at = "read", !.saw = (last # 0)] \in CartCall
    BY <1>0, <2>1 DEF CartCall
  <2> QED
    BY <1>0, <2>1, <2>2 DEF CartRead
<1>2. CASE \E i \in Calls : CartWritten(i)
  <2>1. PICK i \in Calls : CartWritten(i)
    BY <1>2
  <2>2. ASSUME NEW a \in {"items", "empty"}
        PROVE  [call[i] EXCEPT !.at = "done", !.saw = FALSE, !.late = FALSE, !.answer = a] \in CartCall
    <3>1. call[i] \in CartCall /\ a \in {"none", "items", "empty", "failed"}
      BY <1>0
    <3> QED
      BY <3>1 DEF CartCall
  <2>3. \A j \in Calls : call[j] \in CartCall /\ [call[j] EXCEPT !.late = TRUE] \in CartCall
    BY <1>0 DEF CartCall
  <2> QED
    BY <1>0, <2>1, <2>2, <2>3 DEF CartWritten
<1>3. CASE \E i \in Calls : CallFails(i)
  <2>1. PICK i \in Calls : CallFails(i)
    BY <1>3
  <2>2. [call[i] EXCEPT !.at = "done", !.saw = FALSE, !.late = FALSE, !.answer = "failed"] \in CartCall
    BY <1>0, <2>1 DEF CartCall
  <2> QED
    BY <1>0, <2>1, <2>2 DEF CallFails
<1>4. CASE \E i \in Calls : StoreTimerFires(i)
  <2>1. PICK i \in Calls : StoreTimerFires(i)
    BY <1>4
  <2>2. OneRequest(i)
    BY <2>1 DEF StoreTimerFires, Ask, OneRequest, Requests
  <2> QED
    BY <1>b, <2>1, <2>2
<1>5. CASE \E i \in Calls : ClearCart(i)
  <2>1. PICK i \in Calls : ClearCart(i)
    BY <1>5
  <2>2. OneRequest(i)
    BY <2>1 DEF ClearCart, Ask, OneRequest, Requests
  <2> QED
    BY <1>b, <2>1, <2>2
<1>6. CASE \E i \in Calls : ShowPage(i)
  <2>1. PICK i \in Calls : ShowPage(i)
    BY <1>6
  <2>2. OneRequest(i)
    BY <2>1 DEF ShowPage, Ask, OneRequest, Requests
  <2> QED
    BY <1>b, <2>1, <2>2
<1>7. CASE \E i \in Calls : StoreAnswered(i)
  <2>1. PICK i \in Calls : StoreAnswered(i)
    BY <1>7
  <2>2. OneRequest(i)
    BY <2>1 DEF StoreAnswered, Free, OneRequest, Requests
  <2> QED
    BY <1>b, <2>1, <2>2
<1>8. CASE \E i \in Calls : Unheard(i)
  <2>1. PICK i \in Calls : Unheard(i)
    BY <1>8
  <2>2. OneRequest(i)
    BY <2>1 DEF Unheard, Free, OneRequest, Requests
  <2> QED
    BY <1>b, <2>1, <2>2
<1>9. CASE \E i \in Calls : EnterCheckout(i)
  <2>1. PICK i \in Calls : EnterCheckout(i)
    BY <1>9
  <2>2. OneRequest(i)
    BY <2>1 DEF EnterCheckout, Ask, OneRequest, Requests
  <2> QED
    BY <1>b, <2>1, <2>2
<1>10. CASE \E i \in Calls : Retry(i)
  <2>1. PICK i \in Calls : Retry(i)
    BY <1>10
  <2>2. OneRequest(i)
    BY <2>1 DEF Retry, Resync, Ask, OneRequest, Requests
  <2> QED
    BY <1>b, <2>1, <2>2
<1>11. CASE \E i \in Calls : PlaceTooEarly(i)
  <2>1. PICK i \in Calls : PlaceTooEarly(i)
    BY <1>11
  <2>2. OneRequest(i)
    BY <2>1 DEF PlaceTooEarly, Resync, Ask, OneRequest, Requests
  <2> QED
    BY <1>b, <2>1, <2>2
<1>12. CASE \E i \in Calls : Quote(i)
  <2>1. PICK i \in Calls : Quote(i)
    BY <1>12
  <2>2. OneRequest(i)
    BY <2>1 DEF Quote, Ask, OneRequest, Requests
  <2> QED
    BY <1>b, <2>1, <2>2
<1>13. CASE \E i \in Calls : PageAnswered(i)
  <2>1. PICK i \in Calls : PageAnswered(i)
    BY <1>13
  <2>2. OneRequest(i)
    BY <2>1 DEF PageAnswered, TakeCart, Free, OneRequest, Requests
  <2> QED
    BY <1>b, <2>1, <2>2
<1>14. CASE \E i \in Calls : QuoteAnswered(i)
  <2>1. PICK i \in Calls : QuoteAnswered(i)
    BY <1>14
  <2>2. OneRequest(i)
    BY <2>1 DEF QuoteAnswered, TakeCart, Free, OneRequest, Requests
  <2> QED
    BY <1>b, <2>1, <2>2
<1>15. CASE \E i \in Calls : LeftAnswered(i)
  <2>1. PICK i \in Calls : LeftAnswered(i)
    BY <1>15
  <2>2. OneRequest(i)
    BY <2>1 DEF LeftAnswered, TakeCart, Free, OneRequest, Requests
  <2> QED
    BY <1>b, <2>1, <2>2
<1>16. CASE \E i \in Calls : Paid(i)
  <2>1. PICK i \in Calls : Paid(i)
    BY <1>16
  <2>2. OneRequest(i)
    BY <2>1 DEF Paid, Ask, OneRequest, Requests
  <2> QED
    BY <1>b, <2>1, <2>2
<1>17. CASE BackToCart
  BY <1>a, <1>17 DEF BackToCart
<1>18. CASE \E k \in Submits : PlacedCard(k)
  BY <1>a, <1>18 DEF PlacedCard, Redirect
<1>19. CASE \E k \in Submits : LeftPlacedCard(k)
  BY <1>a, <1>19 DEF LeftPlacedCard, Redirect
<1>20. CASE \E k \in Submits, i \in Calls : PlacedCod(k, i)
  <2>1. PICK k \in Submits, i \in Calls : PlacedCod(k, i)
    BY <1>20
  <2>2. call' = [LeftCalls EXCEPT ![i] = Sync("store", FALSE)]
    BY <2>1 DEF PlacedCod, Succeed
  <2>3. Sync("store", FALSE) \in CartCall
    BY <1>a
  <2> QED
    BY <1>a, <2>1, <2>2, <2>3
<1>21. CASE \E k \in Submits, i \in Calls : LeftPlacedCod(k, i)
  <2>1. PICK k \in Submits, i \in Calls : LeftPlacedCod(k, i)
    BY <1>21
  <2>2. call' = [LeftCalls EXCEPT ![i] = Sync("store", FALSE)]
    BY <2>1 DEF LeftPlacedCod, Succeed
  <2>3. Sync("store", FALSE) \in CartCall
    BY <1>a
  <2> QED
    BY <1>a, <2>1, <2>2, <2>3
<1>22. CASE \/ Edit
            \/ OpenCheckout
            \/ PlaceOrder
            \/ NotPaid
            \/ \E m \in Methods : SetMethod(m)
            \/ \E k \in Submits : CartLoaded(k)
            \/ \E k \in Submits : Look(k)
            \/ \E k \in Submits : CreateOrder(k)
            \/ \E k \in Submits : Refuse(k)
            \/ \E k \in Submits : NotPlaced(k)
            \/ \E k \in Submits : TimeOut(k)
            \/ \E k \in Submits : LeftNotPlaced(k)
            \/ UNCHANGED vars
  BY <1>0, <1>22 DEF Edit, OpenCheckout, PlaceOrder, NotPaid, SetMethod, CartLoaded, Look, CreateOrder, Refuse, NotPlaced, TimeOut, LeftNotPlaced, vars, clientVars, serverVars, orderVars
<1> QED
  BY <1>1, <1>2, <1>3, <1>4, <1>5, <1>6, <1>7, <1>8, <1>9, <1>10, <1>11, <1>12, <1>13, <1>14, <1>15, <1>16, <1>17, <1>18, <1>19, <1>20, <1>21, <1>22 DEF Next

SubsOK(n, s) == s \in [Submits -> Submission] /\ \A k \in Submits : s[k].at = "none" <=> k > n

\* The submissions keep their type; those sent are the first ones.
LEMMA SubStep == ASSUME IInv, [Next]_vars PROVE SubsOK(sent', sub')
<1>0. /\ SubsOK(sent, sub) /\ SubOK /\ sent \in 0..MaxOrders /\ last \in 0..MaxOrders
      /\ rows \in BOOLEAN /\ co.method \in Methods
  BY PageTypes DEF IInv, TypeOK, SubsOK, SubOK
<1>a. SubsOK(sent, LeftSubmissions)
  BY <1>0, LeftType DEF SubsOK
<1>b. \A k \in Submits : Forget(k) \in Submission /\ Forget(k).at = sub[k].at
  BY <1>0, ForgetType
<1>c. \A k \in Submits, o \in 0..MaxOrders :
        Answered(k, o) \in Submission /\ Answered(k, o).at = "done"
  BY <1>0, AnsweredType
<1>d. \A k \in Submits : k \in 0..MaxOrders /\ 0 \in 0..MaxOrders
  BY BoundAssumption DEF Submits
<1>1. CASE BackToCart
  BY <1>a, <1>1 DEF BackToCart, LeavePage, SubsOK
<1>2. CASE PlaceOrder
  <2>1. /\ sent < MaxOrders /\ sent' = sent + 1
        /\ sub' = [sub EXCEPT ![sent + 1] =
             [NoSubmission EXCEPT !.at = "sent", !.client = "waiting", !.method = co.method,
                                  !.again = (\E j \in Orders : j > co.since)]]
    BY <1>2 DEF PlaceOrder
  <2>2. \A again \in BOOLEAN :
          [NoSubmission EXCEPT !.at = "sent", !.client = "waiting", !.method = co.method,
                               !.again = again] \in Submission
    <3>1. NoSubmission \in Submission
      BY BoundAssumption DEF NoSubmission, Submission, Methods
    <3> QED
      BY <1>0, <3>1 DEF Submission
  <2>3. sent + 1 \in Submits
    BY <1>0, <2>1, BoundAssumption DEF Submits
  <2>4. sub' \in [Submits -> Submission]
    BY <1>0, <2>1, <2>2, <2>3 DEF SubsOK
  <2>5. \A k \in Submits : k # sent + 1 => sub'[k] = sub[k]
    BY <1>0, <2>1 DEF SubsOK
  <2>6. sub'[sent + 1].at = "sent"
    BY <1>0, <2>1, <2>3 DEF SubsOK, NoSubmission
  <2>7. \A k \in Submits : k # sent + 1 => (k > sent <=> k > sent + 1)
    BY <1>0 DEF Submits
  <2>8. ASSUME NEW k \in Submits PROVE sub'[k].at = "none" <=> k > sent'
    <3>1. CASE k = sent + 1
      BY <1>0, <2>1, <2>6, <3>1
    <3>2. CASE k # sent + 1
      BY <1>0, <2>1, <2>5, <2>7, <3>2 DEF SubsOK
    <3> QED
      BY <3>1, <3>2
  <2> QED
    BY <2>4, <2>8 DEF SubsOK
<1>3. CASE \E i \in Calls : PageAnswered(i)
  <2>1. PICK i \in Calls : PageAnswered(i)
    BY <1>3
  <2>2. sent' = sent /\ (sub' = sub \/ sub' = LeftSubmissions)
    BY <2>1 DEF PageAnswered, TakeCart, LeavePage
  <2> QED
    BY <1>0, <1>a, <2>1, <2>2 DEF SubsOK
<1>4. CASE \E i \in Calls : QuoteAnswered(i)
  <2>1. PICK i \in Calls : QuoteAnswered(i)
    BY <1>4
  <2>2. sent' = sent /\ (sub' = sub \/ sub' = LeftSubmissions)
    BY <2>1 DEF QuoteAnswered, TakeCart, LeavePage
  <2> QED
    BY <1>0, <1>a, <2>1, <2>2 DEF SubsOK
<1>5. CASE \E i \in Calls : LeftAnswered(i)
  <2>1. PICK i \in Calls : LeftAnswered(i)
    BY <1>5
  <2>2. sent' = sent /\ (sub' = sub \/ sub' = LeftSubmissions)
    BY <2>1 DEF LeftAnswered, TakeCart, LeavePage
  <2> QED
    BY <1>0, <1>a, <2>1, <2>2 DEF SubsOK
<1>6. CASE \E k \in Submits : CartLoaded(k)
  <2>1. PICK k \in Submits : CartLoaded(k)
    BY <1>6
  <2>2. /\ sent' = sent /\ sub[k].at = "sent"
        /\ sub' = [sub EXCEPT ![k].at = "loaded"] \/ sub' = [sub EXCEPT ![k] = Answered(k, 0)]
    BY <2>1 DEF CartLoaded, AnswerOrder
  <2>3. sub' = [sub EXCEPT ![k] = Answered(k, 0)] => SubsOK(sent', sub')
    BY <1>0, <1>c, <1>d, <2>1, <2>2 DEF SubsOK
  <2>4. sub' = [sub EXCEPT ![k].at = "loaded"] => SubsOK(sent', sub')
    BY <1>0, <2>1, <2>2 DEF SubsOK, Submission
  <2> QED
    BY <2>2, <2>3, <2>4
<1>7. CASE \E k \in Submits : Look(k)
  <2>1. PICK k \in Submits : Look(k)
    BY <1>7
  <2>2. /\ sent' = sent /\ sub[k].at = "loaded"
        /\ \/ sub' = [sub EXCEPT ![k] = Answered(k, last)]
           \/ sub' = [sub EXCEPT ![k].at = "looked", ![k].known = Orders]
    BY <2>1 DEF Look, AnswerOrder
  <2>3. sub' = [sub EXCEPT ![k] = Answered(k, last)] => SubsOK(sent', sub')
    BY <1>0, <1>c, <2>1, <2>2 DEF SubsOK
  <2>4. Orders \in SUBSET Submits
    BY DEF Orders
  <2>5. sub' = [sub EXCEPT ![k].at = "looked", ![k].known = Orders] => SubsOK(sent', sub')
    <3>1. sub[k] \in Submission
      BY <1>0, <2>1 DEF SubsOK
    <3>2. /\ [sub[k] EXCEPT !.at = "looked", !.known = Orders] \in Submission
          /\ [sub[k] EXCEPT !.at = "looked", !.known = Orders].at = "looked"
      BY <2>4, <3>1 DEF Submission
    <3>3. ASSUME sub' = [sub EXCEPT ![k].at = "looked", ![k].known = Orders]
          PROVE  sub' = [sub EXCEPT ![k] = [sub[k] EXCEPT !.at = "looked", !.known = Orders]]
      BY <1>0, <3>3 DEF SubsOK
    <3> QED
      BY <1>0, <2>1, <2>2, <3>2, <3>3 DEF SubsOK
  <2> QED
    BY <2>2, <2>3, <2>5
<1>8. CASE \E k \in Submits : CreateOrder(k)
  <2>1. PICK k \in Submits : CreateOrder(k)
    BY <1>8
  <2>2. PICK o \in {0, k} : sub' = [sub EXCEPT ![k] = [Answered(k, o) EXCEPT !.made = TRUE]]
    BY <2>1 DEF CreateOrder
  <2>3. sent' = sent /\ sub[k].at = "looked"
    BY <2>1 DEF CreateOrder
  <2>4. Answered(k, o) \in Submission /\ Answered(k, o).at = "done"
    BY <1>c, <1>d, <2>1, <2>2
  <2>5. /\ [Answered(k, o) EXCEPT !.made = TRUE] \in Submission
        /\ [Answered(k, o) EXCEPT !.made = TRUE].at = "done"
    BY <2>4 DEF Submission
  <2> QED
    BY <1>0, <2>1, <2>2, <2>3, <2>5 DEF SubsOK
<1>9. CASE \E k \in Submits : Refuse(k)
  <2>1. PICK k \in Submits : Refuse(k)
    BY <1>9
  <2>2. sent' = sent /\ sub[k].at # "none" /\ sub' = [sub EXCEPT ![k] = Answered(k, 0)]
    BY <2>1 DEF Refuse, AnswerOrder
  <2> QED
    BY <1>0, <1>c, <1>d, <2>1, <2>2 DEF SubsOK
<1>10. CASE \E k \in Submits : PlacedCard(k)
  <2>1. PICK k \in Submits : PlacedCard(k)
    BY <1>10
  <2>2. sent' = sent /\ sub' = [j \in Submits |-> Forget(j)]
    BY <2>1 DEF PlacedCard, Redirect
  <2> QED
    BY <1>0, <1>b, <2>1, <2>2 DEF SubsOK
<1>11. CASE \E k \in Submits : NotPlaced(k)
  <2>1. PICK k \in Submits : NotPlaced(k)
    BY <1>11
  <2>2. sent' = sent /\ sub' = [sub EXCEPT ![k] = Forget(k)]
    BY <2>1 DEF NotPlaced, Heard
  <2> QED
    BY <1>0, <1>b, <2>1, <2>2 DEF SubsOK
<1>12. CASE \E k \in Submits : TimeOut(k)
  <2>1. PICK k \in Submits : TimeOut(k)
    BY <1>12
  <2>2. sent' = sent /\ sub' = [sub EXCEPT ![k] = Forget(k)]
    BY <2>1 DEF TimeOut, Heard
  <2> QED
    BY <1>0, <1>b, <2>1, <2>2 DEF SubsOK
<1>13. CASE \E k \in Submits : LeftPlacedCard(k)
  <2>1. PICK k \in Submits : LeftPlacedCard(k)
    BY <1>13
  <2>2. sent' = sent /\ sub' = [j \in Submits |-> Forget(j)]
    BY <2>1 DEF LeftPlacedCard, Redirect
  <2> QED
    BY <1>0, <1>b, <2>1, <2>2 DEF SubsOK
<1>14. CASE \E k \in Submits : LeftNotPlaced(k)
  <2>1. PICK k \in Submits : LeftNotPlaced(k)
    BY <1>14
  <2>2. sent' = sent /\ sub' = [sub EXCEPT ![k] = Forget(k)]
    BY <2>1 DEF LeftNotPlaced, Heard
  <2> QED
    BY <1>0, <1>b, <2>1, <2>2 DEF SubsOK
<1>15. CASE \E k \in Submits, i \in Calls : PlacedCod(k, i)
  <2>1. PICK k \in Submits, i \in Calls : PlacedCod(k, i)
    BY <1>15
  <2>2. sent' = sent /\ sub' = [LeftSubmissions EXCEPT ![k] = Forget(k)]
    BY <2>1 DEF PlacedCod, Succeed
  <2> QED
    BY <1>0, <1>a, <1>b, <2>1, <2>2 DEF SubsOK
<1>16. CASE \E k \in Submits, i \in Calls : LeftPlacedCod(k, i)
  <2>1. PICK k \in Submits, i \in Calls : LeftPlacedCod(k, i)
    BY <1>16
  <2>2. sent' = sent /\ sub' = [LeftSubmissions EXCEPT ![k] = Forget(k)]
    BY <2>1 DEF LeftPlacedCod, Succeed
  <2> QED
    BY <1>0, <1>a, <1>b, <2>1, <2>2 DEF SubsOK
<1>17. CASE \/ \E i \in Calls : CartRead(i)
            \/ \E i \in Calls : CartWritten(i)
            \/ \E i \in Calls : CallFails(i)
            \/ \E i \in Calls : StoreTimerFires(i)
            \/ \E i \in Calls : ClearCart(i)
            \/ \E i \in Calls : ShowPage(i)
            \/ \E i \in Calls : StoreAnswered(i)
            \/ \E i \in Calls : Unheard(i)
            \/ \E i \in Calls : EnterCheckout(i)
            \/ \E i \in Calls : Retry(i)
            \/ \E i \in Calls : PlaceTooEarly(i)
            \/ \E i \in Calls : Quote(i)
            \/ \E i \in Calls : Paid(i)
            \/ Edit
            \/ OpenCheckout
            \/ NotPaid
            \/ \E m \in Methods : SetMethod(m)
            \/ UNCHANGED vars
  BY <1>0, <1>17 DEF CartRead, CartWritten, CallFails, StoreTimerFires, ClearCart, ShowPage, StoreAnswered, Unheard, EnterCheckout, Retry, PlaceTooEarly, Quote, Paid, Edit, OpenCheckout, NotPaid, SetMethod, vars, clientVars, serverVars, orderVars, SubsOK
<1> QED
  BY <1>1, <1>2, <1>3, <1>4, <1>5, <1>6, <1>7, <1>8, <1>9, <1>10, <1>11, <1>12, <1>13, <1>14, <1>15, <1>16, <1>17 DEF Next

\* What is left of the types.
LEMMA RestStep ==
  ASSUME IInv, [Next]_vars
  PROVE  /\ page' \in Pages /\ arriving' \in BOOLEAN
         /\ items' \in BOOLEAN /\ storeTimer' \in BOOLEAN
         /\ rows' \in BOOLEAN /\ last' \in 0..MaxOrders
         /\ sent' \in 0..MaxOrders
         /\ cleared' \in BOOLEAN /\ events' \in 0..MaxEvents
<1>0. /\ page \in Pages /\ arriving \in BOOLEAN
      /\ items \in BOOLEAN /\ storeTimer \in BOOLEAN
      /\ rows \in BOOLEAN /\ last \in 0..MaxOrders
      /\ sent \in 0..MaxOrders
      /\ cleared \in BOOLEAN /\ events \in 0..MaxEvents
      /\ \A i \in Calls : call[i].full \in BOOLEAN /\ call[i].late \in BOOLEAN
      /\ Submits \subseteq 1..MaxOrders /\ MaxEvents \in Nat /\ MaxOrders \in Nat
  BY BoundAssumption DEF IInv, TypeOK, CartCall, Submits
<1>1. CASE \E i \in Calls : CartWritten(i)
  <2>1. PICK i \in Calls : CartWritten(i)
    BY <1>1
  <2>2. rows' \in {TRUE, FALSE, call[i].late} /\ last' \in {0, last}
    BY <2>1 DEF CartWritten
  <2>3. /\ page' = page /\ arriving' = arriving /\ storeTimer' = storeTimer /\ items' = items
        /\ sent' = sent /\ cleared' = cleared /\ events' = events
    BY <2>1 DEF CartWritten, clientVars, orderVars
  <2>4. rows' \in BOOLEAN
    BY <1>0, <2>1, <2>2, Zenon
  <2>5. last' \in 0..MaxOrders
    BY <1>0, <2>2
  <2> QED
    BY <1>0, <2>3, <2>4, <2>5
<1>2. CASE \E i \in Calls : CallFails(i)
  BY <1>0, <1>2 DEF CallFails, Event, Pages, clientVars, serverVars, orderVars
<1>3. CASE \E i \in Calls : StoreTimerFires(i)
  BY <1>0, <1>3 DEF StoreTimerFires, Pages, clientVars, serverVars, orderVars
<1>4. CASE \E i \in Calls : ClearCart(i)
  <2>1. events' \in 0..MaxEvents
    BY <1>0, <1>4 DEF ClearCart, Event
  <2>2. /\ page' = page /\ arriving' = arriving /\ storeTimer' = storeTimer /\ rows' = rows
        /\ last' = last /\ sent' = sent /\ items' = FALSE /\ cleared' = TRUE
    BY <1>4 DEF ClearCart, serverVars, orderVars
  <2> QED
    BY <1>0, <2>1, <2>2
<1>5. CASE \E i \in Calls : ShowPage(i)
  BY <1>0, <1>5 DEF ShowPage, Pages, clientVars, serverVars, orderVars
<1>6. CASE \E i \in Calls : StoreAnswered(i)
  BY <1>0, <1>6 DEF StoreAnswered, Pages, clientVars, serverVars, orderVars
<1>7. CASE \E i \in Calls : EnterCheckout(i)
  BY <1>0, <1>7 DEF EnterCheckout, Pages, clientVars, serverVars, orderVars
<1>8. CASE \E i \in Calls : Quote(i)
  BY <1>0, <1>8 DEF Quote, Event, Pages, clientVars, serverVars, orderVars
<1>9. CASE \E i \in Calls : PageAnswered(i)
  BY <1>0, <1>9 DEF PageAnswered, TakeCart, GoTo, Pages, clientVars, serverVars, orderVars
<1>10. CASE \E i \in Calls : QuoteAnswered(i)
  BY <1>0, <1>10 DEF QuoteAnswered, TakeCart, GoTo, Pages, clientVars, serverVars, orderVars
<1>11. CASE \E i \in Calls : LeftAnswered(i)
  BY <1>0, <1>11 DEF LeftAnswered, TakeCart, GoTo, Pages, clientVars, serverVars, orderVars
<1>12. CASE \E i \in Calls : Paid(i)
  BY <1>0, <1>12 DEF Paid, GoTo, Pages, clientVars, serverVars, orderVars
<1>13. CASE Edit
  BY <1>0, <1>13 DEF Edit, Event, Pages, clientVars, serverVars, orderVars
<1>14. CASE OpenCheckout
  BY <1>0, <1>14 DEF OpenCheckout, GoTo, Pages, clientVars, serverVars, orderVars
<1>15. CASE BackToCart
  BY <1>0, <1>15 DEF BackToCart, Event, GoTo, Pages, clientVars, serverVars, orderVars
<1>16. CASE PlaceOrder
  BY <1>0, <1>16 DEF PlaceOrder, Pages, clientVars, serverVars, orderVars
<1>17. CASE NotPaid
  BY <1>0, <1>17 DEF NotPaid, GoTo, Pages, clientVars, serverVars, orderVars
<1>18. CASE \E m \in Methods : SetMethod(m)
  BY <1>0, <1>18 DEF SetMethod, Event, Pages, clientVars, serverVars, orderVars
<1>19. CASE \E k \in Submits : CreateOrder(k)
  BY <1>0, <1>19 DEF CreateOrder, Pages, clientVars, serverVars, orderVars
<1>20. CASE \E k \in Submits : PlacedCard(k)
  BY <1>0, <1>20 DEF PlacedCard, Redirect, Pages, clientVars, serverVars, orderVars
<1>21. CASE \E k \in Submits : LeftPlacedCard(k)
  BY <1>0, <1>21 DEF LeftPlacedCard, Redirect, Pages, clientVars, serverVars, orderVars
<1>22. CASE \E k \in Submits, i \in Calls : PlacedCod(k, i)
  BY <1>0, <1>22 DEF PlacedCod, Succeed, GoTo, Pages, clientVars, serverVars, orderVars
<1>23. CASE \E k \in Submits, i \in Calls : LeftPlacedCod(k, i)
  BY <1>0, <1>23 DEF LeftPlacedCod, Succeed, GoTo, Pages, clientVars, serverVars, orderVars
<1>24. CASE \/ \E i \in Calls : CartRead(i)
            \/ \E i \in Calls : Unheard(i)
            \/ \E i \in Calls : Retry(i)
            \/ \E i \in Calls : PlaceTooEarly(i)
            \/ \E k \in Submits : CartLoaded(k)
            \/ \E k \in Submits : Look(k)
            \/ \E k \in Submits : Refuse(k)
            \/ \E k \in Submits : NotPlaced(k)
            \/ \E k \in Submits : TimeOut(k)
            \/ \E k \in Submits : LeftNotPlaced(k)
            \/ UNCHANGED vars
  BY <1>0, <1>24 DEF CartRead, Unheard, Retry, PlaceTooEarly, CartLoaded, Look, Refuse, NotPlaced, TimeOut, LeftNotPlaced, vars, clientVars, serverVars, orderVars
<1> QED
  BY <1>1, <1>2, <1>3, <1>4, <1>5, <1>6, <1>7, <1>8, <1>9, <1>10, <1>11, <1>12, <1>13, <1>14, <1>15, <1>16, <1>17, <1>18, <1>19, <1>20, <1>21, <1>22, <1>23, <1>24 DEF Next

\* Every step keeps the types.
LEMMA TypeStep == ASSUME IInv, [Next]_vars PROVE TypeOK'
  BY PageStep, CallStep, SubStep, RestStep DEF TypeOK, SubsOK

-----------------------------------------------------------------------------
(* The page.                                                                *)

\* A page that is left waits for nothing.
LEMMA LeftPage ==
  ASSUME call \in [Calls -> CartCall], SubOK
  PROVE
  /\ \A i \in Calls : LeftCalls[i].by \notin {"page", "quote"} /\ UnloadedCalls[i].by = "nobody"
  /\ \A k \in Submits : LeftSubmissions[k].client # "waiting" /\ Forget(k).client # "waiting"
  /\ \A m, n : ~NewPage(m, n).placing /\ NewPage(m, n).method = m
  /\ \A full : Sync("store", full).by = "store" /\ Load("store").by = "store" /\ Load("quote").by = "quote"
  /\ Idle.by = "nobody"
<1>1. \A i \in Calls : LeftCalls[i].by \notin {"page", "quote"} /\ UnloadedCalls[i].by = "nobody"
  BY DEF LeftCalls, UnloadedCalls, CartCall
<1>2. \A k \in Submits : LeftSubmissions[k].client # "waiting" /\ Forget(k).client # "waiting"
  BY DEF LeftSubmissions, Forget, SubOK, Submission
<1>3. \A m, n : ~NewPage(m, n).placing /\ NewPage(m, n).method = m
  BY DEF NewPage
<1>4. \A full : Sync("store", full).by = "store" /\ Load("store").by = "store" /\ Load("quote").by = "quote"
  BY DEF Sync, Load, Idle
<1>5. Idle.by = "nobody"
  BY DEF Idle
<1> QED
  BY <1>1, <1>2, <1>3, <1>4, <1>5

\* A step that leaves the page as it is, and adds nothing to wait for.
Quiet ==
  /\ OnCheckout' <=> OnCheckout
  /\ co' = co
  /\ \A k \in Submits : sub'[k].client = "waiting" => sub[k].client = "waiting"
  /\ \A i \in Calls : call'[i].by = "page" => call[i].by = "page"
  /\ \A i \in Calls : call'[i].by = "quote" => call[i].by = "quote" \/ OnCheckout

\* A step after which no page waits for anything.
Leaves ==
  /\ co' = NewPage(co.method, 0)
  /\ \A k \in Submits : sub'[k].client # "waiting"
  /\ \A i \in Calls : call'[i].by \notin {"page", "quote"}

\* A quiet step keeps what the fields of the page mean ...
LEMMA QuietStep == ASSUME PageInv, Quiet PROVE PageInv'
  BY DEF PageInv, Quiet

\* ... and leaving the page establishes it.
LEMMA LeavesStep == ASSUME Leaves PROVE PageInv'
  BY DEF PageInv, Leaves, NewPage

\* Each operation keeps what the fields of the page mean.
LEMMA PageInvStep == ASSUME IInv, [Next]_vars PROVE PageInv'
<1>0. /\ PageInv /\ SubOK /\ call \in [Calls -> CartCall] /\ co \in CheckoutPage
      /\ (co.error => ~co.syncing) /\ sent \in 0..MaxOrders
  BY DEF IInv, TypeOK, SubOK
<1>d. DOMAIN sub = Submits /\ DOMAIN call = Calls
  BY <1>0 DEF SubOK
<1>e. DOMAIN LeftCalls = Calls /\ DOMAIN LeftSubmissions = Submits
  BY DEF LeftCalls, LeftSubmissions
<1>1. CASE \E i \in Calls : CartRead(i)
  <2>1. PICK i \in Calls : CartRead(i)
    BY <1>1
  <2>2. Quiet
    BY <1>0, <1>d, LeftPage, <2>1 DEF CartRead, OnCheckout, Arrived, clientVars, serverVars, orderVars, Quiet
  <2> QED
    BY <1>0, <2>2, QuietStep
<1>2. CASE \E i \in Calls : CartWritten(i)
  <2>1. PICK i \in Calls : CartWritten(i)
    BY <1>2
  <2>2. Quiet
    BY <1>0, <1>d, LeftPage, <2>1 DEF CartWritten, OnCheckout, Arrived, clientVars, serverVars, orderVars, Quiet
  <2> QED
    BY <1>0, <2>2, QuietStep
<1>3. CASE \E i \in Calls : CallFails(i)
  <2>1. PICK i \in Calls : CallFails(i)
    BY <1>3
  <2>2. Quiet
    BY <1>0, <1>d, LeftPage, <2>1 DEF CallFails, OnCheckout, Arrived, clientVars, serverVars, orderVars, Quiet
  <2> QED
    BY <1>0, <2>2, QuietStep
<1>4. CASE \E i \in Calls : StoreTimerFires(i)
  <2>1. PICK i \in Calls : StoreTimerFires(i)
    BY <1>4
  <2>2. Quiet
    BY <1>0, <1>d, LeftPage, <2>1 DEF StoreTimerFires, Ask, OnCheckout, Arrived, clientVars, serverVars, orderVars, Quiet
  <2> QED
    BY <1>0, <2>2, QuietStep
<1>5. CASE \E i \in Calls : ClearCart(i)
  <2>1. PICK i \in Calls : ClearCart(i)
    BY <1>5
  <2>2. Quiet
    BY <1>0, <1>d, LeftPage, <2>1 DEF ClearCart, Ask, OnCheckout, Arrived, clientVars, serverVars, orderVars, Quiet
  <2> QED
    BY <1>0, <2>2, QuietStep
<1>6. CASE \E i \in Calls : ShowPage(i)
  <2>1. PICK i \in Calls : ShowPage(i)
    BY <1>6
  <2>2. Quiet
    BY <1>0, <1>d, LeftPage, <2>1 DEF ShowPage, Ask, OnCheckout, Arrived, clientVars, serverVars, orderVars, Quiet
  <2> QED
    BY <1>0, <2>2, QuietStep
<1>7. CASE \E i \in Calls : StoreAnswered(i)
  <2>1. PICK i \in Calls : StoreAnswered(i)
    BY <1>7
  <2>2. Quiet
    BY <1>0, <1>d, LeftPage, <2>1 DEF StoreAnswered, Free, OnCheckout, Arrived, clientVars, serverVars, orderVars, Quiet
  <2> QED
    BY <1>0, <2>2, QuietStep
<1>8. CASE \E i \in Calls : Unheard(i)
  <2>1. PICK i \in Calls : Unheard(i)
    BY <1>8
  <2>2. Quiet
    BY <1>0, <1>d, LeftPage, <2>1 DEF Unheard, Free, OnCheckout, Arrived, clientVars, serverVars, orderVars, Quiet
  <2> QED
    BY <1>0, <2>2, QuietStep
<1>9. CASE \E i \in Calls : Quote(i)
  <2>1. PICK i \in Calls : Quote(i)
    BY <1>9
  <2>2. Quiet
    BY <1>0, <1>d, LeftPage, <2>1 DEF Quote, Ask, OnCheckout, Arrived, clientVars, serverVars, orderVars, Quiet
  <2> QED
    BY <1>0, <2>2, QuietStep
<1>10. CASE \E i \in Calls : Paid(i)
  <2>1. PICK i \in Calls : Paid(i)
    BY <1>10
  <2>2. Quiet
    BY <1>0, <1>d, LeftPage, <2>1 DEF Paid, Ask, GoTo, OnCheckout, Arrived, clientVars, serverVars, orderVars, Quiet
  <2> QED
    BY <1>0, <2>2, QuietStep
<1>11. CASE Edit
  <2>2. Quiet
    BY <1>0, <1>d, LeftPage, <1>11 DEF Edit, OnCheckout, Arrived, clientVars, serverVars, orderVars, Quiet
  <2> QED
    BY <1>0, <2>2, QuietStep
<1>12. CASE OpenCheckout
  <2>2. Quiet
    BY <1>0, <1>d, LeftPage, <1>12 DEF OpenCheckout, GoTo, OnCheckout, Arrived, clientVars, serverVars, orderVars, Quiet
  <2> QED
    BY <1>0, <2>2, QuietStep
<1>13. CASE NotPaid
  <2>2. Quiet
    BY <1>0, <1>d, LeftPage, <1>13 DEF NotPaid, GoTo, OnCheckout, Arrived, clientVars, serverVars, orderVars, Quiet
  <2> QED
    BY <1>0, <2>2, QuietStep
<1>14. CASE \E k \in Submits : Refuse(k)
  <2>1. PICK k \in Submits : Refuse(k)
    BY <1>14
  <2>2. Quiet
    BY <1>0, <1>d, LeftPage, <2>1 DEF Refuse, AnswerOrder, Answered, OnCheckout, Arrived, clientVars, serverVars, orderVars, Quiet
  <2> QED
    BY <1>0, <2>2, QuietStep
<1>15. CASE \E k \in Submits : CartLoaded(k)
  <2>1. PICK k \in Submits : CartLoaded(k)
    BY <1>15
  <2>2. \/ sub' = [sub EXCEPT ![k] = Answered(k, 0)]
        \/ sub' = [sub EXCEPT ![k].at = "loaded"]
    BY <2>1 DEF CartLoaded, AnswerOrder
  <2>3. \A j \in Submits : sub'[j].client = sub[j].client
    <3>1. Answered(k, 0).client = sub[k].client
      BY <1>0, <2>1 DEF Answered, SubOK, Submission
    <3>2. [sub[k] EXCEPT !.at = "loaded"].client = sub[k].client
      BY <1>0, <2>1 DEF SubOK, Submission
    <3>3. [sub[k] EXCEPT !.at = "looked", !.known = Orders].client = sub[k].client
      BY <1>0, <2>1 DEF SubOK, Submission
    <3>4. \/ sub' = [sub EXCEPT ![k] = Answered(k, 0)]
          \/ sub' = [sub EXCEPT ![k] = [sub[k] EXCEPT !.at = "loaded"]]
          \/ sub' = [sub EXCEPT ![k] = [sub[k] EXCEPT !.at = "looked", !.known = Orders]]
      BY <1>d, <2>1, <2>2
    <3> QED
      BY <1>d, <2>1, <3>1, <3>2, <3>3, <3>4
  <2>4. Quiet
    BY <2>1, <2>3 DEF CartLoaded, OnCheckout, Arrived, clientVars, serverVars, orderVars, Quiet
  <2> QED
    BY <1>0, <2>4, QuietStep
<1>16. CASE \E k \in Submits : Look(k)
  <2>1. PICK k \in Submits : Look(k)
    BY <1>16
  <2>2. \/ sub' = [sub EXCEPT ![k] = Answered(k, last)]
        \/ sub' = [sub EXCEPT ![k].at = "looked", ![k].known = Orders]
    BY <2>1 DEF Look, AnswerOrder
  <2>3. \A j \in Submits : sub'[j].client = sub[j].client
    <3>1. Answered(k, last).client = sub[k].client
      BY <1>0, <2>1 DEF Answered, SubOK, Submission
    <3>2. [sub[k] EXCEPT !.at = "loaded"].client = sub[k].client
      BY <1>0, <2>1 DEF SubOK, Submission
    <3>3. [sub[k] EXCEPT !.at = "looked", !.known = Orders].client = sub[k].client
      BY <1>0, <2>1 DEF SubOK, Submission
    <3>4. \/ sub' = [sub EXCEPT ![k] = Answered(k, last)]
          \/ sub' = [sub EXCEPT ![k] = [sub[k] EXCEPT !.at = "loaded"]]
          \/ sub' = [sub EXCEPT ![k] = [sub[k] EXCEPT !.at = "looked", !.known = Orders]]
      BY <1>d, <2>1, <2>2
    <3> QED
      BY <1>d, <2>1, <3>1, <3>2, <3>3, <3>4
  <2>4. Quiet
    BY <2>1, <2>3 DEF Look, OnCheckout, Arrived, clientVars, serverVars, orderVars, Quiet
  <2> QED
    BY <1>0, <2>4, QuietStep
<1>17. CASE \E k \in Submits : CreateOrder(k)
  <2>1. PICK k \in Submits : CreateOrder(k)
    BY <1>17
  <2>2. Quiet
    BY <1>0, <1>d, LeftPage, <2>1 DEF CreateOrder, Answered, OnCheckout, Arrived, clientVars, serverVars, orderVars, Quiet
  <2> QED
    BY <1>0, <2>2, QuietStep
<1>18. CASE \E k \in Submits : LeftNotPlaced(k)
  <2>1. PICK k \in Submits : LeftNotPlaced(k)
    BY <1>18
  <2>2. Quiet
    BY <1>0, <1>d, LeftPage, <2>1 DEF LeftNotPlaced, Heard, OnCheckout, Arrived, clientVars, serverVars, orderVars, Quiet
  <2> QED
    BY <1>0, <2>2, QuietStep
<1>19. CASE BackToCart
  <2>2. Leaves
    BY <1>0, <1>d, <1>e, LeftPage, <1>19 DEF BackToCart, LeavePage, Leaves
  <2> QED
    BY <2>2, LeavesStep
<1>20. CASE \E k \in Submits : PlacedCard(k)
  <2>1. PICK k \in Submits : PlacedCard(k)
    BY <1>20
  <2>2. Leaves
    BY <1>0, <1>d, <1>e, LeftPage, <2>1 DEF PlacedCard, Redirect, Leaves
  <2> QED
    BY <2>2, LeavesStep
<1>21. CASE \E k \in Submits : LeftPlacedCard(k)
  <2>1. PICK k \in Submits : LeftPlacedCard(k)
    BY <1>21
  <2>2. Leaves
    BY <1>0, <1>d, <1>e, LeftPage, <2>1 DEF LeftPlacedCard, Redirect, Leaves
  <2> QED
    BY <2>2, LeavesStep
<1>22. CASE \E k \in Submits, i \in Calls : PlacedCod(k, i)
  <2>1. PICK k \in Submits, i \in Calls : PlacedCod(k, i)
    BY <1>22
  <2>2. Leaves
    BY <1>0, <1>d, <1>e, LeftPage, <2>1 DEF PlacedCod, Succeed, Leaves
  <2> QED
    BY <2>2, LeavesStep
<1>23. CASE \E k \in Submits, i \in Calls : LeftPlacedCod(k, i)
  <2>1. PICK k \in Submits, i \in Calls : LeftPlacedCod(k, i)
    BY <1>23
  <2>2. Leaves
    BY <1>0, <1>d, <1>e, LeftPage, <2>1 DEF LeftPlacedCod, Succeed, Leaves
  <2> QED
    BY <2>2, LeavesStep
<1>24. CASE \E i \in Calls : QuoteAnswered(i)
  <2>1. PICK i \in Calls : QuoteAnswered(i)
    BY <1>24
  <2>2. CASE call[i].answer = "failed"
    <3>1. Quiet
      BY <1>0, <1>d, LeftPage, <2>1, <2>2 DEF QuoteAnswered, OnCheckout, Arrived, Quiet
    <3> QED
      BY <1>0, <3>1, QuietStep
  <2>3. CASE call[i].answer # "failed" /\ call[i].answer # "items"
    <3>1. Leaves
      BY <1>0, <1>d, <1>e, LeftPage, <2>1, <2>3 DEF QuoteAnswered, TakeCart, LeavePage, Leaves
    <3> QED
      BY <3>1, LeavesStep
  <2>4. CASE call[i].answer = "items"
    <3>1. /\ co' = [co EXCEPT !.fresh = TRUE] /\ page' = page /\ arriving' = arriving /\ sub' = sub
          /\ \A j \in Calls : call'[j].by = "page" => call[j].by = "page"
      BY <1>0, <1>d, LeftPage, <2>1, <2>4 DEF QuoteAnswered, TakeCart, Free
    <3>2. OnCheckout
      BY <1>0, <2>1 DEF QuoteAnswered, PageInv
    <3> QED
      BY <1>0, <3>1, <3>2 DEF PageInv, OnCheckout, Arrived, CheckoutPage
  <2> QED
    BY <2>2, <2>3, <2>4
<1>25. CASE \E i \in Calls : PageAnswered(i)
  <2>1. PICK i \in Calls : PageAnswered(i)
    BY <1>25
  <2>7. call[i].by = "page" /\ co.syncing /\ OnCheckout /\ ~co.placing
    BY <1>0, <2>1 DEF PageAnswered, PageInv, NewPage
  <2>2. CASE call[i].answer = "failed"
    <3>1. /\ co' = [co EXCEPT !.syncing = FALSE, !.fresh = FALSE, !.error = TRUE]
          /\ page' = page /\ arriving' = arriving /\ sub' = sub
          /\ call' = [call EXCEPT ![i] = Idle]
      BY <2>1, <2>2 DEF PageAnswered, Free
    <3> QED
      BY <1>0, <1>d, LeftPage, <2>1, <2>7, <3>1 DEF PageInv, OnCheckout, Arrived, CheckoutPage
  <2>3. CASE call[i].answer # "failed" /\ call[i].answer # "items"
    <3>1. Leaves
      BY <1>0, <1>d, <1>e, LeftPage, <2>1, <2>3 DEF PageAnswered, TakeCart, LeavePage, Leaves
    <3> QED
      BY <3>1, LeavesStep
  <2>4. CASE call[i].answer = "items"
    <3>1. /\ co' = [co EXCEPT !.syncing = FALSE, !.fresh = TRUE]
          /\ page' = page /\ arriving' = arriving /\ sub' = sub
          /\ call' = [call EXCEPT ![i] = Idle]
      BY <2>1, <2>4 DEF PageAnswered, TakeCart, Free
    <3> QED
      BY <1>0, <1>d, LeftPage, <2>1, <2>7, <3>1 DEF PageInv, OnCheckout, Arrived, CheckoutPage
  <2> QED
    BY <2>2, <2>3, <2>4
<1>26. CASE \E i \in Calls : LeftAnswered(i)
  <2>1. PICK i \in Calls : LeftAnswered(i)
    BY <1>26
  <2>2. CASE call[i].answer \in {"failed", "items"} \/ page = "cart"
    <3>1. Quiet
      BY <1>0, <1>d, LeftPage, <2>1, <2>2 DEF LeftAnswered, TakeCart, Free, OnCheckout, Arrived, Quiet
    <3> QED
      BY <1>0, <3>1, QuietStep
  <2>3. CASE call[i].answer \notin {"failed", "items"} /\ page # "cart"
    <3>1. Leaves
      BY <1>0, <1>d, <1>e, LeftPage, <2>1, <2>3 DEF LeftAnswered, TakeCart, LeavePage, Leaves
    <3> QED
      BY <3>1, LeavesStep
  <2> QED
    BY <2>2, <2>3
<1>27. CASE \E i \in Calls : EnterCheckout(i)
  <2>1. PICK i \in Calls : EnterCheckout(i)
    BY <1>27
  <2>2. ~OnCheckout /\ ~co.placing /\ ~co.syncing
    BY <1>0, <2>1 DEF EnterCheckout, OnCheckout, Arrived, PageInv, NewPage
  <2>3. /\ co'.syncing /\ ~co'.placing /\ ~co'.error /\ OnCheckout' /\ sub' = sub
        /\ \A j \in Calls : call'[j].by = "page" => j = i \/ call[j].by = "page"
    BY <1>d, <2>1 DEF EnterCheckout, OnCheckout, Arrived, NewPage, Ask, orderVars
  <2> QED
    BY <1>0, <2>2, <2>3 DEF PageInv
<1>28. CASE \E i \in Calls : Retry(i)
  <2>1. PICK i \in Calls : Retry(i)
    BY <1>28
  <2>2. OnCheckout /\ OnCheckout' /\ ~co.placing /\ ~co.syncing /\ sub' = sub
    BY <1>0, <2>1 DEF Retry, OnCheckout, Arrived, PageInv, orderVars
  <2>3. \/ /\ items
           /\ co' = [co EXCEPT !.error = FALSE, !.syncing = TRUE, !.fresh = FALSE]
           /\ call' = [call EXCEPT ![i] = Sync("page", TRUE)]
        \/ co' = [co EXCEPT !.error = FALSE] /\ call' = call
    BY <2>1 DEF Retry, Resync, Ask
  <2>4. \A k \in Submits : sub'[k].client # "waiting"
    BY <1>0, <2>2 DEF PageInv
  <2>5. ASSUME NEW j \in Calls, call'[j].by = "page" PROVE j = i /\ co'.syncing
    BY <1>0, <1>d, <2>1, <2>2, <2>3, <2>5 DEF PageInv, CheckoutPage
  <2>6. ~co'.placing
    BY <1>0, <2>2, <2>3 DEF CheckoutPage
  <2> QED
    BY <2>2, <2>4, <2>5, <2>6 DEF PageInv
<1>29. CASE \E i \in Calls : PlaceTooEarly(i)
  <2>1. PICK i \in Calls : PlaceTooEarly(i)
    BY <1>29
  <2>2. OnCheckout /\ OnCheckout' /\ ~co.placing /\ ~co.syncing /\ sub' = sub
    BY <1>0, <2>1 DEF PlaceTooEarly, OnCheckout, Arrived, PageInv, orderVars
  <2>3. \/ /\ items
           /\ co' = [co EXCEPT !.error = FALSE, !.syncing = TRUE, !.fresh = FALSE]
           /\ call' = [call EXCEPT ![i] = Sync("page", TRUE)]
        \/ co' = [co EXCEPT !.error = FALSE] /\ call' = call
    BY <2>1 DEF PlaceTooEarly, Resync, Ask
  <2>4. \A k \in Submits : sub'[k].client # "waiting"
    BY <1>0, <2>2 DEF PageInv
  <2>5. ASSUME NEW j \in Calls, call'[j].by = "page" PROVE j = i /\ co'.syncing
    BY <1>0, <1>d, <2>1, <2>2, <2>3, <2>5 DEF PageInv, CheckoutPage
  <2>6. ~co'.placing
    BY <1>0, <2>2, <2>3 DEF CheckoutPage
  <2> QED
    BY <2>2, <2>4, <2>5, <2>6 DEF PageInv
<1>30. CASE PlaceOrder
  <2>1. /\ OnCheckout /\ OnCheckout' /\ ~co.placing /\ ~co.syncing /\ call' = call
        /\ co' = [co EXCEPT !.placing = TRUE, !.error = FALSE]
        /\ \A k \in Submits : sub'[k].client = "waiting" => k = sent + 1 \/ sub[k].client = "waiting"
    BY <1>d, <1>30 DEF PlaceOrder, OnCheckout, Arrived
  <2> QED
    BY <1>0, <2>1 DEF PageInv, CheckoutPage
<1>31. CASE \E m \in Methods : SetMethod(m)
  <2>1. PICK m \in Methods : SetMethod(m)
    BY <1>31
  <2>2. /\ OnCheckout /\ OnCheckout' /\ call' = call /\ sub' = sub
        /\ co' = [co EXCEPT !.method = m, !.error = FALSE]
    BY <2>1 DEF SetMethod, OnCheckout, Arrived, orderVars
  <2> QED
    BY <1>0, <2>2 DEF PageInv, CheckoutPage
<1>32. CASE \E k \in Submits : NotPlaced(k)
  <2>1. PICK k \in Submits : NotPlaced(k)
    BY <1>32
  <2>2. /\ sub[k].client = "waiting" /\ co.placing /\ ~co.syncing /\ OnCheckout
    BY <1>0, <2>1 DEF NotPlaced, PageInv, NewPage
  <2>3. /\ OnCheckout' /\ call' = call /\ co' = [co EXCEPT !.placing = FALSE, !.error = TRUE]
        /\ sub' = [sub EXCEPT ![k] = Forget(k)]
    BY <2>1, <2>2 DEF NotPlaced, ShowError, Heard, OnCheckout, Arrived
  <2>4. \A j \in Submits : sub'[j].client # "waiting"
    BY <1>0, <1>d, LeftPage, <2>2, <2>3 DEF PageInv
  <2>5. ~co'.placing /\ ~co'.syncing
    BY <1>0, <2>2, <2>3 DEF CheckoutPage
  <2> QED
    BY <1>0, <2>2, <2>3, <2>4, <2>5 DEF PageInv
<1>33. CASE \E k \in Submits : TimeOut(k)
  <2>1. PICK k \in Submits : TimeOut(k)
    BY <1>33
  <2>2. /\ sub[k].client = "waiting" /\ co.placing /\ ~co.syncing /\ OnCheckout
    BY <1>0, <2>1 DEF TimeOut, PageInv, NewPage
  <2>3. /\ OnCheckout' /\ call' = call /\ co' = [co EXCEPT !.placing = FALSE, !.error = TRUE]
        /\ sub' = [sub EXCEPT ![k] = Forget(k)]
    BY <2>1, <2>2 DEF TimeOut, ShowError, Heard, OnCheckout, Arrived
  <2>4. \A j \in Submits : sub'[j].client # "waiting"
    BY <1>0, <1>d, LeftPage, <2>2, <2>3 DEF PageInv
  <2>5. ~co'.placing /\ ~co'.syncing
    BY <1>0, <2>2, <2>3 DEF CheckoutPage
  <2> QED
    BY <1>0, <2>2, <2>3, <2>4, <2>5 DEF PageInv
<1>34. CASE UNCHANGED vars
  BY <1>0, <1>34 DEF PageInv, OnCheckout, Arrived, vars, clientVars, serverVars, orderVars
<1> QED
  BY <1>1, <1>2, <1>3, <1>4, <1>5, <1>6, <1>7, <1>8, <1>9, <1>10, <1>11, <1>12, <1>13, <1>14, <1>15, <1>16, <1>17, <1>18, <1>19, <1>20, <1>21, <1>22, <1>23, <1>24, <1>25, <1>26, <1>27, <1>28, <1>29, <1>30, <1>31, <1>32, <1>33, <1>34 DEF Next

-----------------------------------------------------------------------------
(* The orders.                                                              *)

\* What becomes of the fields of a submission that tell of orders, by operator.
LEMMA SubFields ==
  ASSUME SubOK, NEW k \in Submits
  PROVE
  /\ /\ LeftSubmissions[k].made = sub[k].made /\ LeftSubmissions[k].known = sub[k].known
     /\ LeftSubmissions[k].at = sub[k].at /\ LeftSubmissions[k].order = sub[k].order
  /\ /\ Forget(k).made = sub[k].made /\ Forget(k).known = sub[k].known
     /\ Forget(k).at = sub[k].at /\ Forget(k).order = 0
  /\ \A o : /\ Answered(k, o).made = sub[k].made /\ Answered(k, o).known = {}
            /\ Answered(k, o).at = "done" /\ Answered(k, o).order \in {0, o}
<1>0. sub[k] \in Submission
  BY DEF SubOK
<1>1. /\ LeftSubmissions[k].made = sub[k].made /\ LeftSubmissions[k].known = sub[k].known
      /\ LeftSubmissions[k].at = sub[k].at /\ LeftSubmissions[k].order = sub[k].order
  BY <1>0 DEF LeftSubmissions, Submission
<1>2. /\ Forget(k).made = sub[k].made /\ Forget(k).known = sub[k].known
      /\ Forget(k).at = sub[k].at /\ Forget(k).order = 0
  BY <1>0 DEF Forget, Submission
<1>3. ASSUME NEW o
      PROVE  /\ Answered(k, o).made = sub[k].made /\ Answered(k, o).known = {}
             /\ Answered(k, o).at = "done" /\ Answered(k, o).order \in {0, o}
  BY <1>0 DEF Answered, Submission
<1> QED
  BY <1>1, <1>2, <1>3

\* A step that makes no order and looks for none.
SameOrders ==
  /\ \A k \in Submits :
       /\ sub'[k].made = sub[k].made /\ sub'[k].known = sub[k].known
       /\ sub'[k].at = sub[k].at /\ sub'[k].order \in {0, sub[k].order}
  /\ last' \in {0, last}
  /\ page' = "provider" => page = "provider" \/ Orders # {}

\* Such a step keeps the orders and what is known of them.
LEMMA SameOrdersStep ==
  ASSUME OrderInv, SameOrders, last \in 0..MaxOrders
  PROVE  OrderInv' /\ Orders' = Orders
<1>1. Orders' = Orders
  BY DEF SameOrders, Orders
<1>2. last' # 0 => last' \in Submits /\ last' = last
  BY BoundAssumption DEF SameOrders, Submits
<1>3. \A k \in Submits :
       /\ sub'[k].made => sub'[k].at = "done"
       /\ sub'[k].order # 0 => Orders # {}
       /\ sub'[k].known \subseteq Orders
       /\ sub'[k].at = "looked" /\ last' # 0 => last' \notin sub'[k].known
  BY <1>2 DEF SameOrders, OrderInv
<1>4. last' # 0 => sub'[last'].made
  BY <1>2 DEF SameOrders, OrderInv
<1>5. page' = "provider" => Orders # {}
  BY DEF SameOrders, OrderInv
<1> QED
  BY <1>1, <1>3, <1>4, <1>5 DEF OrderInv

\* An order that was answered without creating one.
Settled(k, o) ==
  /\ sub' = [sub EXCEPT ![k] = Answered(k, o)]
  /\ o # 0 => Orders # {}
  /\ last' = last /\ page' = page

\* Settling a submission without an order keeps them too.
LEMMA SettledStep ==
  ASSUME OrderInv, SubOK, last \in 0..MaxOrders, NEW k \in Submits, NEW o, Settled(k, o),
         ~sub[k].made
  PROVE  OrderInv' /\ Orders' = Orders
<1>0. DOMAIN sub = Submits
  BY DEF SubOK
<1>1. \A j \in Submits : j # k => sub'[j] = sub[j]
  BY <1>0 DEF Settled
<1>2. /\ ~sub'[k].made /\ sub'[k].known = {}
      /\ sub'[k].at = "done" /\ sub'[k].order \in {0, o}
  BY <1>0, SubFields DEF Settled
<1>3. Orders' = Orders
  BY <1>1, <1>2 DEF Orders
<1>4. last # 0 => last \in Submits
  BY BoundAssumption DEF Submits
<1>5. last' # 0 => sub'[last'].made
  BY <1>1, <1>4 DEF Settled, OrderInv
<1>6. \A j \in Submits :
       /\ sub'[j].made => sub'[j].at = "done"
       /\ sub'[j].order # 0 => Orders # {}
       /\ sub'[j].known \subseteq Orders
       /\ sub'[j].at = "looked" /\ last' # 0 => last' \notin sub'[j].known
  BY <1>1, <1>2 DEF Settled, OrderInv
<1>7. page' = "provider" => Orders # {}
  BY DEF Settled, OrderInv
<1> QED
  BY <1>3, <1>5, <1>6, <1>7 DEF OrderInv

\* A step makes an order only by creating one.
OneAtMost ==
  \/ Orders' = Orders
  \/ \E k \in Submits : CreateOrder(k) /\ Orders' = Orders \union {k}

\* No operation takes an order back, and the pointer of the cart names an order that
\* no submission still at work has seen.
LEMMA OrderStep == ASSUME IInv, [Next]_vars PROVE OrderInv' /\ OneAtMost
<1>0. /\ OrderInv /\ SubOK /\ last \in 0..MaxOrders /\ DOMAIN sub = Submits
      /\ \A k \in Submits : sub[k].at = "none" <=> k > sent
      /\ sent \in 0..MaxOrders
  BY DEF IInv, TypeOK, SubOK
<1>s. SameOrders => OrderInv' /\ OneAtMost
  BY <1>0, SameOrdersStep DEF OneAtMost
<1>t. ASSUME NEW k \in Submits, NEW o, Settled(k, o), sub[k].at # "done"
      PROVE  OrderInv' /\ OneAtMost
  <2>1. ~sub[k].made
    BY <1>0, <1>t DEF OrderInv
  <2> QED
    BY <1>0, <1>t, <2>1, SettledStep DEF OneAtMost
<1>1. CASE \E k \in Submits : NotPlaced(k)
  <2>1. PICK k \in Submits : NotPlaced(k)
    BY <1>1
  <2>2. sub' = [sub EXCEPT ![k] = Forget(k)] /\ last' = last /\ page' = page
    BY <2>1 DEF NotPlaced, Heard, serverVars, clientVars
  <2>3. SameOrders
    BY <1>0, <2>1, <2>2, SubFields DEF SameOrders
  <2> QED
    BY <1>s, <2>3
<1>2. CASE \E k \in Submits : TimeOut(k)
  <2>1. PICK k \in Submits : TimeOut(k)
    BY <1>2
  <2>2. sub' = [sub EXCEPT ![k] = Forget(k)] /\ last' = last /\ page' = page
    BY <2>1 DEF TimeOut, Heard, serverVars, clientVars
  <2>3. SameOrders
    BY <1>0, <2>1, <2>2, SubFields DEF SameOrders
  <2> QED
    BY <1>s, <2>3
<1>3. CASE \E k \in Submits : LeftNotPlaced(k)
  <2>1. PICK k \in Submits : LeftNotPlaced(k)
    BY <1>3
  <2>2. sub' = [sub EXCEPT ![k] = Forget(k)] /\ last' = last /\ page' = page
    BY <2>1 DEF LeftNotPlaced, Heard, serverVars, clientVars
  <2>3. SameOrders
    BY <1>0, <2>1, <2>2, SubFields DEF SameOrders
  <2> QED
    BY <1>s, <2>3
<1>4. CASE \E k \in Submits : PlacedCard(k)
  <2>1. PICK k \in Submits : PlacedCard(k)
    BY <1>4
  <2>2. sub' = [j \in Submits |-> Forget(j)] /\ last' = last /\ sub[k].order # 0
    BY <2>1 DEF PlacedCard, Redirect, serverVars
  <2>3. Orders # {}
    BY <1>0, <2>1, <2>2 DEF OrderInv
  <2>4. SameOrders
    BY <1>0, <2>1, <2>2, <2>3, SubFields DEF SameOrders
  <2> QED
    BY <1>s, <2>4
<1>5. CASE \E k \in Submits : LeftPlacedCard(k)
  <2>1. PICK k \in Submits : LeftPlacedCard(k)
    BY <1>5
  <2>2. sub' = [j \in Submits |-> Forget(j)] /\ last' = last /\ sub[k].order # 0
    BY <2>1 DEF LeftPlacedCard, Redirect, serverVars
  <2>3. Orders # {}
    BY <1>0, <2>1, <2>2 DEF OrderInv
  <2>4. SameOrders
    BY <1>0, <2>1, <2>2, <2>3, SubFields DEF SameOrders
  <2> QED
    BY <1>s, <2>4
<1>6. CASE \E k \in Submits, i \in Calls : PlacedCod(k, i)
  <2>1. PICK k \in Submits, i \in Calls : PlacedCod(k, i)
    BY <1>6
  <2>2. sub' = [LeftSubmissions EXCEPT ![k] = Forget(k)] /\ last' = last /\ page' = "success"
    BY <2>1 DEF PlacedCod, Succeed, GoTo, serverVars
  <2>3. DOMAIN LeftSubmissions = Submits
    BY DEF LeftSubmissions
  <2>4. SameOrders
    BY <1>0, <2>1, <2>2, <2>3, SubFields DEF SameOrders
  <2> QED
    BY <1>s, <2>4
<1>7. CASE \E k \in Submits, i \in Calls : LeftPlacedCod(k, i)
  <2>1. PICK k \in Submits, i \in Calls : LeftPlacedCod(k, i)
    BY <1>7
  <2>2. sub' = [LeftSubmissions EXCEPT ![k] = Forget(k)] /\ last' = last /\ page' = "success"
    BY <2>1 DEF LeftPlacedCod, Succeed, GoTo, serverVars
  <2>3. DOMAIN LeftSubmissions = Submits
    BY DEF LeftSubmissions
  <2>4. SameOrders
    BY <1>0, <2>1, <2>2, <2>3, SubFields DEF SameOrders
  <2> QED
    BY <1>s, <2>4
<1>8. CASE \E i \in Calls : PageAnswered(i)
  <2>1. PICK i \in Calls : PageAnswered(i)
    BY <1>8
  <2>2. sub' \in {sub, LeftSubmissions} /\ last' = last /\ page' \in {page, "cart"}
    BY <2>1 DEF PageAnswered, TakeCart, GoTo, LeavePage, serverVars
  <2>3. SameOrders
    BY <1>0, <2>2, SubFields DEF SameOrders
  <2> QED
    BY <1>s, <2>3
<1>9. CASE \E i \in Calls : QuoteAnswered(i)
  <2>1. PICK i \in Calls : QuoteAnswered(i)
    BY <1>9
  <2>2. sub' \in {sub, LeftSubmissions} /\ last' = last /\ page' \in {page, "cart"}
    BY <2>1 DEF QuoteAnswered, TakeCart, GoTo, LeavePage, serverVars
  <2>3. SameOrders
    BY <1>0, <2>2, SubFields DEF SameOrders
  <2> QED
    BY <1>s, <2>3
<1>10. CASE \E i \in Calls : LeftAnswered(i)
  <2>1. PICK i \in Calls : LeftAnswered(i)
    BY <1>10
  <2>2. sub' \in {sub, LeftSubmissions} /\ last' = last /\ page' \in {page, "cart"}
    BY <2>1 DEF LeftAnswered, TakeCart, GoTo, LeavePage, serverVars
  <2>3. SameOrders
    BY <1>0, <2>2, SubFields DEF SameOrders
  <2> QED
    BY <1>s, <2>3
<1>11. CASE BackToCart
  <2>1. sub' = LeftSubmissions /\ last' = last /\ page' = "cart"
    BY <1>11 DEF BackToCart, GoTo, LeavePage, serverVars
  <2>2. SameOrders
    BY <1>0, <2>1, SubFields DEF SameOrders
  <2> QED
    BY <1>s, <2>2
<1>12. CASE \E k \in Submits : Refuse(k)
  <2>1. PICK k \in Submits : Refuse(k)
    BY <1>12
  <2>2. Settled(k, 0) /\ sub[k].at # "done"
    BY <2>1 DEF Refuse, AnswerOrder, Settled, serverVars, clientVars
  <2> QED
    BY <1>t, <2>1, <2>2
<1>13. CASE \E k \in Submits : CartLoaded(k)
  <2>1. PICK k \in Submits : CartLoaded(k)
    BY <1>13
  <2>2. CASE ~rows
    <3>1. Settled(k, 0) /\ sub[k].at # "done"
      BY <2>1, <2>2 DEF CartLoaded, AnswerOrder, Settled, serverVars, clientVars
    <3> QED
      BY <1>t, <2>1, <3>1
  <2>3. CASE rows
    <3>1. /\ sub' = [sub EXCEPT ![k].at = "loaded"] /\ sub[k].at = "sent"
          /\ last' = last /\ page' = page
      BY <2>1, <2>3 DEF CartLoaded, serverVars, clientVars
    <3>2. ~sub[k].made
      BY <1>0, <2>1, <3>1 DEF OrderInv
    <3>3. /\ \A j \in Submits : j # k => sub'[j] = sub[j]
          /\ ~sub'[k].made /\ sub'[k].known = sub[k].known /\ sub'[k].order = sub[k].order
          /\ sub'[k].at = "loaded"
      BY <1>0, <2>1, <3>1, <3>2 DEF SubOK, Submission
    <3>4. Orders' = Orders
      BY <3>2, <3>3 DEF Orders
    <3>5. last # 0 => last \in Submits
      BY <1>0, BoundAssumption DEF Submits
    <3>6. last' # 0 => sub'[last'].made
      BY <1>0, <3>1, <3>2, <3>3, <3>5 DEF OrderInv
    <3> QED
      BY <1>0, <3>1, <3>3, <3>4, <3>6 DEF OrderInv, OneAtMost
  <2> QED
    BY <2>2, <2>3
<1>14. CASE \E k \in Submits : Look(k)
  <2>1. PICK k \in Submits : Look(k)
    BY <1>14
  <2>2. CASE last # 0
    <3>1. last \in Submits
      BY <1>0, <2>2, BoundAssumption DEF Submits
    <3>2. Orders # {}
      BY <1>0, <2>2, <3>1 DEF OrderInv, Orders
    <3>3. Settled(k, last) /\ sub[k].at # "done"
      BY <2>1, <2>2, <3>2 DEF Look, AnswerOrder, Settled, serverVars, clientVars
    <3> QED
      BY <1>t, <2>1, <3>3
  <2>3. CASE last = 0
    <3>1. /\ sub' = [sub EXCEPT ![k].at = "looked", ![k].known = Orders]
          /\ sub[k].at = "loaded" /\ last' = 0 /\ page' = page
      BY <2>1, <2>3 DEF Look, serverVars, clientVars
    <3>2. ~sub[k].made
      BY <1>0, <2>1, <3>1 DEF OrderInv
    <3>3. sub' = [sub EXCEPT ![k] = [sub[k] EXCEPT !.at = "looked", !.known = Orders]]
      BY <1>0, <2>1, <3>1
    <3>4. /\ \A j \in Submits : j # k => sub'[j] = sub[j]
          /\ ~sub'[k].made /\ sub'[k].known = Orders /\ sub'[k].order = sub[k].order
      BY <1>0, <2>1, <3>2, <3>3 DEF SubOK, Submission
    <3>5. Orders' = Orders
      BY <3>2, <3>4 DEF Orders
    <3> QED
      BY <1>0, <3>1, <3>4, <3>5 DEF OrderInv, OneAtMost
  <2> QED
    BY <2>2, <2>3
<1>15. CASE \E k \in Submits : CreateOrder(k)
  <2>1. PICK k \in Submits : CreateOrder(k)
    BY <1>15
  <2>2. PICK o \in {0, k} : sub' = [sub EXCEPT ![k] = [Answered(k, o) EXCEPT !.made = TRUE]]
    BY <2>1 DEF CreateOrder
  <2>3. sub[k].at = "looked" /\ last' = k /\ page' = page
    BY <2>1 DEF CreateOrder, clientVars
  <2>4. ~sub[k].made /\ k \notin Orders
    BY <1>0, <2>1, <2>3 DEF OrderInv, Orders
  <2>5. /\ \A j \in Submits : j # k => sub'[j] = sub[j]
        /\ sub'[k].made /\ sub'[k].known = {} /\ sub'[k].at = "done"
    <3>1. Answered(k, o) \in Submission
      BY <1>0, <2>1, <2>2, AnsweredType, BoundAssumption DEF Submits
    <3>2. Answered(k, o).known = {} /\ Answered(k, o).at = "done"
      BY <1>0, <2>1, SubFields
    <3> QED
      BY <1>0, <2>1, <2>2, <3>1, <3>2 DEF Submission
  <2>6. Orders' = Orders \union {k}
    BY <2>1, <2>4, <2>5 DEF Orders
  <2>7. \A j \in Submits :
         /\ sub'[j].made => sub'[j].at = "done"
         /\ sub'[j].known \subseteq Orders
         /\ k \notin sub'[j].known
    BY <1>0, <2>4, <2>5 DEF OrderInv
  <2> QED
    BY <2>1, <2>3, <2>5, <2>6, <2>7 DEF OrderInv, OneAtMost
<1>16. CASE PlaceOrder
  <2>1. sent < MaxOrders /\ last' = last /\ page' = page
    BY <1>16 DEF PlaceOrder, serverVars
  <2>2. sent + 1 \in Submits /\ sent + 1 > sent
    BY <1>0, <2>1, BoundAssumption DEF Submits
  <2>3. ~sub[sent + 1].made
    BY <1>0, <2>2 DEF OrderInv
  <2>4. /\ \A j \in Submits : j # sent + 1 => sub'[j] = sub[j]
        /\ ~sub'[sent + 1].made /\ sub'[sent + 1].known = {} /\ sub'[sent + 1].order = 0
        /\ sub'[sent + 1].at = "sent"
    BY <1>0, <2>2, <1>16 DEF PlaceOrder, NoSubmission
  <2>5. Orders' = Orders
    BY <2>3, <2>4 DEF Orders
  <2>6. last # 0 => last \in Submits
    BY <1>0, BoundAssumption DEF Submits
  <2>7. last' # 0 => sub'[last'].made
    BY <1>0, <2>1, <2>3, <2>4, <2>6 DEF OrderInv
  <2>8. ASSUME NEW j \in Submits
        PROVE  /\ sub'[j].made => sub'[j].at = "done"
               /\ sub'[j].order # 0 => Orders # {}
               /\ sub'[j].known \subseteq Orders
               /\ sub'[j].at = "looked" /\ last' # 0 => last' \notin sub'[j].known
    <3>1. CASE j = sent + 1
      BY <2>4, <3>1
    <3>2. CASE j # sent + 1
      BY <1>0, <2>1, <2>4, <3>2 DEF OrderInv
    <3> QED
      BY <3>1, <3>2
  <2>9. page' = "provider" => Orders # {}
    BY <1>0, <2>1 DEF OrderInv
  <2> QED
    BY <2>5, <2>7, <2>8, <2>9 DEF OrderInv, OneAtMost
<1>17. CASE \/ \E i \in Calls : CartRead(i)
            \/ \E i \in Calls : CartWritten(i)
            \/ \E i \in Calls : CallFails(i)
            \/ \E i \in Calls : StoreTimerFires(i)
            \/ \E i \in Calls : ClearCart(i)
            \/ \E i \in Calls : ShowPage(i)
            \/ \E i \in Calls : StoreAnswered(i)
            \/ \E i \in Calls : Unheard(i)
            \/ \E i \in Calls : EnterCheckout(i)
            \/ \E i \in Calls : Retry(i)
            \/ \E i \in Calls : PlaceTooEarly(i)
            \/ \E i \in Calls : Quote(i)
            \/ \E i \in Calls : Paid(i)
            \/ Edit
            \/ OpenCheckout
            \/ NotPaid
            \/ \E m \in Methods : SetMethod(m)
            \/ UNCHANGED vars
  <2>1. sub' = sub /\ last' \in {0, last} /\ (page' = page \/ page' \in Pages \ {"provider"})
    BY <1>17 DEF CartRead, CartWritten, CallFails, StoreTimerFires, ClearCart, ShowPage, StoreAnswered, Unheard, EnterCheckout, Retry, PlaceTooEarly, Quote, Paid, Edit, OpenCheckout, NotPaid, SetMethod, GoTo, Pages, vars, clientVars, serverVars, orderVars
  <2>2. SameOrders
    BY <2>1 DEF SameOrders, Pages
  <2> QED
    BY <1>s, <2>2
<1> QED
  BY <1>1, <1>2, <1>3, <1>4, <1>5, <1>6, <1>7, <1>8, <1>9, <1>10, <1>11, <1>12, <1>13, <1>14, <1>15, <1>16, <1>17 DEF Next

-----------------------------------------------------------------------------
(* The cart.                                                                *)

\* Once there is an order, or the customer emptied the cart, that stays so; before,
\* no request under way carries or answers an empty cart.
LEMMA CartStep == ASSUME IInv, [Next]_vars PROVE CartInv'
<1>0. /\ CartInv /\ OrderInv /\ SubOK /\ call \in [Calls -> CartCall] /\ DOMAIN call = Calls
      /\ Orders \subseteq Orders'
  BY OrderStep DEF IInv, TypeOK, SubOK, OneAtMost
<1>1. cleared => cleared'
  BY DEF Next, vars, clientVars, serverVars, orderVars, CartRead, CartWritten, CallFails,
     StoreTimerFires, ClearCart, ShowPage, StoreAnswered, Unheard, EnterCheckout, Retry,
     PlaceTooEarly, Quote, PageAnswered, QuoteAnswered, LeftAnswered, Paid, Edit, OpenCheckout,
     BackToCart, PlaceOrder, NotPaid, SetMethod, CartLoaded, Look, CreateOrder, Refuse,
     PlacedCard, NotPlaced, TimeOut, LeftPlacedCard, LeftNotPlaced, PlacedCod, LeftPlacedCod,
     Succeed, Redirect
<1>2. Emptied => Emptied'
  BY <1>0, <1>1 DEF Emptied
<1>3. SUFFICES ASSUME ~Emptied PROVE Emptied' \/ CartKept'
  BY <1>2 DEF CartInv, CartKept
<1>4. /\ CartKept /\ page # "provider"
      /\ \A k \in Submits : sub[k].order = 0
  BY <1>0, <1>3 DEF CartInv, CartKept, Emptied, OrderInv
<1>5. /\ items /\ rows
      /\ \A i \in Calls : /\ call[i].at = "read" => call[i].kind = "sync"
                          /\ call[i].kind = "sync" => call[i].full
                          /\ call[i].answer # "empty"
                          /\ call[i].at = "done" /\ call[i].by # "nobody" => call[i].answer # "none"
  BY <1>4 DEF CartKept, CallKept
<1>k. \A i \in Calls : CallKept(call[i])
  BY <1>4 DEF CartKept
<1>6. \A i \in Calls : CallKept(LeftCalls[i])
  BY <1>0, <1>k DEF CallKept, LeftCalls, CartCall
<1>7. /\ CallKept(Idle) /\ CallKept(Sync("store", TRUE)) /\ CallKept(Sync("page", TRUE))
      /\ CallKept(Load("store")) /\ CallKept(Load("page")) /\ CallKept(Load("quote"))
  BY DEF CallKept, Idle, Sync, Load
<1>8. DOMAIN LeftCalls = Calls
  BY DEF LeftCalls
<1>9. ASSUME NEW i \in Calls, NEW c, CallKept(c), items' = items, rows' = rows,
             call' \in {[call EXCEPT ![i] = c], [LeftCalls EXCEPT ![i] = c], LeftCalls, call}
      PROVE  CartKept'
  BY <1>0, <1>5, <1>6, <1>8, <1>9, <1>k DEF CartKept
<1>10. CASE \E i \in Calls : CartRead(i)
  <2>1. PICK i \in Calls : CartRead(i)
    BY <1>10
  <2>2. call[i].at = "sent" /\ items' = items /\ rows' = rows
    BY <2>1 DEF CartRead, clientVars, serverVars
  <2>3. CASE call[i].kind = "load"
    <3>1. call' = [call EXCEPT ![i] = [@ EXCEPT !.at = "done", !.answer = "items"]]
      BY <1>5, <2>1, <2>3 DEF CartRead
    <3>2. CallKept([call[i] EXCEPT !.at = "done", !.answer = "items"])
      BY <1>0, <1>5, <2>1, <2>3 DEF CallKept, CartCall
    <3> QED
      BY <1>9, <2>1, <2>2, <3>1, <3>2
  <2>4. CASE call[i].kind # "load"
    <3>1. call' = [call EXCEPT ![i] = [@ EXCEPT !.at = "read", !.saw = (last # 0)]]
      BY <2>1, <2>4 DEF CartRead
    <3>2. call[i].kind = "sync"
      BY <1>0, <2>1, <2>4 DEF CartCall
    <3>3. CallKept([call[i] EXCEPT !.at = "read", !.saw = (last # 0)])
      BY <1>0, <1>5, <2>1, <3>2 DEF CallKept, CartCall
    <3> QED
      BY <1>9, <2>1, <2>2, <3>1, <3>3
  <2> QED
    BY <2>3, <2>4
<1>11. CASE \E i \in Calls : CartWritten(i)
  <2>1. PICK i \in Calls : CartWritten(i)
    BY <1>11
  <2>2. call[i].full
    BY <1>5, <2>1 DEF CartWritten
  <2>3. rows' = TRUE /\ items' = items
    BY <2>1, <2>2 DEF CartWritten, clientVars
  <2>4. \A j \in Calls :
          \/ j = i /\ call'[j] = [call[i] EXCEPT !.at = "done", !.saw = FALSE, !.late = FALSE,
                                              !.answer = "items"]
          \/ call'[j] = call[j]
    BY <1>5, <2>1, <2>2, <2>3 DEF CartWritten
  <2>5. CallKept([call[i] EXCEPT !.at = "done", !.saw = FALSE, !.late = FALSE, !.answer = "items"])
    BY <1>0, <1>5, <2>1 DEF CallKept, CartCall
  <2> QED
    BY <1>5, <1>k, <2>3, <2>4, <2>5 DEF CartKept
<1>12. CASE \E i \in Calls : CallFails(i)
  <2>1. PICK i \in Calls : CallFails(i)
    BY <1>12
  <2>2. CallKept([call[i] EXCEPT !.at = "done", !.saw = FALSE, !.late = FALSE, !.answer = "failed"])
    BY <1>0, <1>5, <2>1 DEF CallKept, CartCall
  <2> QED
    BY <1>9, <2>1, <2>2 DEF CallFails, clientVars, serverVars
<1>13. CASE \E i \in Calls : StoreTimerFires(i)
  <2>1. PICK i \in Calls : StoreTimerFires(i)
    BY <1>13
  <2>2. call' = [call EXCEPT ![i] = Sync("store", items)] /\ items' = items /\ rows' = rows
    BY <2>1 DEF StoreTimerFires, Ask, serverVars
  <2>3. CallKept(Sync("store", items))
    BY <1>5 DEF CallKept, Sync, Idle
  <2> QED
    BY <1>9, <2>1, <2>2, <2>3
<1>14. CASE \E i \in Calls : ClearCart(i)
  BY <1>14 DEF ClearCart, Emptied
<1>15. CASE \E i \in Calls : ShowPage(i)
  <2>1. PICK i \in Calls : ShowPage(i)
    BY <1>15
  <2>2. /\ call' \in {[call EXCEPT ![i] = Load("store")]}
        /\ items' = items /\ rows' = rows
    BY <1>5, <2>1 DEF ShowPage, Ask, clientVars, serverVars
  <2> QED
    BY <1>7, <1>9, <2>1, <2>2
<1>16. CASE \E i \in Calls : Unheard(i)
  <2>1. PICK i \in Calls : Unheard(i)
    BY <1>16
  <2>2. /\ call' \in {[call EXCEPT ![i] = Idle]}
        /\ items' = items /\ rows' = rows
    BY <1>5, <2>1 DEF Unheard, Free, clientVars, serverVars
  <2> QED
    BY <1>7, <1>9, <2>1, <2>2
<1>17. CASE \E i \in Calls : EnterCheckout(i)
  <2>1. PICK i \in Calls : EnterCheckout(i)
    BY <1>17
  <2>2. /\ call' \in {[call EXCEPT ![i] = Sync("page", TRUE)]}
        /\ items' = items /\ rows' = rows
    BY <1>5, <2>1 DEF EnterCheckout, Ask, clientVars, serverVars
  <2> QED
    BY <1>7, <1>9, <2>1, <2>2
<1>18. CASE \E i \in Calls : Retry(i)
  <2>1. PICK i \in Calls : Retry(i)
    BY <1>18
  <2>2. /\ call' \in {[call EXCEPT ![i] = Sync("page", TRUE)]}
        /\ items' = items /\ rows' = rows
    BY <1>5, <2>1 DEF Retry, Resync, Ask, clientVars, serverVars
  <2> QED
    BY <1>7, <1>9, <2>1, <2>2
<1>19. CASE \E i \in Calls : PlaceTooEarly(i)
  <2>1. PICK i \in Calls : PlaceTooEarly(i)
    BY <1>19
  <2>2. /\ call' \in {[call EXCEPT ![i] = Sync("page", TRUE)]}
        /\ items' = items /\ rows' = rows
    BY <1>5, <2>1 DEF PlaceTooEarly, Resync, Ask, clientVars, serverVars
  <2> QED
    BY <1>7, <1>9, <2>1, <2>2
<1>20. CASE \E i \in Calls : Quote(i)
  <2>1. PICK i \in Calls : Quote(i)
    BY <1>20
  <2>2. /\ call' \in {[call EXCEPT ![i] = Load("quote")]}
        /\ items' = items /\ rows' = rows
    BY <1>5, <2>1 DEF Quote, Ask, clientVars, serverVars
  <2> QED
    BY <1>7, <1>9, <2>1, <2>2
<1>21. CASE \E i \in Calls : StoreAnswered(i)
  <2>1. PICK i \in Calls : StoreAnswered(i)
    BY <1>21
  <2>2. call[i].answer \in {"failed", "items"}
    <3>1. call[i].answer \in {"none", "items", "empty", "failed"}
      BY <1>0, <2>1 DEF CartCall
    <3>2. call[i].answer # "none" /\ call[i].answer # "empty"
      BY <1>5, <2>1 DEF StoreAnswered
    <3> QED
      BY <3>1, <3>2
  <2>3. /\ call' \in {[call EXCEPT ![i] = Idle], [call EXCEPT ![i] = Load("quote")]}
        /\ items' = items /\ rows' = rows
    BY <1>5, <2>1, <2>2 DEF StoreAnswered, Free, serverVars
  <2> QED
    BY <1>7, <1>9, <2>1, <2>3
<1>22. CASE \E i \in Calls : PageAnswered(i)
  <2>1. PICK i \in Calls : PageAnswered(i)
    BY <1>22
  <2>2. call[i].answer \in {"failed", "items"}
    <3>1. call[i].answer \in {"none", "items", "empty", "failed"}
      BY <1>0, <2>1 DEF CartCall
    <3>2. call[i].answer # "none" /\ call[i].answer # "empty"
      BY <1>5, <2>1 DEF PageAnswered
    <3> QED
      BY <3>1, <3>2
  <2>3. /\ call' \in {[call EXCEPT ![i] = Idle], [call EXCEPT ![i] = Load("quote")]}
        /\ items' = items /\ rows' = rows
    BY <1>5, <2>1, <2>2 DEF PageAnswered, TakeCart, Free, serverVars
  <2> QED
    BY <1>7, <1>9, <2>1, <2>3
<1>23. CASE \E i \in Calls : QuoteAnswered(i)
  <2>1. PICK i \in Calls : QuoteAnswered(i)
    BY <1>23
  <2>2. call[i].answer \in {"failed", "items"}
    <3>1. call[i].answer \in {"none", "items", "empty", "failed"}
      BY <1>0, <2>1 DEF CartCall
    <3>2. call[i].answer # "none" /\ call[i].answer # "empty"
      BY <1>5, <2>1 DEF QuoteAnswered
    <3> QED
      BY <3>1, <3>2
  <2>3. /\ call' \in {[call EXCEPT ![i] = Idle], [call EXCEPT ![i] = Load("quote")]}
        /\ items' = items /\ rows' = rows
    BY <1>5, <2>1, <2>2 DEF QuoteAnswered, TakeCart, Free, serverVars
  <2> QED
    BY <1>7, <1>9, <2>1, <2>3
<1>24. CASE \E i \in Calls : LeftAnswered(i)
  <2>1. PICK i \in Calls : LeftAnswered(i)
    BY <1>24
  <2>2. call[i].answer \in {"failed", "items"}
    <3>1. call[i].answer \in {"none", "items", "empty", "failed"}
      BY <1>0, <2>1 DEF CartCall
    <3>2. call[i].answer # "none" /\ call[i].answer # "empty"
      BY <1>5, <2>1 DEF LeftAnswered
    <3> QED
      BY <3>1, <3>2
  <2>3. /\ call' \in {[call EXCEPT ![i] = Idle], [call EXCEPT ![i] = Load("quote")]}
        /\ items' = items /\ rows' = rows
    BY <1>5, <2>1, <2>2 DEF LeftAnswered, TakeCart, Free, serverVars
  <2> QED
    BY <1>7, <1>9, <2>1, <2>3
<1>25. CASE \E i \in Calls : Paid(i)
  BY <1>4, <1>25 DEF Paid
<1>26. CASE \E k \in Submits : PlacedCard(k)
  BY <1>4, <1>26 DEF PlacedCard
<1>27. CASE \E k \in Submits : LeftPlacedCard(k)
  BY <1>4, <1>27 DEF LeftPlacedCard
<1>28. CASE \E k \in Submits, i \in Calls : PlacedCod(k, i)
  BY <1>4, <1>28 DEF PlacedCod
<1>29. CASE \E k \in Submits, i \in Calls : LeftPlacedCod(k, i)
  BY <1>4, <1>29 DEF LeftPlacedCod
<1>30. CASE NotPaid
  BY <1>4, <1>30 DEF NotPaid
<1>31. CASE BackToCart
  <2>1. call' = LeftCalls /\ items' = items /\ rows' = rows
    BY <1>31 DEF BackToCart, serverVars
  <2> QED
    BY <1>5, <1>6, <2>1 DEF CartKept
<1>32. CASE \/ Edit
            \/ OpenCheckout
            \/ PlaceOrder
            \/ \E m \in Methods : SetMethod(m)
            \/ \E k \in Submits : CartLoaded(k)
            \/ \E k \in Submits : Look(k)
            \/ \E k \in Submits : CreateOrder(k)
            \/ \E k \in Submits : Refuse(k)
            \/ \E k \in Submits : NotPlaced(k)
            \/ \E k \in Submits : TimeOut(k)
            \/ \E k \in Submits : LeftNotPlaced(k)
            \/ UNCHANGED vars
  <2>1. call' = call /\ items' = items /\ rows' = rows
    BY <1>32 DEF Edit, OpenCheckout, PlaceOrder, SetMethod, CartLoaded, Look, CreateOrder, Refuse, NotPlaced, TimeOut, LeftNotPlaced, vars, clientVars, serverVars, orderVars
  <2> QED
    BY <1>4, <2>1 DEF CartKept
<1> QED
  BY <1>10, <1>11, <1>12, <1>13, <1>14, <1>15, <1>16, <1>17, <1>18, <1>19, <1>20, <1>21, <1>22, <1>23, <1>24, <1>25, <1>26, <1>27, <1>28, <1>29, <1>30, <1>31, <1>32 DEF Next

-----------------------------------------------------------------------------
(* The invariant and the theorems.                                          *)

\* The invariant holds when the customer looks at the full cart.
LEMMA InitIInv == Init => IInv
<1> SUFFICES ASSUME Init PROVE IInv
  OBVIOUS
<1>1. /\ MaxCalls \in Nat /\ MaxOrders \in Nat /\ MaxEvents \in Nat
      /\ page = "cart" /\ ~arriving /\ items = TRUE /\ rows = TRUE /\ last = 0 /\ sent = 0
      /\ storeTimer = FALSE /\ cleared = FALSE /\ events = 0
      /\ call = [i \in Calls |-> Idle] /\ sub = [k \in Submits |-> NoSubmission]
  BY BoundAssumption DEF Init
<1>2. PICK m \in Methods : co = NewPage(m, 0)
  BY DEF Init
<1>3. Idle \in CartCall /\ NoSubmission \in Submission
  BY <1>1 DEF Idle, CartCall, NoSubmission, Submission, Methods
<1>4. co \in CheckoutPage /\ ~co.error /\ ~co.placing /\ ~co.syncing /\ co.method = m
  BY <1>1, <1>2 DEF NewPage, CheckoutPage
<1>5. Orders = {}
  BY <1>1 DEF Orders, NoSubmission
<1>6. TypeOK
  <2>1. call \in [Calls -> CartCall] /\ sub \in [Submits -> Submission]
    BY <1>1, <1>3
  <2>2. \A k \in Submits : sub[k].at = "none" <=> k > sent
    BY <1>1 DEF Submits, NoSubmission
  <2>3. /\ page \in Pages /\ arriving \in BOOLEAN /\ items \in BOOLEAN /\ storeTimer \in BOOLEAN
        /\ rows \in BOOLEAN /\ cleared \in BOOLEAN
    BY DEF Init, Pages
  <2>4. last \in 0..MaxOrders /\ sent \in 0..MaxOrders /\ events \in 0..MaxEvents
    BY <1>1
  <2> QED
    BY <1>4, <2>1, <2>2, <2>3, <2>4 DEF TypeOK
<1>7. PageInv
  BY <1>1, <1>2, <1>4 DEF PageInv, NoSubmission, Idle
<1>8. OrderInv
  BY <1>1, <1>5 DEF OrderInv, NoSubmission
<1>9. CartInv
  BY <1>1 DEF CartInv, CartKept, CallKept, Idle
<1> QED
  BY <1>6, <1>7, <1>8, <1>9 DEF IInv

\* The invariant holds of every behaviour, for any bounds.
THEOREM Invariance == Spec => []IInv
<1>1. IInv /\ [Next]_vars => IInv'
  BY TypeStep, PageInvStep, OrderStep, CartStep DEF IInv
<1> QED
  BY InitIInv, <1>1, PTL DEF Spec

\* Every state is of the right type, and the page never shows an error beside a sync
\* that is under way, so that no sync is ever queued behind another.
THEOREM TypeCorrect == Spec => []TypeOK
<1>1. IInv => TypeOK
  BY DEF IInv
<1> QED
  BY Invariance, <1>1, PTL

\* Until an order is made or the customer empties the cart, its items are in the store
\* and on the server, whichever cart requests fail or overtake one another.
THEOREM CartIsNotLost == Spec => []CartSurvives
<1>1. IInv => CartSurvives
  BY DEF IInv, CartInv, CartKept, Emptied, CartSurvives
<1> QED
  BY Invariance, <1>1, PTL

\* A submission makes an order of a cart that has one only if it looked at the cart
\* before that order was committed.
THEOREM OnlyOverlapMakesASecond == Spec => SecondOrderOnlyByOverlap
<1> DEFINE NoOther == \A k \in Submits :
             ~sub[k].made /\ sub'[k].made /\ last # 0 => last \notin sub[k].known
<1>1. ASSUME IInv, [Next]_vars PROVE [NoOther]_vars
  <2>0. /\ OrderInv /\ SubOK /\ DOMAIN sub = Submits
    BY <1>1 DEF IInv, TypeOK, SubOK
  <2>1. CASE \E j \in Submits : CreateOrder(j)
    <3>1. PICK j \in Submits : CreateOrder(j)
      BY <2>1
    <3>2. sub[j].at = "looked" /\ \A k \in Submits : k # j => sub'[k] = sub[k]
      BY <2>0, <3>1 DEF CreateOrder
    <3> QED
      BY <2>0, <3>1, <3>2 DEF OrderInv
  <2>2. CASE ~\E j \in Submits : CreateOrder(j)
    <3>1. Orders' = Orders
      BY <1>1, <2>2, OrderStep DEF OneAtMost
    <3> QED
      BY <3>1 DEF Orders
  <2> QED
    BY <2>1, <2>2
<1> QED
  BY Invariance, <1>1, PTL DEF Spec, SecondOrderOnlyByOverlap

-----------------------------------------------------------------------------
(* Both parts together: MCPages, the specification that TLC checks.         *)

Paying == INSTANCE PaymentsProofs WITH req <- handling, page <- returnPage

\* The two instances of Payments are the same formulas.
LEMMA SamePayment ==
  /\ Payment!Init <=> Paying!Init
  /\ Payment!Next <=> Paying!Next
  /\ Payment!vars = Paying!vars
  /\ Payment!vars' = Paying!vars'
  /\ Payment!TypeOK <=> Paying!TypeOK
  /\ Payment!SuccessMeansRecorded <=> Paying!SuccessMeansRecorded
  /\ Payment!ProcessedMeansDone <=> Paying!ProcessedMeansDone
  /\ Payment!RecordedOnce <=> Paying!RecordedOnce
  /\ Payment!PaymentAssumption <=> Paying!PaymentAssumption
<1>1. /\ Payment!SuccessMeansRecorded <=> Paying!SuccessMeansRecorded
      /\ Payment!ProcessedMeansDone <=> Paying!ProcessedMeansDone
      /\ Payment!RecordedOnce <=> Paying!RecordedOnce
      /\ Payment!PaymentAssumption <=> Paying!PaymentAssumption
      /\ Payment!vars = Paying!vars
      /\ Payment!vars' = Paying!vars'
  BY DEF Payment!SuccessMeansRecorded, Paying!SuccessMeansRecorded,
         Payment!ProcessedMeansDone, Paying!ProcessedMeansDone,
         Payment!RecordedOnce, Paying!RecordedOnce, Payment!PaymentAssumption,
         Paying!PaymentAssumption, Payment!IsFiniteSet, Paying!IsFiniteSet,
         Payment!Requests, Paying!Requests, Payment!vars, Paying!vars,
         Payment!orderVars, Paying!orderVars, Payment!pageVars, Paying!pageVars
<1>2. /\ Payment!Requests = Paying!Requests /\ Payment!Statuses = Paying!Statuses
      /\ Payment!Payable = Paying!Payable /\ Payment!Idle = Paying!Idle
      /\ Payment!Request = Paying!Request
  BY DEF Payment!Requests, Paying!Requests, Payment!Statuses, Paying!Statuses,
         Payment!Payable, Paying!Payable, Payment!Idle, Paying!Idle,
         Payment!Request, Paying!Request
<1>3. (Payment!Init <=> Paying!Init) /\ (Payment!TypeOK <=> Paying!TypeOK)
  BY <1>2 DEF Payment!Init, Paying!Init, Payment!TypeOK, Paying!TypeOK,
         Payment!Cardinality, Paying!Cardinality
<1>4. /\ Payment!Pay <=> Paying!Pay
      /\ Payment!ConfirmTimesOut <=> Paying!ConfirmTimesOut
      /\ Payment!LoadExpired <=> Paying!LoadExpired
      /\ Payment!WriteExpired <=> Paying!WriteExpired
  BY <1>2 DEF Payment!Pay, Paying!Pay, Payment!ConfirmTimesOut, Paying!ConfirmTimesOut,
         Payment!LoadExpired, Paying!LoadExpired, Payment!WriteExpired,
         Paying!WriteExpired, Payment!Same, Paying!Same, Payment!orderVars,
         Paying!orderVars, Payment!pageVars, Paying!pageVars, Payment!vars,
         Paying!vars
<1>5. ASSUME NEW r \in Payment!Requests
      PROVE  /\ Payment!Deliver(r) <=> Paying!Deliver(r)
             /\ Payment!LoadEvent(r) <=> Paying!LoadEvent(r)
             /\ Payment!Mark(r) <=> Paying!Mark(r)
             /\ Payment!Return(r) <=> Paying!Return(r)
             /\ Payment!Retry(r) <=> Paying!Retry(r)
             /\ Payment!LoadConfirm(r) <=> Paying!LoadConfirm(r)
             /\ Payment!Answer(r) <=> Paying!Answer(r)
             /\ Payment!Capture(r) <=> Paying!Capture(r)
             /\ Payment!CaptureRefused(r) <=> Paying!CaptureRefused(r)
             /\ Payment!Write(r) <=> Paying!Write(r)
             /\ Payment!Redeem(r) <=> Paying!Redeem(r)
             /\ Payment!Fail(r) <=> Paying!Fail(r)
  BY <1>2 DEF Payment!Deliver, Paying!Deliver, Payment!LoadEvent, Paying!LoadEvent,
         Payment!Mark, Paying!Mark, Payment!Return, Paying!Return, Payment!Retry,
         Paying!Retry, Payment!LoadConfirm, Paying!LoadConfirm, Payment!Answer,
         Paying!Answer, Payment!Capture, Paying!Capture, Payment!CaptureRefused,
         Paying!CaptureRefused, Payment!Write, Paying!Write, Payment!Rewrite,
         Paying!Rewrite, Payment!Redeem, Paying!Redeem, Payment!Fail, Paying!Fail,
         Payment!Lost, Paying!Lost, Payment!LoadOrder, Paying!LoadOrder,
         Payment!Confirm, Paying!Confirm, Payment!GoOn, Paying!GoOn, Payment!End,
         Paying!End, Payment!Same, Paying!Same, Payment!orderVars, Paying!orderVars,
         Payment!pageVars, Paying!pageVars, Payment!vars, Paying!vars
<1> QED
  BY <1>1, <1>2, <1>3, <1>4, <1>5
  DEF Payment!Next, Paying!Next, Payment!Requests, Paying!Requests

\* A behaviour of MCPages is one of Checkout and one of Payments.
THEOREM PartsAreSpecs == MCSpec => Spec /\ Paying!Spec
<1>1. MCInit => Init /\ Paying!Init
  BY SamePayment DEF MCInit
<1>2. UNCHANGED paymentVars <=> UNCHANGED Payment!vars
  BY DEF paymentVars, Payment!vars, Payment!orderVars, Payment!pageVars
<1>3. [MCNext]_allVars => [Next]_vars /\ [Payment!Next]_(Payment!vars)
  BY <1>2 DEF MCNext, allVars, OnlyCheckout, OnlyPayment
<1>4. [Payment!Next]_(Payment!vars) => [Paying!Next]_(Paying!vars)
  BY SamePayment
<1> QED
  BY <1>1, <1>3, <1>4, PTL DEF MCSpec, Spec, Paying!Spec

\* The types of Payments, of the run: among them, that the captures are no more than
\* the requests that may be under way at once.
THEOREM PaymentTypeCorrect == MCSpec => []PaymentTypeOK
<1>1. Paying!Spec => []Paying!TypeOK
  BY Paying!TypeCorrect, PaymentBounds, SamePayment
<1>2. Paying!TypeOK => PaymentTypeOK
  BY SamePayment DEF PaymentTypeOK
<1> QED
  BY <1>1, <1>2, PartsAreSpecs, PTL

\* SuccessMeansRecorded of the run: the success page is shown for a payment that the
\* provider has and the order records.
THEOREM SuccessOnPages == MCSpec => []SuccessMeansRecorded
<1>1. Paying!Spec => []Paying!SuccessMeansRecorded
  BY Paying!SuccessIsTrue, PaymentBounds, SamePayment
<1>2. Paying!SuccessMeansRecorded => SuccessMeansRecorded
  BY SamePayment DEF SuccessMeansRecorded
<1> QED
  BY <1>1, <1>2, PartsAreSpecs, PTL

\* ProcessedMeansDone of the run: an event that is processed has done its work.
THEOREM ProcessedOnPages == MCSpec => []ProcessedMeansDone
<1>1. Paying!Spec => []Paying!ProcessedMeansDone
  BY Paying!ProcessedIsDone, PaymentBounds, SamePayment
<1>2. Paying!ProcessedMeansDone => ProcessedMeansDone
  BY SamePayment DEF ProcessedMeansDone
<1> QED
  BY <1>1, <1>2, PartsAreSpecs, PTL

\* RecordedOnce of the run: PayPal records a payment once, and Stripe does unless two
\* requests overlap.
THEOREM RecordedOnceOnPages == MCSpec => []RecordedOnce
<1>1. Paying!Spec => []Paying!RecordedOnce
  BY Paying!OneCapture, PaymentBounds, SamePayment
<1>2. Paying!RecordedOnce => RecordedOnce
  BY SamePayment DEF RecordedOnce
<1> QED
  BY <1>1, <1>2, PartsAreSpecs, PTL

=============================================================================
