------------------------------ MODULE Checkout ------------------------------
(***************************************************************************)
(* A signed-in customer with one tab takes a cart through the checkout.    *)
(*                                                                         *)
(* The cart is kept three times: by the cart store of the application,     *)
(* which the cart page edits (core/cart.store.ts), by the server, and, as  *)
(* prices and totals, by the checkout page.  The store and the page send   *)
(* the whole cart (/cart/sync) or fetch it (/cart) and take whatever is    *)
(* answered, in whatever order.  Placing an order (/orders/checkout) is    *)
(* guarded against a second order by a pointer in the row of the cart,     *)
(* last_order_id; a cart that is written forgets it.                       *)
(*                                                                         *)
(* A cart is empty or is not: quantities, prices and what is wrong with an *)
(* address do not matter to when an order is created.  A timer of 0 ms is  *)
(* not a step: it fires before the customer does anything else.  Left out: *)
(* guests, shopping again after an order, coupons other than the request   *)
(* for a quote they cause, Netopia's deferred payment link.                *)
(***************************************************************************)
EXTENDS Integers

CONSTANTS
  MaxCalls,     \* bound on the cart requests under way at the same time
  MaxOrders,    \* bound on the orders submitted
  MaxEvents     \* bound on what a straight checkout does without: edits, quotes,
                \* changes of the method, a way back, failures of a cart request

ASSUME BoundAssumption ==
  MaxCalls \in Nat /\ MaxOrders \in Nat /\ MaxEvents \in Nat

VARIABLES
  page,         \* where the customer is
  arriving,     \* ... and whether the page has yet to run its ngOnInit
  items,        \* the store has items
  storeTimer,   \* syncTimeoutId of the store is set
  co,           \* the fields of the checkout page
  call,         \* the cart requests under way
  rows,         \* the cart of the server has items
  last,         \* last_order_id of the cart of the server, 0 is none
  sent,         \* how many orders were submitted
  sub,          \* the submissions; an order has the number of its submission
  cleared,      \* the customer has emptied the cart (history)
  events        \* how many events, of those MaxEvents bounds

clientVars == <<page, arriving, items, storeTimer, co>>
serverVars == <<rows, last>>
orderVars  == <<sent, sub>>
vars == <<clientVars, call, serverVars, orderVars, cleared, events>>

Calls   == 1..MaxCalls
Submits == 1..MaxOrders
Methods == {"cod", "card"}
Pages   == {"cart", "checkout", "provider", "success"}

\* The fields syncing (or syncQueued, see above), pricesRefreshed, placing,
\* errorMessage and paymentMethod of the checkout page.
CheckoutPage == [syncing : BOOLEAN, fresh : BOOLEAN, placing : BOOLEAN,
                 error : BOOLEAN, method : Methods,
                 since : 0..MaxOrders]    \* the submissions before this visit

\* by: who takes the answer, the store, the page for a sync or its first load, the
\* page for a quote, a checkout page since left, or nobody.
CartCall == [kind : {"sync", "load"}, by : {"store", "page", "quote", "left", "nobody"},
             full : BOOLEAN,      \* the sync carries items
             at : {"sent", "read", "done"},
             saw : BOOLEAN,       \* the sync has read a pointer
             late : BOOLEAN,      \* rows were inserted after it has read the cart
             answer : {"none", "items", "empty", "failed"}]
Idle == [kind |-> "load", by |-> "nobody", full |-> FALSE, at |-> "done",
         saw |-> FALSE, late |-> FALSE, answer |-> "none"]

Submission ==
  [at : {"none", "sent", "loaded", "looked", "done"},
   client : {"none", "waiting", "left"},     \* who waits for the answer
   again : BOOLEAN,                          \* an order had been made in this visit
   method : Methods,                         \* the payment method that was sent
   chosen : Methods,                         \* ... and shown when the page was left
   made : BOOLEAN,                           \* it has created an order
   order : 0..MaxOrders,                     \* the order of the answer, 0 a refusal
   known : SUBSET Submits]                   \* the orders when it has looked

NoSubmission == [at |-> "none", client |-> "none", again |-> FALSE, method |-> "cod",
                 chosen |-> "cod", made |-> FALSE, order |-> 0, known |-> {}]

TypeOK ==
  /\ page \in Pages /\ arriving \in BOOLEAN
  /\ items \in BOOLEAN /\ storeTimer \in BOOLEAN
  /\ co \in CheckoutPage
  /\ call \in [Calls -> CartCall]
  /\ rows \in BOOLEAN /\ last \in 0..MaxOrders
  /\ sent \in 0..MaxOrders
  /\ sub \in [Submits -> Submission]
  /\ \A k \in Submits : sub[k].at = "none" <=> k > sent
  /\ cleared \in BOOLEAN /\ events \in 0..MaxEvents
  \* Retry is offered only while no sync is under way, so that queueCartSync() never
  \* has to keep one (queuedSyncItems) until the other is answered.
  /\ co.error => ~co.syncing

NewPage(method, n) == [syncing |-> FALSE, fresh |-> FALSE, placing |-> FALSE,
                       error |-> FALSE, method |-> method, since |-> n]

\* The customer looks at a cart with items.
Init ==
  /\ page = "cart" /\ arriving = FALSE
  /\ items = TRUE /\ storeTimer = FALSE
  /\ co \in {NewPage(m, 0) : m \in Methods}     \* defaultPaymentMethod()
  /\ call = [i \in Calls |-> Idle]
  /\ rows = TRUE /\ last = 0
  /\ sent = 0
  /\ sub = [k \in Submits |-> NoSubmission]
  /\ cleared = FALSE /\ events = 0

-----------------------------------------------------------------------------
(* Cart requests.                                                           *)

Sync(who, full) == [Idle EXCEPT !.kind = "sync", !.by = who, !.full = full, !.at = "sent"]
Load(who)       == [Idle EXCEPT !.by = who, !.at = "sent"]

Event == events < MaxEvents /\ events' = events + 1

Room(i) == call[i] = Idle /\ \A j \in Calls : call[j] = Idle => j >= i

Ask(i, c) == Room(i) /\ call' = [call EXCEPT ![i] = c]

\* What the checkout page waits for when it is left is answered all the same.
LeftCalls ==
  [i \in Calls |-> IF call[i].by \in {"page", "quote"} THEN [call[i] EXCEPT !.by = "left"]
                   ELSE call[i]]

\* ... unless the whole application is unloaded.
UnloadedCalls == [i \in Calls |-> [call[i] EXCEPT !.by = "nobody"]]

\* sync_cart and get_cart load the cart.  A fetch is answered at once.
CartRead(i) ==
  /\ call[i].at = "sent"
  /\ call' = [call EXCEPT ![i] =
       IF @.kind = "load" THEN [@ EXCEPT !.at = "done", !.answer = IF rows THEN "items" ELSE "empty"]
       ELSE [@ EXCEPT !.at = "read", !.saw = (last # 0)]]
  /\ UNCHANGED <<clientVars, serverVars, orderVars, cleared, events>>

\* sync_cart deletes the rows it has read, inserts its own, and commits.  The
\* pointer is reset when there was one to reset; a pointer set since is not seen.
\* The answer shows the rows of the request, or all there are.
CartWritten(i) ==
  LET c == call[i] IN
  /\ c.at = "read"
  /\ last' = IF c.saw THEN 0 ELSE last
  /\ rows' \in IF c.full THEN {TRUE} ELSE {FALSE, c.late}
  /\ \E shown \in {c.full, rows'} :
       call' = [j \in Calls |->
         IF j = i THEN [c EXCEPT !.at = "done", !.saw = FALSE, !.late = FALSE,
                                 !.answer = IF shown THEN "items" ELSE "empty"]
         ELSE IF call[j].at = "read" /\ c.full /\ ~call[j].full THEN [call[j] EXCEPT !.late = TRUE]
         ELSE call[j]]
  /\ UNCHANGED <<clientVars, orderVars, cleared, events>>

\* Slip: the rows are deleted in a transaction of their own.
CallFailsHalfway(i) ==
  /\ Event
  /\ call[i] # Idle /\ call[i].answer # "failed"
  /\ rows' = IF call[i].at = "read" THEN FALSE ELSE rows
  /\ call' = [call EXCEPT ![i] = [@ EXCEPT !.at = "done", !.saw = FALSE, !.late = FALSE,
                                              !.answer = "failed"]]
  /\ UNCHANGED <<clientVars, last, orderVars, cleared>>

\* The server or the connection fails, before or after the cart is written.
CallFails(i) ==
  /\ Event
  /\ call[i] # Idle /\ call[i].answer # "failed"
  /\ call' = [call EXCEPT ![i] = [@ EXCEPT !.at = "done", !.saw = FALSE, !.late = FALSE,
                                              !.answer = "failed"]]
  /\ UNCHANGED <<clientVars, serverVars, orderVars, cleared>>

Free(i) == call' = [call EXCEPT ![i] = Idle]

-----------------------------------------------------------------------------
(* The cart page and the store.                                             *)

Arrived == ~arriving
GoTo(p) == page' = p /\ arriving' = TRUE

\* updateQuantity(): the store sends the cart when nothing changed for 350 ms.
Edit ==
  /\ Event
  /\ page = "cart" /\ Arrived /\ items
  /\ storeTimer' = TRUE
  /\ UNCHANGED <<page, arriving, items, co, call, serverVars, orderVars, cleared>>

\* syncBackend(), wherever the customer is by now.
StoreTimerFires(i) ==
  /\ storeTimer
  /\ storeTimer' = FALSE
  /\ Ask(i, Sync("store", items))
  /\ UNCHANGED <<page, arriving, items, co, serverVars, orderVars, cleared, events>>

\* clear(), asked for on the cart page.
ClearCart(i) ==
  /\ Event
  /\ page = "cart" /\ Arrived /\ items
  /\ items' = FALSE
  /\ cleared' = TRUE
  /\ Ask(i, Sync("store", FALSE))
  /\ UNCHANGED <<page, arriving, storeTimer, co, serverVars, orderVars>>

\* The ngOnInit of the cart page and the constructor of the success page:
\* loadFromBackend().
ShowPage(i) ==
  /\ arriving /\ page \in {"cart", "success"}
  /\ arriving' = FALSE
  /\ Ask(i, Load("store"))
  /\ UNCHANGED <<page, items, storeTimer, co, serverVars, orderVars, cleared, events>>

\* The store takes the answer to a sync or a fetch, or keeps what it has.
StoreAnswered(i) ==
  /\ call[i].at = "done" /\ call[i].by = "store"
  /\ items' = IF call[i].answer = "failed" THEN items ELSE call[i].answer = "items"
  /\ Free(i)
  /\ UNCHANGED <<page, arriving, storeTimer, co, serverVars, orderVars, cleared, events>>

Unheard(i) ==
  /\ call[i].at = "done" /\ call[i].by = "nobody" /\ call[i] # Idle
  /\ Free(i)
  /\ UNCHANGED <<clientVars, serverVars, orderVars, cleared, events>>

-----------------------------------------------------------------------------
(* The checkout page.                                                       *)

OnCheckout == page = "checkout" /\ Arrived

\* Who waits for an order on a page that is left goes on waiting.
LeftSubmissions ==
  [k \in Submits |-> IF sub[k].client = "waiting"
                     THEN [sub[k] EXCEPT !.client = "left", !.chosen = co.method]
                     ELSE sub[k]]

\* ngOnDestroy().  The next visit starts with the payment method chosen last.
LeavePage ==
  /\ co' = NewPage(co.method, 0)
  /\ sub' = LeftSubmissions

\* The link of the cart page, or one elsewhere: nothing asks for items.
OpenCheckout ==
  /\ page \in {"cart", "success"} /\ Arrived
  /\ GoTo("checkout")
  /\ UNCHANGED <<items, storeTimer, co, call, serverVars, orderVars, cleared, events>>

BackToCart ==
  /\ Event
  /\ OnCheckout
  /\ GoTo("cart")
  /\ LeavePage
  /\ call' = LeftCalls
  /\ UNCHANGED <<items, storeTimer, serverVars, sent, cleared>>

\* ngOnInit(): send the items of the store, or fetch those of the server.
EnterCheckout(i) ==
  /\ page = "checkout" /\ arriving
  /\ arriving' = FALSE
  /\ co' = [NewPage(co.method, sent) EXCEPT !.syncing = TRUE]
  /\ Ask(i, IF items THEN Sync("page", TRUE) ELSE Load("page"))
  /\ UNCHANGED <<page, items, storeTimer, serverVars, orderVars, cleared, events>>

\* Slip: the error stays while the retry is under way.
ResyncInError(i) ==
  IF items
  THEN /\ co' = [co EXCEPT !.syncing = TRUE, !.fresh = FALSE]
       /\ Ask(i, Sync("page", TRUE))
  ELSE co' = [co EXCEPT !.error = FALSE] /\ UNCHANGED call

\* queueCartSync() and syncBackendCart(); without items it does nothing.
Resync(i) ==
  IF items
  THEN /\ co' = [co EXCEPT !.error = FALSE, !.syncing = TRUE, !.fresh = FALSE]
       /\ Ask(i, Sync("page", TRUE))
  ELSE co' = [co EXCEPT !.error = FALSE] /\ UNCHANGED call

\* retryValidation(), the button of the card that shows an error.
Retry(i) ==
  /\ OnCheckout /\ co.error
  /\ Resync(i)
  /\ UNCHANGED <<page, arriving, items, storeTimer, serverVars, orderVars, cleared, events>>

\* placeOrder() while the prices are not refreshed.
PlaceTooEarly(i) ==
  /\ OnCheckout /\ ~co.placing /\ ~co.syncing /\ ~co.fresh
  /\ Resync(i)
  /\ UNCHANGED <<page, arriving, items, storeTimer, serverVars, orderVars, cleared, events>>

Orders == {k \in Submits : sub[k].made}

\* placeOrder() and submitCheckout().
PlaceOrder ==
  /\ OnCheckout /\ ~co.placing /\ ~co.syncing /\ co.fresh
  /\ sent < MaxOrders
  /\ sent' = sent + 1
  /\ sub' = [sub EXCEPT ![sent + 1] =
       [NoSubmission EXCEPT !.at = "sent", !.client = "waiting", !.method = co.method,
                            !.again = (\E j \in Orders : j > co.since)]]
  /\ co' = [co EXCEPT !.placing = TRUE, !.error = FALSE]
  /\ UNCHANGED <<page, arriving, items, storeTimer, call, serverVars, cleared, events>>

\* setPaymentMethod(), also while an order is being placed.
SetMethod(m) ==
  /\ Event
  /\ OnCheckout /\ m # co.method
  /\ co' = [co EXCEPT !.method = m, !.error = FALSE]
  /\ UNCHANGED <<page, arriving, items, storeTimer, call, serverVars, orderVars, cleared>>

\* refreshQuote() after a coupon was entered or chosen.
Quote(i) ==
  /\ Event
  /\ OnCheckout
  /\ Ask(i, Load("quote"))
  /\ UNCHANGED <<clientVars, serverVars, orderVars, cleared>>

\* hydrateCartAndQuote() ends with redirectToCartIfEmpty().
TakeCart(i, page2) ==
  /\ items' = (call[i].answer = "items")
  /\ IF call[i].answer = "items"
     THEN co' = page2 /\ Free(i) /\ UNCHANGED <<page, arriving, sub>>
     ELSE /\ GoTo("cart")
          /\ LeavePage
          /\ call' = [LeftCalls EXCEPT ![i] = Idle]

\* The sync, or the first load, is answered.
PageAnswered(i) ==
  /\ call[i].at = "done" /\ call[i].by = "page"
  /\ IF call[i].answer = "failed"
     THEN /\ co' = [co EXCEPT !.syncing = FALSE, !.fresh = FALSE, !.error = TRUE]
          /\ Free(i)
          /\ UNCHANGED <<page, arriving, items, sub>>
     ELSE TakeCart(i, [co EXCEPT !.syncing = FALSE, !.fresh = TRUE])
  /\ UNCHANGED <<storeTimer, serverVars, sent, cleared, events>>

\* The quote is answered, be it older than a sync.  When the coupon makes it fail
\* it is asked for again without.
QuoteAnswered(i) ==
  /\ call[i].at = "done" /\ call[i].by = "quote"
  /\ IF call[i].answer = "failed"
     THEN /\ call' \in {[call EXCEPT ![i] = c] : c \in {Idle, Load("quote")}}
          /\ UNCHANGED <<page, arriving, items, co, sub>>
     ELSE TakeCart(i, [co EXCEPT !.fresh = TRUE])
  /\ UNCHANGED <<storeTimer, serverVars, sent, cleared, events>>

\* A page that was left still hands the answer to the store, and still redirects to
\* the cart page, wherever the customer is.
LeftAnswered(i) ==
  /\ call[i].at = "done" /\ call[i].by = "left"
  /\ IF call[i].answer = "failed"
     THEN Free(i) /\ UNCHANGED <<page, arriving, items, co, sub>>
     ELSE IF page = "cart"
     THEN /\ items' = (call[i].answer = "items")
          /\ Free(i)
          /\ UNCHANGED <<page, arriving, co, sub>>
     ELSE TakeCart(i, co)
  /\ UNCHANGED <<storeTimer, serverVars, sent, cleared, events>>

-----------------------------------------------------------------------------
(* The server creates the order: checkout() in api/v1/orders.py.            *)

\* The answer is forgotten when nobody waits for it.
Answered(k, o) ==
  [sub[k] EXCEPT !.at = "done", !.order = IF sub[k].client = "none" THEN 0 ELSE o, !.known = {}]

AnswerOrder(k, o) == sub' = [sub EXCEPT ![k] = Answered(k, o)]

\* get_cart: without items the checkout is refused.
CartLoaded(k) ==
  /\ sub[k].at = "sent"
  /\ IF rows THEN sub' = [sub EXCEPT ![k].at = "loaded"] ELSE AnswerOrder(k, 0)
  /\ UNCHANGED <<clientVars, call, serverVars, sent, cleared, events>>

\* Slip: the pointer is not looked at.
LookAway(k) ==
  /\ sub[k].at = "loaded"
  /\ sub' = [sub EXCEPT ![k].at = "looked", ![k].known = Orders]
  /\ UNCHANGED <<clientVars, call, serverVars, sent, cleared, events>>

\* SELECT last_order_id ... FOR UPDATE; the order it names is answered again.  The
\* lock is gone when the address is committed, before the order is.
Look(k) ==
  /\ sub[k].at = "loaded"
  /\ IF last # 0 THEN AnswerOrder(k, last)
     ELSE sub' = [sub EXCEPT ![k].at = "looked", ![k].known = Orders]
  /\ UNCHANGED <<clientVars, call, serverVars, sent, cleared, events>>

\* build_order_from_cart commits the order and the pointer.  A coupon that cannot
\* be reserved any more, or a payment link that fails, is reported after that.
CreateOrder(k) ==
  /\ sub[k].at = "looked"
  /\ last' = k
  /\ \E o \in {0, k} :
       sub' = [sub EXCEPT ![k] = [Answered(k, o) EXCEPT !.made = TRUE]]
  /\ UNCHANGED <<clientVars, call, rows, sent, cleared, events>>

\* Consents, the courier, the phone, the coupon, the provider, or no connection.
Refuse(k) ==
  /\ sub[k].at \in {"sent", "loaded", "looked"}
  /\ AnswerOrder(k, 0)
  /\ UNCHANGED <<clientVars, call, serverVars, sent, cleared, events>>

-----------------------------------------------------------------------------
(* The answer to an order.                                                  *)

Forget(k) == [sub[k] EXCEPT !.client = "none", !.chosen = "cod", !.order = 0]

Heard(k) == sub' = [sub EXCEPT ![k] = Forget(k)]

\* cart.clear() and goToSuccess().
Succeed(k, i) ==
  /\ items' = FALSE
  /\ call' = [LeftCalls EXCEPT ![i] = Sync("store", FALSE)]
  /\ Room(i)
  /\ IF page = "success" THEN UNCHANGED <<page, arriving>> ELSE GoTo("success")
  /\ co' = NewPage(co.method, 0)
  /\ sub' = [LeftSubmissions EXCEPT ![k] = Forget(k)]
  /\ UNCHANGED <<storeTimer, serverVars, sent, cleared, events>>

\* redirectToPaymentUrl(): the application is unloaded.
Redirect ==
  /\ page' = "provider" /\ arriving' = FALSE
  /\ storeTimer' = FALSE
  /\ call' = UnloadedCalls
  /\ co' = NewPage(co.method, 0)
  /\ sub' = [k \in Submits |-> Forget(k)]
  /\ UNCHANGED <<items, serverVars, sent, cleared, events>>

\* showPaymentNotReadyError() and handleCheckoutRequestError().
ShowError == co' = [co EXCEPT !.placing = FALSE, !.error = TRUE]

PaymentLink(k) == sub[sub[k].order].method = "card"

\* handleCheckoutStartResponse() goes by the method the page shows, which need not
\* be that of the order.
PlacedCod(k, i) ==
  /\ sub[k].client = "waiting" /\ sub[k].at = "done" /\ sub[k].order # 0
  /\ co.method = "cod"
  /\ Succeed(k, i)

PlacedCard(k) ==
  /\ sub[k].client = "waiting" /\ sub[k].at = "done" /\ sub[k].order # 0
  /\ co.method = "card" /\ PaymentLink(k)
  /\ Redirect

NotPlaced(k) ==
  /\ sub[k].client = "waiting" /\ sub[k].at = "done"
  /\ sub[k].order # 0 => co.method = "card" /\ ~PaymentLink(k)
  /\ ShowError
  /\ Heard(k)
  /\ UNCHANGED <<page, arriving, items, storeTimer, call, serverVars, sent, cleared, events>>

\* Slip: after the timeout the page goes on placing.
TimeOutPlacing(k) ==
  /\ sub[k].client = "waiting"
  /\ co' = [co EXCEPT !.error = TRUE]
  /\ Heard(k)
  /\ UNCHANGED <<page, arriving, items, storeTimer, call, serverVars, sent, cleared, events>>

\* No answer for 20 s, or no connection.  The server may go on with the order.
TimeOut(k) ==
  /\ sub[k].client = "waiting"
  /\ ShowError
  /\ Heard(k)
  /\ UNCHANGED <<page, arriving, items, storeTimer, call, serverVars, sent, cleared, events>>

\* The page was left before the answer, which is handled all the same.
LeftPlacedCod(k, i) ==
  /\ sub[k].client = "left" /\ sub[k].at = "done" /\ sub[k].order # 0
  /\ sub[k].chosen = "cod"
  /\ Succeed(k, i)

LeftPlacedCard(k) ==
  /\ sub[k].client = "left" /\ sub[k].at = "done" /\ sub[k].order # 0
  /\ sub[k].chosen = "card" /\ PaymentLink(k)
  /\ Redirect

\* A refusal, no payment link, or a timeout: the error shows on no page.
LeftNotPlaced(k) ==
  /\ sub[k].client = "left"
  /\ Heard(k)
  /\ UNCHANGED <<clientVars, call, serverVars, sent, cleared, events>>

-----------------------------------------------------------------------------
(* The payment provider, and the way back: the application is loaded anew.  *)

\* The return page has the payment confirmed, clears the cart and shows success.
Paid(i) ==
  /\ page = "provider"
  /\ items' = FALSE
  /\ Ask(i, Sync("store", FALSE))
  /\ GoTo("success")
  /\ UNCHANGED <<storeTimer, co, serverVars, orderVars, cleared, events>>

NotPaid ==
  /\ page = "provider"
  /\ \E p \in {"cart", "checkout"} : GoTo(p)
  /\ UNCHANGED <<items, storeTimer, co, call, serverVars, orderVars, cleared, events>>

-----------------------------------------------------------------------------
Next ==
  \/ \E i \in Calls :
       \/ CartRead(i) \/ CartWritten(i) \/ CallFails(i)
       \/ StoreTimerFires(i) \/ ClearCart(i) \/ ShowPage(i)
       \/ StoreAnswered(i) \/ Unheard(i)
       \/ EnterCheckout(i) \/ Retry(i) \/ PlaceTooEarly(i) \/ Quote(i)
       \/ PageAnswered(i) \/ QuoteAnswered(i) \/ LeftAnswered(i)
       \/ Paid(i)
  \/ Edit \/ OpenCheckout \/ BackToCart \/ PlaceOrder \/ NotPaid
  \/ \E m \in Methods : SetMethod(m)
  \/ \E k \in Submits :
       \/ CartLoaded(k) \/ Look(k) \/ CreateOrder(k) \/ Refuse(k)
       \/ PlacedCard(k) \/ NotPlaced(k) \/ TimeOut(k)
       \/ LeftPlacedCard(k) \/ LeftNotPlaced(k)
       \/ \E i \in Calls : PlacedCod(k, i) \/ LeftPlacedCod(k, i)

\* Every cart request ends, if only with an error, and its answer is handled; the
\* timeout of a submission fires.  Nothing is assumed of the customer, nor of the
\* server's work on an order.
CartCallEnds(i) == CartRead(i) \/ CartWritten(i)
AnswerHandled(i) == PageAnswered(i)

Fairness ==
  /\ \A i \in Calls : WF_vars(CartCallEnds(i)) /\ WF_vars(AnswerHandled(i))
  /\ \A k \in Submits : WF_vars(TimeOut(k))

Spec == Init /\ [][Next]_vars

FairSpec == Spec /\ Fairness

-----------------------------------------------------------------------------
(* Properties.                                                              *)

\* "Re-submitting checkout should be idempotent": a submission makes another order
\* of a cart that has one only if it looked before that one was committed.  Errors,
\* timeouts, retries and pages left and opened again do not add to that.
SecondOrderOnlyByOverlap ==
  [][\A k \in Submits :
       ~sub[k].made /\ sub'[k].made /\ last # 0 => last \notin sub[k].known]_vars

\* What the customer put into the cart is there until an order is made of it or
\* the customer empties it, whichever of the syncs and fetches fail or overtake
\* one another.
CartSurvives == (items /\ rows) \/ cleared \/ Orders # {}

\* "ensure we never leave the user stuck in a placing order state", and not in
\* "syncing" either, where placing is disabled.
NeverStuck ==
  /\ (OnCheckout /\ co.placing) ~> ~(OnCheckout /\ co.placing)
  /\ (OnCheckout /\ co.syncing) ~> ~(OnCheckout /\ co.syncing)

\* A retry finds the order: whatever became of the answer, submitting again in the
\* same visit of the checkout page does not create another order.
RetryFindsTheOrder ==
  \A k \in Submits : ~(sub[k].made /\ sub[k].again)

=============================================================================
