------------------------------ MODULE Payments ------------------------------
(***************************************************************************)
(* The payment of one order, from the pages of the provider back to the    *)
(* shop: by Stripe, which takes the money and reports it, or by PayPal,    *)
(* where the shop captures what the customer has approved.                 *)
(*                                                                         *)
(* The shop hears of a payment twice, from the provider's webhook, which   *)
(* delivers until it is answered, and from the page the customer returns   *)
(* to.  Each is a request of its own that loads the order without a lock,  *)
(* writes it and its payment_captured event in one commit and the coupon   *)
(* in another, while the scheduler cancels orders that look unpaid.        *)
(*                                                                         *)
(* An order is pending (pending_payment), accepted (pending_acceptance) or *)
(* cancelled.  Left out: what the administrator does with it, Netopia,     *)
(* Stripe's payment_intent.succeeded, which does the same under a record   *)
(* of its own, mails and notifications.                                    *)
(***************************************************************************)
EXTENDS Naturals, FiniteSets

CONSTANTS
  Deliveries,   \* the deliveries of the event that may be under way at once
  Confirms,     \* ... and the requests of the return page
  Nobody,       \* not a request
  MaxFaults     \* bound on the requests that fail or die

VARIABLES
  method,       \* payment_method of the order
  money,        \* what the provider knows of the payment
  status,       \* status of the order
  captures,     \* its payment_captured events
  redeemed,     \* its coupon has a redemption
  record,       \* the webhook event: none, open or processed (processed_at)
  req,          \* the requests under way
  page,         \* where the customer is
  waits,        \* the request the return page waits for
  expiring,     \* the scheduler has loaded the order as pending
  cancelled,    \* the order was cancelled at some time (history)
  overlapped,   \* two requests were between loading and writing (history)
  faults

orderVars == <<status, captures, redeemed>>
pageVars  == <<page, waits>>
vars == <<method, money, orderVars, record, req, pageVars, expiring, cancelled, overlapped,
          faults>>

Requests == Deliveries \union Confirms
Statuses == {"pending", "accepted", "cancelled"}
Payable  == {"pending", "accepted"}

\* What is assumed of the constants: a page never waits for a delivery, and only
\* finitely many requests are under way.
PaymentAssumption ==
  /\ IsFiniteSet(Requests) /\ Deliveries \cap Confirms = {}
  /\ MaxFaults \in Nat

\* at: loaded but not written, asked of the provider (PayPal), written, and what is
\* to be answered.  saw, was: the events and the status when the order was loaded.
Request == [at : {"idle", "start", "loaded", "asked", "written", "ok", "refused"},
            saw : BOOLEAN, was : Statuses]
Idle == [at |-> "idle", saw |-> FALSE, was |-> "pending"]

TypeOK ==
  /\ method \in {"stripe", "paypal"}
  /\ money \in {"none", "approved", "paid"}
  /\ status \in Statuses /\ redeemed \in BOOLEAN
  \* However often the event is delivered, only the requests of one moment write it.
  /\ captures \in 0..Cardinality(Requests)
  /\ record \in {"none", "open", "processed"}
  /\ req \in [Requests -> Request]
  /\ page \in {"provider", "returning", "error", "success"}
  /\ waits \in Confirms \union {Nobody}
  /\ expiring \in BOOLEAN /\ cancelled \in BOOLEAN /\ overlapped \in BOOLEAN
  /\ faults \in 0..MaxFaults

\* The order is created and the customer is sent to the provider.
Init ==
  /\ method \in {"stripe", "paypal"} /\ money = "none"
  /\ status = "pending" /\ captures = 0 /\ redeemed = FALSE
  /\ record = "none"
  /\ req = [r \in Requests |-> Idle]
  /\ page = "provider" /\ waits = Nobody
  /\ expiring = FALSE /\ cancelled = FALSE /\ overlapped = FALSE
  /\ faults = 0

GoOn(r, stage) == req' = [req EXCEPT ![r].at = stage]
End(r) == req' = [req EXCEPT ![r] = Idle]

-----------------------------------------------------------------------------
(* The customer.                                                            *)

Pay ==
  /\ page = "provider" /\ money = "none"
  /\ money' = IF method = "stripe" THEN "paid" ELSE "approved"
  /\ UNCHANGED <<method, orderVars, record, req, pageVars, expiring, cancelled, overlapped, faults>>

\* confirmPayment() and capturePayment() of the return pages.
Confirm(r) ==
  /\ req[r].at = "idle"
  /\ GoOn(r, "start")
  /\ page' = "returning" /\ waits' = r
  /\ UNCHANGED <<method, money, orderVars, record, expiring, cancelled, overlapped, faults>>

Return(r) == page = "provider" /\ Confirm(r)
Retry(r)  == page = "error" /\ Confirm(r)

\* RETURN_CONFIRM_TIMEOUT_MS: the server goes on with the request.
ConfirmTimesOut ==
  /\ page = "returning"
  /\ page' = "error" /\ waits' = Nobody
  /\ UNCHANGED <<method, money, orderVars, record, req, expiring, cancelled, overlapped, faults>>

-----------------------------------------------------------------------------
(* The requests.                                                            *)

\* Slip: the event is marked when it is filed.
DeliverMarked(r) ==
  /\ money # "none" /\ req[r].at = "idle"
  /\ IF record = "processed" THEN UNCHANGED <<record, req>>
     ELSE record' = "processed" /\ GoOn(r, "start")
  /\ UNCHANGED <<method, money, orderVars, pageVars, expiring, cancelled, overlapped, faults>>

\* The provider delivers the event, the first time or again.  Its record is inserted
\* or found, and committed; one that is processed is answered at once.
Deliver(r) ==
  /\ money # "none" /\ req[r].at = "idle"
  /\ IF record = "processed" THEN UNCHANGED <<record, req>>
     ELSE record' = "open" /\ GoOn(r, "start")
  /\ UNCHANGED <<method, money, orderVars, pageVars, expiring, cancelled, overlapped, faults>>

LoadOrder(r) ==
  /\ req' = [req EXCEPT ![r] = [at |-> "loaded", saw |-> captures > 0, was |-> status]]
  /\ overlapped' = (overlapped \/ \E q \in Requests : req[q].at \in {"loaded", "asked"})

Same == UNCHANGED <<method, money, orderVars, record, pageVars, expiring, cancelled, faults>>

\* Slip: the event is not looked for among the events of the order.
LoadEventBlindly(r) ==
  /\ req[r].at = "start"
  /\ IF status \in Payable
     THEN /\ req' = [req EXCEPT ![r] = [at |-> "loaded", saw |-> FALSE, was |-> status]]
          /\ overlapped' = (overlapped \/ \E q \in Requests : req[q].at \in {"loaded", "asked"})
     ELSE GoOn(r, "ok") /\ UNCHANGED overlapped
  /\ Same

\* process_stripe_event and process_paypal_event: an order that is not payable any
\* more, and a PayPal order that is captured, leave nothing to do.
LoadEvent(r) ==
  /\ req[r].at = "start"
  /\ IF status \in Payable /\ (method = "paypal" => captures = 0)
     THEN LoadOrder(r)
     ELSE GoOn(r, "ok") /\ UNCHANGED overlapped
  /\ Same

\* Slip: the shop takes the customer's return for a payment.
LoadUnpaid(r) ==
  /\ req[r].at = "start"
  /\ LoadOrder(r)
  /\ Same

\* confirm_stripe_checkout asks Stripe whether the session is paid, whatever became of
\* the order; capture_paypal_order answers a captured order at once.
LoadConfirm(r) ==
  /\ req[r].at = "start"
  /\ IF method = "stripe"
     THEN IF money = "paid" THEN LoadOrder(r) ELSE GoOn(r, "refused") /\ UNCHANGED overlapped
     ELSE IF captures > 0 THEN GoOn(r, "ok") /\ UNCHANGED overlapped
     ELSE IF status \in Payable THEN LoadOrder(r)
     ELSE GoOn(r, "refused") /\ UNCHANGED overlapped
  /\ Same

\* capture_order(): PayPal captures an approved payment, once, before anything is
\* written.
Capture(r) ==
  /\ method = "paypal" /\ req[r].at = "loaded"
  /\ money = "approved"
  /\ money' = "paid"
  /\ GoOn(r, "asked")
  /\ UNCHANGED <<method, orderVars, record, pageVars, expiring, cancelled, overlapped, faults>>

\* ... and refuses what is captured or not approved: 502, which undoes nothing.
CaptureRefused(r) ==
  /\ method = "paypal" /\ req[r].at = "loaded"
  /\ money # "approved"
  /\ IF r \in Deliveries THEN record' = "open" /\ End(r)
     ELSE GoOn(r, "refused") /\ UNCHANGED record
  /\ UNCHANGED <<method, money, orderVars, pageVars, expiring, cancelled, overlapped, faults>>

Rewrite(r) ==
  /\ req[r].at = IF method = "stripe" THEN "loaded" ELSE "asked"
  /\ status' = IF req[r].was = "pending" THEN "accepted" ELSE status
  /\ GoOn(r, "written")
  /\ UNCHANGED <<method, money, redeemed, record, pageVars, expiring, cancelled, overlapped, faults>>

\* Slip: every request leaves its event.
WriteAlways(r) == Rewrite(r) /\ captures' = captures + 1

\* The status goes by the one that was loaded, whatever it is by now.
Write(r) == Rewrite(r) /\ captures' = IF req[r].saw THEN captures ELSE captures + 1

\* redeem_coupon_for_order: a redemption that is there is left alone.  Two that redeem
\* at once collide in its unique index, which is one of the ways to fail.
Redeem(r) ==
  /\ req[r].at = "written"
  /\ redeemed' = TRUE
  /\ GoOn(r, "ok")
  /\ UNCHANGED <<method, money, status, captures, record, pageVars, expiring, cancelled,
                 overlapped, faults>>

Mark(r) ==
  /\ req[r].at = "ok"
  /\ record' = "processed"
  /\ End(r)
  /\ UNCHANGED <<method, money, orderVars, pageVars, expiring, cancelled, overlapped, faults>>

\* The answer finds its page, or nobody: a page that gave up has unsubscribed.
Answer(r) ==
  /\ req[r].at \in {"ok", "refused"}
  /\ IF waits = r
     THEN page' = (IF req[r].at = "ok" THEN "success" ELSE "error") /\ waits' = Nobody
     ELSE UNCHANGED pageVars
  /\ End(r)
  /\ UNCHANGED <<method, money, orderVars, record, expiring, cancelled, overlapped, faults>>

\* What the customer sees of a request that fails.
Lost(r) ==
  IF waits = r THEN page' = "error" /\ waits' = Nobody ELSE UNCHANGED pageVars

\* Slip: a failure leaves the event processed.
FailMarked(r) ==
  /\ req[r].at # "idle" /\ faults < MaxFaults
  /\ faults' = faults + 1
  /\ End(r)
  /\ Lost(r)
  /\ record' = IF r \in Deliveries THEN "processed" ELSE record
  /\ UNCHANGED <<method, money, orderVars, expiring, cancelled, overlapped>>

\* An exception, which reopens the event, or the process dies, or the connection is
\* lost before the answer; what was committed stays.
Fail(r) ==
  /\ req[r].at # "idle" /\ faults < MaxFaults
  /\ faults' = faults + 1
  /\ End(r)
  /\ Lost(r)
  /\ record' \in IF r \in Deliveries THEN {record, "open"} ELSE {record}
  /\ UNCHANGED <<method, money, orderVars, expiring, cancelled, overlapped>>

-----------------------------------------------------------------------------
(* The expiration scheduler.                                                *)

LoadExpired ==
  /\ status = "pending" /\ ~expiring
  /\ expiring' = TRUE
  /\ UNCHANGED <<method, money, orderVars, record, req, pageVars, cancelled, overlapped, faults>>

WriteExpired ==
  /\ expiring
  /\ expiring' = FALSE
  /\ status' = "cancelled" /\ cancelled' = TRUE
  /\ UNCHANGED <<method, money, captures, redeemed, record, req, pageVars, overlapped, faults>>

-----------------------------------------------------------------------------
Next ==
  \/ Pay \/ ConfirmTimesOut \/ LoadExpired \/ WriteExpired
  \/ \E r \in Deliveries : Deliver(r) \/ LoadEvent(r) \/ Mark(r)
  \/ \E r \in Confirms : Return(r) \/ Retry(r) \/ LoadConfirm(r) \/ Answer(r)
  \/ \E r \in Requests : Capture(r) \/ CaptureRefused(r) \/ Write(r) \/ Redeem(r) \/ Fail(r)

\* A delivery that is under way ends, and the provider delivers an event until one
\* is answered, which only a processed one is.  Nothing is assumed of the customer.
Works(r) ==
  \/ LoadEvent(r) \/ Capture(r) \/ CaptureRefused(r) \/ Write(r) \/ Redeem(r) \/ Mark(r)

Fairness ==
  \A r \in Deliveries : WF_vars(Deliver(r)) /\ WF_vars(Works(r))

Spec == Init /\ [][Next]_vars

FairSpec == Spec /\ Fairness

-----------------------------------------------------------------------------
(* Properties.                                                              *)

\* The success page is shown for a payment the provider has and the order records,
\* however often the customer retried and whichever request came first.
SuccessMeansRecorded ==
  page = "success" =>
    money = "paid" /\ captures > 0 /\ (method = "stripe" => redeemed)

\* An event is processed only when its work is done, so that no failure between two
\* commits of one delivery, or of two, leaves an event nobody delivers again.
ProcessedMeansDone ==
  record = "processed" =>
    cancelled \/ (captures > 0 /\ (method = "stripe" => redeemed))

\* A payment is recorded once, and so counted once for its promotion.  PayPal sees to
\* it, who captures once; with Stripe two requests that overlap record it twice.
RecordedOnce == captures > 1 => method = "stripe" /\ overlapped

\* What is paid with Stripe is recorded in the end, with its coupon, whichever request
\* dies between its commits and though the customer never returns, unless the order is
\* cancelled.
PaidIsRecorded ==
  method = "stripe" /\ money = "paid" ~>
    cancelled \/ (status = "accepted" /\ captures > 0 /\ redeemed)

=============================================================================
