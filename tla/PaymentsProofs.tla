--------------------------- MODULE PaymentsProofs ---------------------------
(***************************************************************************)
(* Proofs about Payments for any number of deliveries, requests of the     *)
(* return page and failures.  ProviderInv relates the stage of a request   *)
(* to what the provider knows of the payment, DoneInv to what the order    *)
(* records, and OverlapInv says when at most one request may record the    *)
(* payment.  CountInv bounds the captures by the requests that have not    *)
(* seen one: it is what TypeOK says of them.                               *)
(***************************************************************************)
EXTENDS Payments, FiniteSetTheorems, TLAPS

Held(r) == req[r].at \in {"loaded", "asked"}
Unsaw   == {r \in Requests : Held(r) /\ ~req[r].saw}

\* TypeOK without the bound on the captures
Types ==
  /\ method \in {"stripe", "paypal"}
  /\ money \in {"none", "approved", "paid"}
  /\ status \in Statuses /\ redeemed \in BOOLEAN
  /\ captures \in Nat
  /\ record \in {"none", "open", "processed"}
  /\ req \in [Requests -> Request]
  /\ page \in {"provider", "returning", "error", "success"}
  /\ waits \in Confirms \union {Nobody}
  /\ expiring \in BOOLEAN /\ cancelled \in BOOLEAN /\ overlapped \in BOOLEAN
  /\ faults \in 0..MaxFaults

CountInv == captures + Cardinality(Unsaw) <= Cardinality(Requests)

ProviderInv ==
  /\ captures > 0 => money = "paid"
  /\ \A r \in Requests :
       /\ req[r].at \in {"asked", "written"} => money = "paid"
       /\ req[r].at = "asked" => method = "paypal"
  /\ \A r \in Deliveries : req[r].at # "idle" => money # "none"
  /\ \A r \in Confirms : req[r].at = "loaded" /\ method = "stripe" => money = "paid"
  /\ method = "stripe" => money # "approved"

Recorded == captures > 0 /\ (method = "stripe" => redeemed)

DoneInv ==
  /\ status = "cancelled" => cancelled
  /\ \A r \in Requests :
       /\ Held(r) /\ req[r].saw => captures > 0
       /\ req[r].at = "written" => captures > 0
  /\ \A r \in Confirms : req[r].at = "ok" => Recorded
  /\ \A r \in Deliveries : req[r].at = "ok" => cancelled \/ Recorded
  /\ record = "processed" => cancelled \/ Recorded
  /\ page = "success" => Recorded

OverlapInv ==
  /\ ~overlapped =>
       /\ captures <= 1
       /\ captures > 0 => Unsaw = {}
       /\ \A r, q \in Requests : Held(r) /\ Held(q) => r = q
  /\ method = "paypal" =>
       /\ captures <= 1
       /\ \A r, q \in Requests : req[r].at = "asked" /\ req[q].at = "asked" => r = q
       /\ \A r \in Requests : req[r].at = "asked" => captures = 0

IInv == Types /\ CountInv /\ ProviderInv /\ DoneInv /\ OverlapInv

-----------------------------------------------------------------------------
(* Steps.                                                                   *)

\* One step of a request, or none: what every action does to req.
LEMMA RequestMoves ==
  ASSUME Types, Next
  PROVE  \/ req' = req
         \/ \E r \in Requests : \E q \in Request :
              req' = [req EXCEPT ![r] = q]
<1>1. ASSUME NEW r \in Requests,
             NEW st \in {"idle", "start", "loaded", "asked", "written", "ok", "refused"}
      PROVE  [req[r] EXCEPT !.at = st] \in Request
  <2>1. req[r] \in Request
    BY DEF Types
  <2> QED
    BY <2>1 DEF Request
<1>2. ASSUME NEW r \in Requests, NEW st \in {"start", "asked", "written", "ok", "refused"},
             GoOn(r, st)
      PROVE  \E q \in Request : req' = [req EXCEPT ![r] = q]
  BY <1>1, <1>2 DEF GoOn
<1>3. ASSUME NEW r \in Requests, End(r)
      PROVE  \E q \in Request : req' = [req EXCEPT ![r] = q]
  BY <1>3 DEF End, Idle, Request, Statuses
<1>4. ASSUME NEW r \in Requests, LoadOrder(r)
      PROVE  \E q \in Request : req' = [req EXCEPT ![r] = q]
  <2>1. [at |-> "loaded", saw |-> captures > 0, was |-> status] \in Request
    BY DEF Request, Types
  <2> QED
    BY <1>4, <2>1 DEF LoadOrder
<1>5. CASE Pay \/ ConfirmTimesOut \/ LoadExpired \/ WriteExpired
  BY <1>5 DEF Pay, ConfirmTimesOut, LoadExpired, WriteExpired
<1>6. ASSUME NEW r \in Deliveries, Deliver(r) \/ LoadEvent(r) \/ Mark(r)
      PROVE  \/ req' = req
             \/ \E q \in Request : req' = [req EXCEPT ![r] = q]
  <2>1. r \in Requests
    BY DEF Requests
  <2> QED
    BY <1>2, <1>3, <1>4, <1>6, <2>1 DEF Deliver, LoadEvent, Mark
<1>7. ASSUME NEW r \in Confirms, Return(r) \/ Retry(r) \/ LoadConfirm(r) \/ Answer(r)
      PROVE  \E q \in Request : req' = [req EXCEPT ![r] = q]
  <2>1. r \in Requests
    BY DEF Requests
  <2> QED
    BY <1>2, <1>3, <1>4, <1>7, <2>1 DEF Return, Retry, Confirm, LoadConfirm, Answer
<1>8. ASSUME NEW r \in Requests,
             Capture(r) \/ CaptureRefused(r) \/ Write(r) \/ Redeem(r) \/ Fail(r)
      PROVE  \E q \in Request : req' = [req EXCEPT ![r] = q]
  BY <1>2, <1>3, <1>8 DEF Capture, CaptureRefused, Write, Rewrite, Redeem, Fail
<1> QED
  BY <1>5, <1>6, <1>7, <1>8 DEF Next, Requests

\* The types are kept.
LEMMA TypesStep ==
  ASSUME PaymentAssumption, Types, [Next]_vars
  PROVE  Types'
<1>1. CASE UNCHANGED vars
  BY <1>1 DEF vars, orderVars, pageVars, Types, Requests
<1>2. CASE Next
  <2>1. req' \in [Requests -> Request]
    BY <1>2, RequestMoves DEF Types
  <2>2. CASE Pay \/ ConfirmTimesOut \/ LoadExpired \/ WriteExpired
    BY <2>1, <2>2 DEF Pay, ConfirmTimesOut, LoadExpired, WriteExpired, orderVars, pageVars,
                      Types, Statuses
  <2>3. ASSUME NEW r \in Deliveries, Deliver(r) \/ LoadEvent(r) \/ Mark(r)
        PROVE  Types'
    BY <2>1, <2>3 DEF Deliver, LoadEvent, LoadOrder, Same, Mark, orderVars, pageVars, Types
  <2>4. ASSUME NEW r \in Confirms, Return(r) \/ Retry(r) \/ LoadConfirm(r) \/ Answer(r)
        PROVE  Types'
    <3>1. CASE Return(r) \/ Retry(r)
      BY <2>1, <3>1 DEF Return, Retry, Confirm, orderVars, Types
    <3>2. CASE LoadConfirm(r)
      <4>1. overlapped' \in BOOLEAN
        BY <3>2 DEF LoadConfirm, LoadOrder, Types
      <4> QED
        BY <2>1, <3>2, <4>1 DEF LoadConfirm, Same, orderVars, pageVars, Types
    <3>3. CASE Answer(r)
      BY <2>1, <3>3 DEF Answer, orderVars, pageVars, Types
    <3> QED
      BY <2>4, <3>1, <3>2, <3>3
  <2>5. ASSUME NEW r \in Requests, Capture(r) \/ CaptureRefused(r) \/ Redeem(r)
        PROVE  Types'
    BY <2>1, <2>5 DEF Capture, CaptureRefused, Redeem, orderVars, pageVars, Types
  <2>6. ASSUME NEW r \in Requests, Write(r)
        PROVE  Types'
    BY <2>1, <2>6 DEF Write, Rewrite, pageVars, Types, Statuses
  <2>7. ASSUME NEW r \in Requests, Fail(r)
        PROVE  Types'
    <3>1. record' \in {"none", "open", "processed"}
      <4>1. record' \in {record, "open"}
        BY <2>7 DEF Fail
      <4> QED
        BY <4>1 DEF Types
    <3>2. faults' \in 0..MaxFaults
      BY <2>7 DEF Fail, Types, PaymentAssumption
    <3>3. page' \in {page, "error"} /\ waits' \in {waits, Nobody}
      BY <2>7 DEF Fail, Lost, pageVars
    <3>4. UNCHANGED <<method, money, status, captures, redeemed, expiring, cancelled, overlapped>>
      BY <2>7 DEF Fail, orderVars
    <3> QED
      BY <2>1, <3>1, <3>2, <3>3, <3>4 DEF Types
  <2> QED
    BY <1>2, <2>2, <2>3, <2>4, <2>5, <2>6, <2>7 DEF Next
<1> QED
  BY <1>1, <1>2


\* Who loads the order after a capture sees it.  What has not seen one becomes fewer
\* then, by the one that records it.
LEMMA UnsawStep ==
  ASSUME Types, DoneInv, [Next]_vars
  PROVE  \/ captures' = captures /\ (captures = 0 \/ Unsaw' \subseteq Unsaw)
         \/ \E r \in Unsaw : captures' = captures + 1 /\ Unsaw' = Unsaw \ {r}
<1>0. req \in [Requests -> Request] /\ captures \in Nat
  BY DEF Types
<1>1. CASE UNCHANGED vars
  BY <1>1 DEF vars, orderVars, Unsaw, Held
<1>2. ASSUME NEW r \in Requests, NEW st \in {"start", "written", "ok", "refused"}, GoOn(r, st)
      PROVE  Unsaw' = Unsaw \ {r}
  BY <1>0, <1>2 DEF GoOn, Unsaw, Held, Request
<1>3. ASSUME NEW r \in Requests, End(r)
      PROVE  Unsaw' = Unsaw \ {r}
  BY <1>0, <1>3 DEF End, Idle, Unsaw, Held
<1>4. ASSUME NEW r \in Requests, LoadOrder(r), captures # 0
      PROVE  Unsaw' = Unsaw \ {r}
  <2>1. req' = [req EXCEPT ![r] = [at |-> "loaded", saw |-> TRUE, was |-> status]]
    <3>1. (captures > 0) = TRUE
      BY <1>0, <1>4
    <3> QED
      BY <1>4, <3>1 DEF LoadOrder
  <2> QED
    BY <1>0, <2>1 DEF Unsaw, Held
<1>5. ASSUME NEW r \in Requests, Held(r), GoOn(r, "asked")
      PROVE  Unsaw' = Unsaw
  BY <1>0, <1>5 DEF GoOn, Unsaw, Held, Request
<1>6. CASE Pay \/ ConfirmTimesOut \/ LoadExpired \/ WriteExpired
  BY <1>6 DEF Pay, ConfirmTimesOut, LoadExpired, WriteExpired, orderVars, Unsaw, Held
<1>7. ASSUME NEW r \in Deliveries, Deliver(r) \/ LoadEvent(r) \/ Mark(r)
      PROVE  captures' = captures /\ (captures = 0 \/ Unsaw' \subseteq Unsaw)
  <2>1. r \in Requests
    BY DEF Requests
  <2>2. req' = req => Unsaw' = Unsaw
    BY DEF Unsaw, Held
  <2> QED
    BY <1>2, <1>3, <1>4, <1>7, <2>1, <2>2 DEF Deliver, LoadEvent, Mark, Same, orderVars
<1>8. ASSUME NEW r \in Confirms, Return(r) \/ Retry(r) \/ LoadConfirm(r) \/ Answer(r)
      PROVE  captures' = captures /\ (captures = 0 \/ Unsaw' \subseteq Unsaw)
  <2>1. r \in Requests
    BY DEF Requests
  <2> QED
    BY <1>2, <1>3, <1>4, <1>8, <2>1
       DEF Return, Retry, Confirm, LoadConfirm, Answer, Same, orderVars
<1>9. ASSUME NEW r \in Requests, Capture(r) \/ CaptureRefused(r) \/ Redeem(r) \/ Fail(r)
      PROVE  captures' = captures /\ Unsaw' \subseteq Unsaw
  <2>1. CASE Capture(r)
    BY <1>5, <2>1 DEF Capture, Held, orderVars
  <2>2. CASE CaptureRefused(r) \/ Redeem(r) \/ Fail(r)
    BY <1>2, <1>3, <2>2 DEF CaptureRefused, Redeem, Fail, orderVars
  <2> QED
    BY <1>9, <2>1, <2>2
<1>10. ASSUME NEW r \in Requests, Write(r)
       PROVE  \/ captures' = captures /\ Unsaw' \subseteq Unsaw
              \/ r \in Unsaw /\ captures' = captures + 1 /\ Unsaw' = Unsaw \ {r}
  <2>1. Unsaw' = Unsaw \ {r} /\ Held(r)
    BY <1>2, <1>10 DEF Write, Rewrite, Held
  <2>2. captures' = IF req[r].saw THEN captures ELSE captures + 1
    BY <1>10 DEF Write
  <2> QED
    BY <2>1, <2>2 DEF Unsaw
<1> QED
  BY <1>1, <1>6, <1>7, <1>8, <1>9, <1>10 DEF Next

\* ... so that the captures and those who may add one never outnumber the requests.
LEMMA CountStep ==
  ASSUME PaymentAssumption, Types, DoneInv, CountInv, [Next]_vars
  PROVE  CountInv'
<1>1. /\ IsFiniteSet(Requests) /\ Unsaw \subseteq Requests /\ Unsaw' \subseteq Requests
      /\ captures \in Nat
  BY DEF PaymentAssumption, Unsaw, Types
<1>2. IsFiniteSet(Unsaw) /\ IsFiniteSet(Unsaw')
  BY <1>1, FS_Subset
<1>3. /\ Cardinality(Unsaw) \in Nat /\ Cardinality(Unsaw') \in Nat
      /\ Cardinality(Requests) \in Nat
  BY <1>1, <1>2, FS_CardinalityType
<1>4. CASE captures' = captures /\ captures = 0
  BY <1>1, <1>3, <1>4, FS_Subset DEF CountInv
<1>5. CASE captures' = captures /\ Unsaw' \subseteq Unsaw
  <2>1. Cardinality(Unsaw') <= Cardinality(Unsaw)
    BY <1>2, <1>5, FS_Subset
  <2> QED
    BY <1>1, <1>3, <1>5, <2>1 DEF CountInv
<1>6. ASSUME NEW r \in Unsaw, captures' = captures + 1, Unsaw' = Unsaw \ {r}
      PROVE  CountInv'
  <2>1. Cardinality(Unsaw') = Cardinality(Unsaw) - 1
    BY <1>2, <1>6, FS_RemoveElement
  <2> QED
    BY <1>1, <1>3, <1>6, <2>1 DEF CountInv
<1> QED
  BY <1>4, <1>5, <1>6, UnsawStep


\* The stage of a request tells what the provider knows.
LEMMA ProviderStep ==
  ASSUME PaymentAssumption, Types, ProviderInv, [Next]_vars
  PROVE  ProviderInv'
<1>0. /\ req \in [Requests -> Request] /\ captures \in Nat
      /\ Deliveries \subseteq Requests /\ Confirms \subseteq Requests
      /\ \A r \in Deliveries : r \notin Confirms
  BY DEF Types, Requests, PaymentAssumption
<1>1. CASE UNCHANGED vars
  BY <1>1 DEF vars, orderVars, ProviderInv
<1>2. ASSUME NEW r \in Requests, End(r), UNCHANGED <<method, money, captures>>
      PROVE  ProviderInv'
  BY <1>0, <1>2 DEF End, Idle, ProviderInv
<1>3. ASSUME NEW r \in Requests, NEW st \in {"start", "ok", "refused"}, GoOn(r, st),
             r \in Deliveries => money # "none", UNCHANGED <<method, money, captures>>
      PROVE  ProviderInv'
  BY <1>0, <1>3 DEF GoOn, ProviderInv, Request
<1>4. ASSUME NEW r \in Requests, LoadOrder(r),
             r \in Deliveries => money # "none",
             r \in Confirms /\ method = "stripe" => money = "paid",
             UNCHANGED <<method, money, captures>>
      PROVE  ProviderInv'
  BY <1>0, <1>4 DEF LoadOrder, ProviderInv
<1>5. CASE Pay
  BY <1>0, <1>5 DEF Pay, orderVars, ProviderInv
<1>6. CASE ConfirmTimesOut \/ LoadExpired \/ WriteExpired
  BY <1>6 DEF ConfirmTimesOut, LoadExpired, WriteExpired, orderVars, ProviderInv
<1>7. ASSUME NEW r \in Deliveries, Deliver(r)
      PROVE  ProviderInv'
  <2>1. CASE record = "processed"
    BY <1>7, <2>1 DEF Deliver, orderVars, ProviderInv
  <2>2. CASE record # "processed"
    BY <1>0, <1>3, <1>7, <2>2 DEF Deliver, orderVars
  <2> QED
    BY <2>1, <2>2
<1>8. ASSUME NEW r \in Deliveries, LoadEvent(r)
      PROVE  ProviderInv'
  <2>1. money # "none" /\ UNCHANGED <<method, money, captures>>
    BY <1>8 DEF LoadEvent, Same, orderVars, ProviderInv, LoadOrder, GoOn
  <2>2. r \in Requests /\ r \notin Confirms
    BY <1>0
  <2>3. LoadOrder(r) \/ GoOn(r, "ok")
    BY <1>8 DEF LoadEvent
  <2> QED
    BY <1>3, <1>4, <2>1, <2>2, <2>3
<1>9. ASSUME NEW r \in Deliveries, Mark(r)
      PROVE  ProviderInv'
  BY <1>0, <1>2, <1>9 DEF Mark, orderVars
<1>10. ASSUME NEW r \in Confirms, Return(r) \/ Retry(r)
       PROVE  ProviderInv'
  BY <1>0, <1>3, <1>10 DEF Return, Retry, Confirm, orderVars
<1>11. ASSUME NEW r \in Confirms, LoadConfirm(r)
       PROVE  ProviderInv'
  <2>1. UNCHANGED <<method, money, captures>> /\ r \in Requests /\ r \notin Deliveries
    BY <1>0, <1>11 DEF LoadConfirm, Same, orderVars
  <2>2. \/ LoadOrder(r) /\ (method = "stripe" => money = "paid")
        \/ GoOn(r, "ok") \/ GoOn(r, "refused")
    BY <1>11 DEF LoadConfirm
  <2> QED
    BY <1>3, <1>4, <2>1, <2>2
<1>12. ASSUME NEW r \in Confirms, Answer(r)
       PROVE  ProviderInv'
  BY <1>0, <1>2, <1>12 DEF Answer, orderVars
<1>13. ASSUME NEW r \in Requests, Capture(r)
       PROVE  ProviderInv'
  BY <1>0, <1>13 DEF Capture, GoOn, orderVars, ProviderInv, Request
<1>14. ASSUME NEW r \in Requests, CaptureRefused(r)
       PROVE  ProviderInv'
  <2>1. \/ End(r)
        \/ GoOn(r, "refused") /\ r \notin Deliveries
    BY <1>14 DEF CaptureRefused
  <2> QED
    BY <1>2, <1>3, <1>14, <2>1 DEF CaptureRefused, orderVars
<1>15. ASSUME NEW r \in Requests, Write(r)
       PROVE  ProviderInv'
  <2>1. money = "paid"
    <3>1. CASE method = "paypal"
      BY <1>15, <3>1 DEF Write, Rewrite, ProviderInv
    <3>2. CASE method = "stripe"
      <4>1. req[r].at = "loaded"
        BY <1>15, <3>2 DEF Write, Rewrite
      <4>2. CASE r \in Confirms
        BY <3>2, <4>1, <4>2 DEF ProviderInv
      <4>3. CASE r \in Deliveries
        BY <3>2, <4>1, <4>3 DEF ProviderInv, Types
      <4> QED
        BY <4>2, <4>3 DEF Requests
    <3> QED
      BY <3>1, <3>2 DEF Types
  <2>2. method' = method /\ money' = money /\ req' = [req EXCEPT ![r].at = "written"]
    BY <1>15 DEF Write, Rewrite, GoOn
  <2> QED
    BY <1>0, <2>1, <2>2 DEF ProviderInv, Request
<1>16. ASSUME NEW r \in Requests, Redeem(r)
       PROVE  ProviderInv'
  <2>1. r \in Deliveries => money # "none"
    BY <1>16 DEF Redeem, ProviderInv
  <2> QED
    BY <1>3, <1>16, <2>1 DEF Redeem
<1>17. ASSUME NEW r \in Requests, Fail(r)
       PROVE  ProviderInv'
  BY <1>2, <1>17 DEF Fail, orderVars
<1> QED
  BY <1>1, <1>5, <1>6, <1>7, <1>8, <1>9, <1>10, <1>11, <1>12, <1>13, <1>14, <1>15, <1>16,
     <1>17 DEF Next

\* What is recorded stays recorded, and an order that is cancelled was.
LEMMA Monotone ==
  ASSUME Types, DoneInv, [Next]_vars
  PROVE  /\ captures' >= captures /\ method' = method
         /\ Recorded => Recorded'
         /\ cancelled => cancelled'
         /\ status' = "cancelled" => cancelled'
<1>0. captures \in Nat /\ (status = "cancelled" => cancelled)
  BY DEF Types, DoneInv
<1>1. CASE UNCHANGED vars
  BY <1>0, <1>1 DEF vars, orderVars, Recorded
<1>2. CASE Pay \/ ConfirmTimesOut \/ LoadExpired
  BY <1>0, <1>2 DEF Pay, ConfirmTimesOut, LoadExpired, orderVars, Recorded
<1>3. CASE WriteExpired
  BY <1>0, <1>3 DEF WriteExpired, Recorded
<1>4. ASSUME NEW r, Deliver(r) \/ LoadEvent(r) \/ Mark(r) \/ Return(r) \/ Retry(r)
                    \/ LoadConfirm(r) \/ Answer(r) \/ Capture(r) \/ CaptureRefused(r) \/ Fail(r)
      PROVE  UNCHANGED <<method, status, captures, redeemed, cancelled>>
  BY <1>4 DEF Deliver, LoadEvent, Mark, Return, Retry, Confirm, LoadConfirm, Answer, Capture,
              CaptureRefused, Fail, Same, orderVars
<1>5. ASSUME NEW r, Redeem(r)
      PROVE  UNCHANGED <<method, status, captures, cancelled>> /\ redeemed'
  BY <1>5 DEF Redeem
<1>6. ASSUME NEW r, Write(r)
      PROVE  /\ UNCHANGED <<method, redeemed, cancelled>>
             /\ status' \in {status, "accepted"} /\ captures' \in {captures, captures + 1}
  BY <1>6 DEF Write, Rewrite
<1>7. CASE UNCHANGED <<method, status, captures, redeemed, cancelled>>
  BY <1>0, <1>7 DEF Recorded
<1>8. ASSUME NEW r, Redeem(r)
      PROVE  /\ captures' >= captures /\ method' = method /\ (Recorded => Recorded')
             /\ cancelled => cancelled'
             /\ status' = "cancelled" => cancelled'
  BY <1>0, <1>5, <1>8 DEF Recorded
<1>9. ASSUME NEW r, Write(r)
      PROVE  /\ captures' >= captures /\ method' = method /\ (Recorded => Recorded')
             /\ cancelled => cancelled'
             /\ status' = "cancelled" => cancelled'
  BY <1>0, <1>6, <1>9 DEF Recorded
<1> QED
  BY <1>1, <1>2, <1>3, <1>4, <1>7, <1>8, <1>9 DEF Next

\* A step keeps DoneInv when the request it advances, the record of the event and the
\* page claim no more than what is recorded.
LEMMA DoneFrame ==
  ASSUME Types, DoneInv, [Next]_vars,
         NEW r \in Requests, NEW q \in Request, req' = [req EXCEPT ![r] = q],
         q.at \in {"loaded", "asked"} /\ q.saw => captures > 0,
         q.at = "written" => captures' > 0,
         q.at = "ok" /\ r \in Confirms => Recorded',
         q.at = "ok" /\ r \in Deliveries => cancelled' \/ Recorded',
         record' = "processed" => record = "processed" \/ cancelled' \/ Recorded',
         page' = "success" => page = "success" \/ Recorded'
  PROVE  DoneInv'
<1>1. /\ captures' >= captures /\ (Recorded => Recorded')
      /\ cancelled => cancelled'
      /\ status' = "cancelled" => cancelled'
  BY Monotone
<1>2. req \in [Requests -> Request] /\ captures \in Nat /\ captures' \in Int
  <2>1. captures' \in {captures, captures + 1}
    BY UnsawStep
  <2> QED
    BY <2>1 DEF Types
<1>3. \A p \in Requests : req'[p] = IF p = r THEN q ELSE req[p]
  BY <1>2
<1>4. \A p \in Requests :
        /\ req'[p].at \in {"loaded", "asked"} /\ req'[p].saw => captures' > 0
        /\ req'[p].at = "written" => captures' > 0
  BY <1>1, <1>2, <1>3 DEF DoneInv, Held
<1>5. \A p \in Confirms : req'[p].at = "ok" => Recorded'
  BY <1>1, <1>3 DEF DoneInv, Requests
<1>6. \A p \in Deliveries : req'[p].at = "ok" => cancelled' \/ Recorded'
  BY <1>1, <1>3 DEF DoneInv, Requests
<1> QED
  BY <1>1, <1>4, <1>5, <1>6 DEF DoneInv, Held

\* No request, event or page claims more than what is recorded.
LEMMA DoneStep ==
  ASSUME PaymentAssumption, Types, ProviderInv, DoneInv, [Next]_vars
  PROVE  DoneInv'
<1>0. /\ req \in [Requests -> Request] /\ captures \in Nat
      /\ Deliveries \subseteq Requests /\ Confirms \subseteq Requests
      /\ \A r \in Deliveries : r \notin Confirms
  BY DEF Types, Requests, PaymentAssumption
<1>m. /\ captures' >= captures /\ method' = method
      /\ Recorded => Recorded'
      /\ cancelled => cancelled'
      /\ status' = "cancelled" => cancelled'
  BY Monotone
<1>1. CASE UNCHANGED <<req, record, page, captures>>
  BY <1>m, <1>1 DEF DoneInv, Held
<1>2. ASSUME NEW r \in Requests, End(r),
             record' = "processed" => record = "processed" \/ cancelled' \/ Recorded',
             page' = "success" => page = "success" \/ Recorded'
      PROVE  DoneInv'
  <2>1. Idle \in Request /\ Idle.at = "idle"
    BY DEF Idle, Request, Statuses
  <2>2. req' = [req EXCEPT ![r] = Idle]
    BY <1>2 DEF End
  <2> QED
    BY <1>2, <2>1, <2>2, DoneFrame
<1>3. ASSUME NEW r \in Requests,
             NEW st \in {"start", "asked", "written", "ok", "refused"}, GoOn(r, st),
             st = "asked" /\ req[r].saw => captures > 0,
             st = "written" => captures' > 0,
             st = "ok" /\ r \in Confirms => Recorded',
             st = "ok" /\ r \in Deliveries => cancelled' \/ Recorded',
             record' = "processed" => record = "processed", page' # "success" \/ page' = page
      PROVE  DoneInv'
  <2>1. req[r] \in Request
    BY <1>0
  <2> DEFINE q == [req[r] EXCEPT !.at = st]
  <2>2. q \in Request /\ q.at = st /\ q.saw = req[r].saw
    BY <2>1 DEF Request
  <2>3. req' = [req EXCEPT ![r] = q]
    BY <1>3 DEF GoOn
  <2> HIDE DEF q
  <2> QED
    BY <1>3, <2>2, <2>3, DoneFrame
<1>4. ASSUME NEW r \in Requests, LoadOrder(r), record' = record, page' = page
      PROVE  DoneInv'
  <2> DEFINE q == [at |-> "loaded", saw |-> captures > 0, was |-> status]
  <2>1. q \in Request
    BY DEF Request, Types
  <2>3. q.at = "loaded" /\ (q.saw => captures > 0)
    OBVIOUS
  <2>2. req' = [req EXCEPT ![r] = q]
    BY <1>4 DEF LoadOrder
  <2> HIDE DEF q
  <2> QED
    BY <1>4, <2>1, <2>2, <2>3, DoneFrame
<1>5. CASE UNCHANGED vars \/ Pay \/ LoadExpired \/ WriteExpired
  BY <1>1, <1>5 DEF vars, orderVars, pageVars, Pay, LoadExpired, WriteExpired
<1>6. CASE ConfirmTimesOut
  <2>1. UNCHANGED <<req, record, captures>> /\ page' = "error"
    BY <1>6 DEF ConfirmTimesOut, orderVars
  <2> QED
    BY <1>m, <2>1 DEF DoneInv, Held
<1>7. ASSUME NEW r \in Deliveries, Deliver(r)
      PROVE  DoneInv'
  <2>1. CASE record = "processed"
    BY <1>1, <1>7, <2>1 DEF Deliver, orderVars, pageVars
  <2>2. CASE record # "processed"
    <3>1. r \in Requests /\ GoOn(r, "start") /\ record' = "open" /\ page' = page
      BY <1>0, <1>7, <2>2 DEF Deliver, pageVars
    <3> QED
      BY <1>3, <3>1
  <2> QED
    BY <2>1, <2>2
<1>8. ASSUME NEW r \in Deliveries, LoadEvent(r)
      PROVE  DoneInv'
  <2>1. r \in Requests /\ r \notin Confirms /\ record' = record /\ page' = page
    BY <1>0, <1>8 DEF LoadEvent, Same, pageVars
  <2>2. CASE status \in Payable /\ (method = "paypal" => captures = 0)
    BY <1>4, <1>8, <2>1, <2>2 DEF LoadEvent
  <2>3. CASE ~(status \in Payable /\ (method = "paypal" => captures = 0))
    <3>1. GoOn(r, "ok")
      BY <1>8, <2>3 DEF LoadEvent
    <3>2. CASE status \notin Payable
      BY <1>3, <1>m, <2>1, <3>1, <3>2 DEF DoneInv, Types, Statuses, Payable
    <3>3. CASE method = "paypal" /\ captures # 0
      BY <1>0, <1>3, <1>m, <2>1, <3>1, <3>3 DEF Recorded
    <3> QED
      BY <2>3, <3>2, <3>3
  <2> QED
    BY <2>2, <2>3
<1>9. ASSUME NEW r \in Deliveries, Mark(r)
      PROVE  DoneInv'
  <2>1. r \in Requests /\ End(r) /\ page' = page
    BY <1>0, <1>9 DEF Mark, pageVars
  <2>2. cancelled' \/ Recorded'
    BY <1>9, <1>m DEF Mark, DoneInv
  <2> QED
    BY <1>2, <2>1, <2>2
<1>10. ASSUME NEW r \in Confirms, Return(r) \/ Retry(r)
       PROVE  DoneInv'
  <2>1. r \in Requests /\ GoOn(r, "start") /\ record' = record /\ page' = "returning"
    BY <1>0, <1>10 DEF Return, Retry, Confirm
  <2> QED
    BY <1>3, <2>1
<1>11. ASSUME NEW r \in Confirms, LoadConfirm(r)
       PROVE  DoneInv'
  <2>1. r \in Requests /\ r \notin Deliveries /\ record' = record /\ page' = page
    BY <1>0, <1>11 DEF LoadConfirm, Same, pageVars
  <2>2. \/ LoadOrder(r) \/ GoOn(r, "refused")
        \/ GoOn(r, "ok") /\ method # "stripe" /\ captures > 0
    BY <1>11 DEF LoadConfirm
  <2>3. method # "stripe" /\ captures > 0 => Recorded'
    BY <1>m DEF Recorded
  <2> QED
    BY <1>3, <1>4, <2>1, <2>2, <2>3
<1>12. ASSUME NEW r \in Confirms, Answer(r)
       PROVE  DoneInv'
  <2>1. r \in Requests /\ End(r) /\ record' = record
    BY <1>0, <1>12 DEF Answer
  <2>2. page' = "success" => page = "success" \/ req[r].at = "ok"
    BY <1>12 DEF Answer, pageVars
  <2>3. req[r].at = "ok" => Recorded'
    BY <1>m, <1>12 DEF DoneInv
  <2> QED
    BY <1>2, <2>1, <2>2, <2>3
<1>13. ASSUME NEW r \in Requests, Capture(r)
       PROVE  DoneInv'
  <2>1. GoOn(r, "asked") /\ record' = record /\ page' = page /\ Held(r)
    BY <1>13 DEF Capture, pageVars, Held
  <2>2. req[r].saw => captures > 0
    BY <2>1 DEF DoneInv
  <2> QED
    BY <1>3, <2>1, <2>2
<1>14. ASSUME NEW r \in Requests, CaptureRefused(r)
       PROVE  DoneInv'
  <2>1. page' = page /\ (record' = "processed" => record = "processed")
    BY <1>14 DEF CaptureRefused, pageVars
  <2>2. End(r) \/ GoOn(r, "refused")
    BY <1>14 DEF CaptureRefused
  <2> QED
    BY <1>2, <1>3, <2>1, <2>2
<1>15. ASSUME NEW r \in Requests, Write(r)
       PROVE  DoneInv'
  <2>1. GoOn(r, "written") /\ record' = record /\ page' = page
    BY <1>15 DEF Write, Rewrite, pageVars
  <2>2. captures' > 0
    <3>1. req[r].saw => captures > 0
      BY <1>15 DEF Write, Rewrite, DoneInv, Held
    <3>2. captures' = IF req[r].saw THEN captures ELSE captures + 1
      BY <1>15 DEF Write
    <3> QED
      BY <1>0, <3>1, <3>2
  <2> QED
    BY <1>3, <2>1, <2>2
<1>16. ASSUME NEW r \in Requests, Redeem(r)
       PROVE  DoneInv'
  <2>1. GoOn(r, "ok") /\ record' = record /\ page' = page
    BY <1>16 DEF Redeem, pageVars
  <2>2. Recorded'
    BY <1>16 DEF Redeem, DoneInv, Recorded
  <2> QED
    BY <1>3, <2>1, <2>2
<1>17. ASSUME NEW r \in Requests, Fail(r)
       PROVE  DoneInv'
  <2>1. End(r) /\ record' \in {record, "open"}
    BY <1>17 DEF Fail
  <2>2. page' \in {page, "error"}
    BY <1>17 DEF Fail, Lost, pageVars
  <2> QED
    BY <1>2, <2>1, <2>2
<1> QED
  BY <1>5, <1>6, <1>7, <1>8, <1>9, <1>10, <1>11, <1>12, <1>13, <1>14, <1>15, <1>16, <1>17
     DEF Next


\* Which requests hold the order, and which were asked of PayPal: new is only the one
\* that takes the step.
LEMMA HeldStep ==
  ASSUME Types, [Next]_vars
  PROVE  /\ \/ \A r \in Requests : Held(r)' => Held(r)
            \/ \E r \in Requests : LoadOrder(r)
         /\ \/ \A r \in Requests : req'[r].at = "asked" => req[r].at = "asked"
            \/ \E r \in Requests : Capture(r)
         /\ overlapped => overlapped'
<1>0. /\ req \in [Requests -> Request]
      /\ Deliveries \subseteq Requests /\ Confirms \subseteq Requests
  BY DEF Types, Requests
<1> DEFINE Fewer == \A r \in Requests :
                      /\ Held(r)' => Held(r)
                      /\ req'[r].at = "asked" => req[r].at = "asked"
<1>1. req' = req => Fewer
  BY DEF Held
<1>2. ASSUME NEW r \in Requests, NEW st \in {"start", "written", "ok", "refused"}, GoOn(r, st)
      PROVE  Fewer
  BY <1>0, <1>2 DEF GoOn, Held, Request
<1>3. ASSUME NEW r \in Requests, End(r)
      PROVE  Fewer
  BY <1>0, <1>3 DEF End, Idle, Held
<1>4. ASSUME NEW r \in Requests, LoadOrder(r)
      PROVE  /\ \A p \in Requests : req'[p].at = "asked" => req[p].at = "asked"
             /\ overlapped => overlapped'
  BY <1>0, <1>4 DEF LoadOrder
<1>5. ASSUME NEW r \in Requests, Capture(r)
      PROVE  (\A p \in Requests : Held(p)' => Held(p)) /\ overlapped' = overlapped
  BY <1>0, <1>5 DEF Capture, GoOn, Held, Request
<1> HIDE DEF Fewer
<1>6. ASSUME UNCHANGED vars \/ Pay \/ ConfirmTimesOut \/ LoadExpired \/ WriteExpired
      PROVE  Fewer /\ overlapped' = overlapped
  <2>1. req' = req /\ overlapped' = overlapped
    BY <1>6 DEF vars, Pay, ConfirmTimesOut, LoadExpired, WriteExpired
  <2> QED
    BY <1>1, <2>1
<1>7. ASSUME NEW r \in Deliveries, Deliver(r) \/ LoadEvent(r) \/ Mark(r)
      PROVE  (Fewer /\ overlapped' = overlapped) \/ LoadOrder(r)
  BY <1>0, <1>1, <1>2, <1>3, <1>7 DEF Deliver, LoadEvent, Mark
<1>8. ASSUME NEW r \in Confirms, Return(r) \/ Retry(r) \/ LoadConfirm(r) \/ Answer(r)
      PROVE  (Fewer /\ overlapped' = overlapped) \/ LoadOrder(r)
  BY <1>0, <1>2, <1>3, <1>8 DEF Return, Retry, Confirm, LoadConfirm, Answer
<1>9. ASSUME NEW r \in Requests, CaptureRefused(r) \/ Write(r) \/ Redeem(r) \/ Fail(r)
      PROVE  Fewer /\ overlapped' = overlapped
  BY <1>2, <1>3, <1>9 DEF CaptureRefused, Write, Rewrite, Redeem, Fail
<1>10. (Fewer /\ overlapped' = overlapped) \/ (\E r \in Requests : LoadOrder(r) \/ Capture(r))
  <2>1. CASE \E r \in Deliveries : Deliver(r) \/ LoadEvent(r) \/ Mark(r)
    BY <1>0, <1>7, <2>1
  <2>2. CASE \E r \in Confirms : Return(r) \/ Retry(r) \/ LoadConfirm(r) \/ Answer(r)
    BY <1>0, <1>8, <2>2
  <2>3. CASE \E r \in Requests :
               Capture(r) \/ CaptureRefused(r) \/ Write(r) \/ Redeem(r) \/ Fail(r)
    <3>1. PICK r \in Requests :
                 Capture(r) \/ CaptureRefused(r) \/ Write(r) \/ Redeem(r) \/ Fail(r)
      BY <2>3
    <3>2. CASE Capture(r)
      BY <3>2
    <3>3. CASE CaptureRefused(r) \/ Write(r) \/ Redeem(r) \/ Fail(r)
      BY <1>9, <3>3
    <3> QED
      BY <3>1, <3>2, <3>3
  <2> QED
    BY <1>6, <2>1, <2>2, <2>3 DEF Next
<1> QED
  BY <1>4, <1>5, <1>10 DEF Fewer

\* One payment is recorded once: by PayPal, or by requests that do not overlap.
LEMMA OverlapStep ==
  ASSUME PaymentAssumption, Types, ProviderInv, DoneInv, OverlapInv, [Next]_vars
  PROVE  OverlapInv'
<1>0. /\ req \in [Requests -> Request] /\ captures \in Nat /\ Unsaw \subseteq Requests
      /\ method' = method
  BY Monotone DEF Types, Unsaw
<1>1. ASSUME ~overlapped'
      PROVE  /\ captures' <= 1
             /\ captures' > 0 => Unsaw' = {}
             /\ \A r, q \in Requests : Held(r)' /\ Held(q)' => r = q
  <2>0. /\ captures <= 1
        /\ captures > 0 => Unsaw = {}
        /\ \A r, q \in Requests : Held(r) /\ Held(q) => r = q
    BY <1>1, HeldStep DEF OverlapInv
  <2>1. captures' <= 1 /\ (captures' > 0 => Unsaw' = {})
    <3>1. CASE captures' = captures /\ (captures = 0 \/ Unsaw' \subseteq Unsaw)
      BY <1>0, <2>0, <3>1
    <3>2. ASSUME NEW r \in Unsaw, captures' = captures + 1, Unsaw' = Unsaw \ {r}
          PROVE  captures' <= 1 /\ (captures' > 0 => Unsaw' = {})
      <4>1. captures = 0
        BY <1>0, <2>0, <3>2
      <4>2. Unsaw \subseteq {r}
        BY <2>0, <3>2 DEF Unsaw
      <4> QED
        BY <3>2, <4>1, <4>2
    <3> QED
      BY <3>1, <3>2, UnsawStep
  <2>2. \A r, q \in Requests : Held(r)' /\ Held(q)' => r = q
    <3>1. CASE \A r \in Requests : Held(r)' => Held(r)
      BY <2>0, <3>1
    <3>2. ASSUME NEW r \in Requests, LoadOrder(r)
          PROVE  \A p, q \in Requests : Held(p)' /\ Held(q)' => p = q
      <4>1. \A q \in Requests : ~Held(q)
        BY <1>1, <3>2 DEF LoadOrder, Held
      <4>2. \A q \in Requests \ {r} : req'[q] = req[q]
        BY <1>0, <3>2 DEF LoadOrder
      <4> QED
        BY <4>1, <4>2 DEF Held
    <3> QED
      BY <3>1, <3>2, HeldStep
  <2> QED
    BY <2>1, <2>2
<1>2. ASSUME method = "paypal"
      PROVE  /\ captures' <= 1
             /\ \A r, q \in Requests : req'[r].at = "asked" /\ req'[q].at = "asked" => r = q
             /\ \A r \in Requests : req'[r].at = "asked" => captures' = 0
  <2>0. /\ captures <= 1
        /\ \A r, q \in Requests : req[r].at = "asked" /\ req[q].at = "asked" => r = q
        /\ \A r \in Requests : req[r].at = "asked" => captures = 0
    BY <1>2 DEF OverlapInv
  <2>1. ASSUME NEW r \in Requests, Capture(r)
        PROVE  /\ captures' = 0
               /\ \A p \in Requests : req'[p].at = "asked" => p = r
    <3>1. money = "approved" /\ captures' = captures /\ GoOn(r, "asked")
      BY <2>1 DEF Capture, orderVars
    <3>2. captures = 0 /\ \A p \in Requests : req[p].at # "asked"
      BY <1>0, <3>1 DEF ProviderInv
    <3> QED
      BY <1>0, <3>1, <3>2 DEF GoOn
  <2>2. ASSUME NEW r \in Requests, Write(r)
        PROVE  captures' <= 1 /\ \A p \in Requests : req'[p].at # "asked"
    <3>1. req[r].at = "asked" /\ GoOn(r, "written") /\ captures' \in {captures, captures + 1}
      BY <1>2, <2>2 DEF Write, Rewrite
    <3>2. captures = 0 /\ \A p \in Requests \ {r} : req[p].at # "asked"
      BY <2>0, <3>1
    <3> QED
      BY <1>0, <3>1, <3>2 DEF GoOn, Request
  <2>3. CASE ~\E r \in Requests : Capture(r) \/ Write(r)
    <3>1. captures' = captures
      BY <2>3 DEF Next, vars, orderVars, Pay, ConfirmTimesOut, LoadExpired, WriteExpired,
                  Deliver, LoadEvent, Mark, Return, Retry, Confirm, LoadConfirm, Answer,
                  CaptureRefused, Redeem, Fail, Same
    <3>2. \A r \in Requests : req'[r].at = "asked" => req[r].at = "asked"
      BY <2>3, HeldStep
    <3> QED
      BY <2>0, <3>1, <3>2
  <2> QED
    BY <2>1, <2>2, <2>3
<1> QED
  BY <1>0, <1>1, <1>2 DEF OverlapInv

-----------------------------------------------------------------------------
(* Theorems.                                                                *)

\* The order as it is created, with nothing under way, satisfies the invariant ...
LEMMA InitIInv ==
  ASSUME PaymentAssumption, Init
  PROVE  IInv
<1>1. \A r \in Requests : req[r] = Idle
  BY DEF Init
<1>2. Idle.at = "idle" /\ Idle \in Request
  BY DEF Idle, Request, Statuses
<1>3. Types
  <2>1. req \in [Requests -> Request]
    BY <1>2 DEF Init
  <2>2. 0 \in 0..MaxFaults
    BY DEF PaymentAssumption
  <2> QED
    BY <2>1, <2>2 DEF Init, Types, Statuses
<1>4. Unsaw = {}
  BY <1>1, <1>2 DEF Unsaw, Held
<1>5. CountInv
  <2>1. Cardinality(Requests) \in Nat
    BY FS_CardinalityType DEF PaymentAssumption
  <2> QED
    BY <1>4, <2>1, FS_EmptySet DEF CountInv, Init
<1>6. ProviderInv
  BY <1>1, <1>2 DEF Init, ProviderInv, Requests
<1>7. DoneInv
  BY <1>1, <1>2 DEF Init, DoneInv, Held, Requests
<1>8. OverlapInv
  BY <1>1, <1>2, <1>4 DEF Init, OverlapInv, Held
<1> QED
  BY <1>3, <1>5, <1>6, <1>7, <1>8 DEF IInv

\* ... and no step leaves it.
LEMMA NextIInv ==
  ASSUME PaymentAssumption, IInv, [Next]_vars
  PROVE  IInv'
BY TypesStep, CountStep, ProviderStep, DoneStep, OverlapStep DEF IInv

\* The inductive invariant holds however many deliveries and requests of the return page
\* overlap, fail and are repeated.
THEOREM Invariance ==
  ASSUME PaymentAssumption
  PROVE  Spec => []IInv
<1>1. Init => IInv
  BY InitIInv
<1>2. IInv /\ [Next]_vars => IInv'
  BY NextIInv
<1> QED
  BY <1>1, <1>2, PTL DEF Spec

\* TypeOK: the payment of an order is never recorded more often than there are requests
\* at one moment, however often the event is delivered.
THEOREM TypeCorrect ==
  ASSUME PaymentAssumption
  PROVE  Spec => []TypeOK
<1>1. IInv => TypeOK
  <2> SUFFICES ASSUME IInv PROVE TypeOK
    OBVIOUS
  <2>1. captures \in 0..Cardinality(Requests)
    <3>1. IsFiniteSet(Requests) /\ Unsaw \subseteq Requests /\ captures \in Nat
      BY DEF PaymentAssumption, Unsaw, IInv, Types
    <3>2. Cardinality(Unsaw) \in Nat /\ Cardinality(Requests) \in Nat
      BY <3>1, FS_Subset, FS_CardinalityType
    <3> QED
      BY <3>1, <3>2 DEF IInv, CountInv
  <2> QED
    BY <2>1 DEF IInv, Types, TypeOK
<1> QED
  BY <1>1, Invariance, PTL

\* SuccessMeansRecorded: the customer is shown success for a payment the order records.
THEOREM SuccessIsTrue ==
  ASSUME PaymentAssumption
  PROVE  Spec => []SuccessMeansRecorded
<1>1. IInv => SuccessMeansRecorded
  BY DEF IInv, DoneInv, ProviderInv, Recorded, SuccessMeansRecorded
<1> QED
  BY <1>1, Invariance, PTL

\* ProcessedMeansDone: no event is marked before its work is committed.
THEOREM ProcessedIsDone ==
  ASSUME PaymentAssumption
  PROVE  Spec => []ProcessedMeansDone
<1>1. IInv => ProcessedMeansDone
  BY DEF IInv, DoneInv, Recorded, ProcessedMeansDone
<1> QED
  BY <1>1, Invariance, PTL

\* RecordedOnce: a payment recorded twice is Stripe's, and two requests overlapped.
THEOREM OneCapture ==
  ASSUME PaymentAssumption
  PROVE  Spec => []RecordedOnce
<1>1. IInv => RecordedOnce
  BY DEF IInv, Types, OverlapInv, RecordedOnce
<1> QED
  BY <1>1, Invariance, PTL

=============================================================================
