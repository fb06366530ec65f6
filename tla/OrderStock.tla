----------------------------- MODULE OrderStock -----------------------------
(***************************************************************************)
(* The order life cycle and the stock it consumes: services/order.py, the  *)
(* payment callbacks that move an order forward, the scheduler that        *)
(* expires unpaid orders and the admin's manual stock adjustments.         *)
(*                                                                         *)
(* A request is one HTTP handler with one database session.  PostgreSQL    *)
(* runs it at READ COMMITTED and the session is opened with                *)
(* autoflush=False and expire_on_commit=False (db/session.py), so          *)
(*   - what a handler loads at its start stays in the session's identity   *)
(*     map: a later SELECT ... FOR UPDATE of the same row waits for the    *)
(*     lock but does not refresh the loaded attributes;                    *)
(*   - column queries (order events, sums of reserved quantities) are      *)
(*     answered from the rows committed at that moment;                    *)
(*   - an attribute is written back, blindly, when it was changed.         *)
(* Every operation is therefore a load, the row locks the code takes, and  *)
(* a commit, and the requests interleave between them.                     *)
(*                                                                         *)
(* A SKU is a row with a stock_quantity: a product or a product variant.   *)
(* Products are loaded with their variants (lazy="selectin"), so both      *)
(* kinds of row behave alike.                                              *)
(*                                                                         *)
(* A definition introduced as a slip is not part of the model: it is a     *)
(* plausible mistake in the definition that follows it, kept to show which *)
(* property would catch it.                                                *)
(***************************************************************************)
EXTENDS Integers, Sequences, FiniteSetsExt

CONSTANTS
  Orders,         \* order rows, each built from a cart of its own
  SKUs,           \* stock rows, numbered as ORDER BY id sorts them
  Sessions,       \* requests the API serves at the same time
  None,           \* no session: the row is not locked
  Qty,            \* Qty[o][k]: how many of k order o asks for
  Method,         \* Method[o]: the order's payment_method
  Backorder,      \* the SKUs with allow_backorder
  InitStock,      \* stock_quantity at the start
  Deltas,         \* the manual adjustments an admin may ask for
  MaxAdjustments  \* bound on the number of manual adjustments

Methods  == {"stripe", "paypal", "netopia", "cod"}
Statuses == {"pending_payment", "pending_acceptance", "paid", "shipped",
             "delivered", "cancelled", "refunded"}

\* The statuses whose orders reserve stock, those entered with the stock
\* taken, and those a payment may still be captured or voided in.
Open      == {"pending_payment", "pending_acceptance"}
Fulfilled == {"paid", "shipped", "delivered"}
Payable   == {"pending_payment", "pending_acceptance", "paid"}

\* ALLOWED_TRANSITIONS, and the two more that update_order grants to COD.
Moves == [pending_payment    |-> {"pending_acceptance", "cancelled"},
          pending_acceptance |-> {"paid", "cancelled"},
          paid               |-> {"shipped", "refunded", "cancelled"},
          shipped            |-> {"delivered", "refunded"},
          delivered          |-> {"refunded"},
          cancelled          |-> {},
          refunded           |-> {}]

Targets(from, method) ==
  Moves[from] \cup (IF method = "cod" /\ from = "pending_acceptance"
                    THEN {"shipped", "delivered"} ELSE {})

InitialStatus(method) ==
  IF method = "cod" THEN "pending_acceptance" ELSE "pending_payment"

Lines     == [SKUs -> Nat]        \* quantities, one per SKU
NoLines   == [k \in SKUs |-> 0]
Support(f) == {k \in SKUs : f[k] > 0}
Items(o)  == Support(Qty[o])

ASSUME OrderAssumption ==
  /\ IsFiniteSet(Orders)
  /\ SKUs \subseteq Nat
  /\ None \notin Sessions
  /\ Qty \in [Orders -> Lines]
  /\ \A o \in Orders : Items(o) # {}
  /\ Method \in [Orders -> Methods]
  /\ Backorder \subseteq SKUs
  /\ InitStock \in Lines
  /\ Deltas \subseteq Int \ {0}
  /\ MaxAdjustments \in Nat

VARIABLES
  status,      \* orders.status, "absent" before the row is inserted
  captured,    \* a payment_captured event exists (or paypal_capture_id is set)
  commits,     \* the deducted lines of the order's stock_committed events
  restores,    \* the restored lines of the order's stock_restored events
  stock,       \* stock_quantity of every SKU
  adjustments, \* the stock_adjustments rows
  orderLock,   \* the session holding the order row FOR UPDATE
  skuLock,     \* the session holding the stock row FOR UPDATE
  req,         \* the request each session is serving
  expiring     \* the rows the expiry scheduler loaded and has not committed

vars == <<status, captured, commits, restores, stock, adjustments,
          orderLock, skuLock, req, expiring>>

\* The sessions' private state.  pc: the next thing the handler does, op: the
\* handler, goal: the status it writes, seen: the stock it loaded, act: what
\* the event rows tell it to do to the stock, need: the stock rows it locks.
Idle == [pc |-> "idle"]
Requests ==
  [pc    : {"order", "rows", "write"},
   op    : {"checkout", "update", "void", "refund", "capture"},
   order : Orders,
   goal  : Statuses \cup {"keep"},
   seen  : Lines,
   act   : {"none", "take", "return"},
   need  : SUBSET SKUs]
Adjusting ==
  [pc : {"write"}, op : {"adjust"}, sku : SKUs, delta : Deltas, seen : Nat]

TypeOK ==
  /\ status \in [Orders -> Statuses \cup {"absent"}]
  /\ captured \in [Orders -> BOOLEAN]
  /\ commits \in [Orders -> Seq(Lines)]
  /\ restores \in [Orders -> Seq(Lines)]
  /\ stock \in Lines
  /\ adjustments \in Seq([sku : SKUs, delta : Int])
  /\ orderLock \in [Orders -> Sessions \cup {None}]
  /\ skuLock \in [SKUs -> Sessions \cup {None}]
  /\ req \in [Sessions -> Requests \cup Adjusting \cup {Idle}]
  /\ expiring \in SUBSET Orders

Init ==
  /\ status = [o \in Orders |-> "absent"]
  /\ captured = [o \in Orders |-> FALSE]
  /\ commits = [o \in Orders |-> <<>>]
  /\ restores = [o \in Orders |-> <<>>]
  /\ stock = InitStock
  /\ adjustments = <<>>
  /\ orderLock = [o \in Orders |-> None]
  /\ skuLock = [k \in SKUs |-> None]
  /\ req = [s \in Sessions |-> Idle]
  /\ expiring = {}

rows  == <<status, captured, commits, restores, stock, adjustments>>
locks == <<orderLock, skuLock>>

-----------------------------------------------------------------------------
(* What every handler does: load, and end with its locks released.          *)

Busy(s) == req[s] # Idle

\* What get_order_by_id or get_cart loads into the identity map: the stock of
\* the order's own SKUs.
Snapshot(o) == [k \in SKUs |-> IF k \in Items(o) THEN stock[k] ELSE 0]

Serve(s, pc, op, o, goal, need) ==
  /\ req[s] = Idle
  /\ req' = [req EXCEPT ![s] =
       [pc |-> pc, op |-> op, order |-> o, goal |-> goal,
        seen |-> IF pc = "write" /\ op # "void" THEN NoLines ELSE Snapshot(o),
        act |-> "none", need |-> need]]

FreeLocks(s) ==
  /\ orderLock' = [o \in Orders |->
       IF orderLock[o] = s THEN None ELSE orderLock[o]]
  /\ skuLock' = [k \in SKUs |-> IF skuLock[k] = s THEN None ELSE skuLock[k]]

\* The transaction ends, by COMMIT or by ROLLBACK, and the handler with it.
Finish(s) ==
  /\ req' = [req EXCEPT ![s] = Idle]
  /\ FreeLocks(s)

\* UPDATE of an order row, or an event row that references it, waits while
\* another transaction holds the row FOR UPDATE.
CanWriteOrder(o) == orderLock[o] = None

-----------------------------------------------------------------------------
(* Checkout: build_order_from_cart.                                         *)

LoadCart(s, o) ==
  /\ status[o] = "absent"
  /\ \A t \in Sessions : ~(Busy(t) /\ req[t].op = "checkout" /\ req[t].order = o)
  /\ Serve(s, "rows", "checkout", o, InitialStatus(Method[o]), Items(o))
  /\ UNCHANGED <<rows, locks, expiring>>

\* Slip: checkout locks its rows without ORDER BY id.
InAnyOrder(s, k) == TRUE

\* The next row of a SELECT ... FOR UPDATE.  Checkout locks with ORDER BY id;
\* the stock commit and the restore name no order.
InLockOrder(s, k) ==
  req[s].op = "checkout" =>
    \A j \in req[s].need : j < k => skuLock[j] = s

LockRow(s, k) ==
  /\ Busy(s) /\ req[s].pc = "rows"
  /\ k \in req[s].need
  /\ InLockOrder(s, k)
  /\ skuLock[k] = None
  /\ skuLock' = [skuLock EXCEPT ![k] = s]
  /\ UNCHANGED <<rows, orderLock, req, expiring>>

HoldsRows(s) == \A k \in req[s].need : skuLock[k] = s

\* Units of k that the orders still waiting for payment or acceptance ask for.
Reserves(o, k) == IF status[o] \in Open THEN Qty[o][k] ELSE 0
Reserved(k)    == SumFunction([o \in Orders |-> Reserves(o, k)])

\* Slip: checkout compares the shelf with its own cart alone.
OnShelf(s) ==
  \A k \in req[s].need \ Backorder : Qty[req[s].order][k] <= req[s].seen[k]

Available(s) ==
  \A k \in req[s].need \ Backorder :
    Qty[req[s].order][k] + Reserved(k) <= req[s].seen[k]

AtCheckout(s) ==
  /\ Busy(s) /\ req[s].pc = "rows" /\ req[s].op = "checkout"
  /\ HoldsRows(s)

InsertOrder(s) ==
  /\ AtCheckout(s) /\ Available(s)
  /\ status' = [status EXCEPT ![req[s].order] = req[s].goal]
  /\ Finish(s)
  /\ UNCHANGED <<captured, commits, restores, stock, adjustments, expiring>>

\* Slip: a refusal leaves its transaction, and so its row locks, open.
RefuseOrderLocked(s) ==
  /\ AtCheckout(s) /\ ~Available(s)
  /\ req' = [req EXCEPT ![s] = Idle]
  /\ UNCHANGED <<rows, locks, expiring>>

RefuseOrder(s) ==
  /\ AtCheckout(s) /\ ~Available(s)
  /\ Finish(s)
  /\ UNCHANGED <<rows, expiring>>

-----------------------------------------------------------------------------
(* Status updates and the stock they take or return.                        *)

\* update_order's own guards, on the row as get_order_by_id loaded it.
MayUpdate(o, goal) ==
  /\ status[o] # "absent"
  /\ goal \in Targets(status[o], Method[o])
  /\ (status[o] = "pending_acceptance" /\ goal = "paid"
        /\ Method[o] \in {"stripe", "paypal"}) => captured[o]

\* PATCH /admin/{id} with a status, or with a tracking number that ships a
\* paid order.  Only these targets touch the stock, under the order's lock.
LoadUpdate(s, o, goal) ==
  /\ MayUpdate(o, goal)
  /\ Serve(s, IF goal \in Fulfilled \cup {"cancelled"} THEN "order" ELSE "write",
           "update", o, goal, {})
  /\ UNCHANGED <<rows, locks, expiring>>

\* Slips: the stock is taken when an order is paid and never by COD shipping;
\* or it is taken again once it has been returned.
StockActOnPaid(o, goal) ==
  CASE goal = "paid" /\ commits[o] = <<>> -> "take"
    [] goal = "cancelled" /\ restores[o] = <<>> /\ commits[o] # <<>> -> "return"
    [] OTHER -> "none"

StockActAgain(o, goal) ==
  CASE goal \in Fulfilled /\ Len(commits[o]) = Len(restores[o]) -> "take"
    [] goal = "cancelled" /\ restores[o] = <<>> /\ commits[o] # <<>> -> "return"
    [] OTHER -> "none"

\* SELECT ... FOR UPDATE of the order row, then the event rows, read fresh:
\* the stock is taken once and returned once.
StockAct(o, goal) ==
  CASE goal \in Fulfilled /\ commits[o] = <<>> -> "take"
    [] goal = "cancelled" /\ restores[o] = <<>> /\ commits[o] # <<>>
         /\ Support(Head(commits[o])) # {} -> "return"
    [] OTHER -> "none"

RowsOf(o, act) ==
  CASE act = "take"   -> Items(o)
    [] act = "return" -> Support(Head(commits[o]))
    [] OTHER          -> {}

\* Slip: the events are read without locking the order row.
ReadEventsUnlocked(s) ==
  /\ Busy(s) /\ req[s].pc = "order"
  /\ LET o   == req[s].order
         act == StockAct(o, req[s].goal)
     IN  req' = [req EXCEPT ![s].pc = "rows", ![s].act = act,
                            ![s].need = RowsOf(o, act)]
  /\ UNCHANGED <<rows, locks, expiring>>

LockOrder(s) ==
  /\ Busy(s) /\ req[s].pc = "order"
  /\ LET o   == req[s].order
         act == StockAct(o, req[s].goal)
     IN  /\ orderLock[o] = None
         /\ orderLock' = [orderLock EXCEPT ![o] = s]
         /\ req' = [req EXCEPT ![s].pc = "rows", ![s].act = act,
                               ![s].need = RowsOf(o, act)]
  /\ UNCHANGED <<rows, skuLock, expiring>>

\* Slip: no max(0, ...).
AfterTakeUnfloored(r, k) == r.seen[k] - Qty[r.order][k]

\* stock_quantity as the handler computes it from the stock it loaded.
AfterTake(r, k)   == IF r.seen[k] > Qty[r.order][k]
                     THEN r.seen[k] - Qty[r.order][k] ELSE 0
AfterReturn(r, k) == r.seen[k] + Head(commits[r.order])[k]
After(r, k)       == IF r.act = "take" THEN AfterTake(r, k) ELSE AfterReturn(r, k)

\* The flush writes the rows whose stock_quantity changed.
FlushStock(r) ==
  stock' = [k \in SKUs |->
    IF k \in r.need /\ After(r, k) # r.seen[k] THEN After(r, k) ELSE stock[k]]

\* Slip: the event claims the requested quantity where less was deducted.
DeductedAsRequested(r) ==
  [k \in SKUs |-> IF k \in r.need THEN Qty[r.order][k] ELSE 0]

\* The event rows: the deducted quantities, and the restored ones.
Deducted(r) == [k \in SKUs |-> IF k \in r.need THEN r.seen[k] - AfterTake(r, k) ELSE 0]

RecordEvents(r) ==
  /\ commits' = IF r.act = "take"
                THEN [commits EXCEPT ![r.order] = Append(@, Deducted(r))]
                ELSE commits
  /\ restores' = IF r.act = "return"
                 THEN [restores EXCEPT ![r.order] = Append(@, Head(commits[r.order]))]
                 ELSE restores

CommitUpdate(s) ==
  /\ Busy(s) /\ req[s].pc = "rows" /\ req[s].op \in {"update", "void"}
  /\ HoldsRows(s)
  /\ FlushStock(req[s])
  /\ RecordEvents(req[s])
  /\ status' = IF req[s].op = "update"
               THEN [status EXCEPT ![req[s].order] = req[s].goal]
               ELSE status     \* void_payment wrote it one transaction earlier
  /\ Finish(s)
  /\ UNCHANGED <<captured, adjustments, expiring>>

-----------------------------------------------------------------------------
(* Handlers that write the status they computed, with no lock of their own. *)

AtWrite(s, op) ==
  /\ Busy(s) /\ req[s].pc = "write" /\ req[s].op = op

SetStatus(s) ==
  status' = [status EXCEPT ![req[s].order] =
    IF req[s].goal = "keep" THEN @ ELSE req[s].goal]

\* update_order towards a status that moves no stock.
WriteUpdate(s) ==
  /\ AtWrite(s, "update")
  /\ CanWriteOrder(req[s].order)
  /\ SetStatus(s)
  /\ Finish(s)
  /\ UNCHANGED <<captured, commits, restores, stock, adjustments, expiring>>

\* refund_order, and create_order_refund when nothing is left to refund.
LoadRefund(s, o) ==
  /\ status[o] \in Fulfilled
  /\ Serve(s, "write", "refund", o, "refunded", {})
  /\ UNCHANGED <<rows, locks, expiring>>

WriteRefund(s) ==
  /\ AtWrite(s, "refund")
  /\ CanWriteOrder(req[s].order)
  /\ SetStatus(s)
  /\ Finish(s)
  /\ UNCHANGED <<captured, commits, restores, stock, adjustments, expiring>>

\* Slip: any card payment can be voided.
LoadAnyVoid(s, o) ==
  /\ Method[o] = "stripe" /\ status[o] # "absent"
  /\ Serve(s, "write", "void", o, "cancelled", {})
  /\ UNCHANGED <<rows, locks, expiring>>

\* void_payment: the provider is called, the cancellation is committed by
\* _log_event, and only then is the stock restored, in a second transaction.
LoadVoid(s, o) ==
  /\ Method[o] = "stripe" /\ status[o] \in Payable
  /\ Serve(s, "write", "void", o, "cancelled", {})
  /\ UNCHANGED <<rows, locks, expiring>>

WriteVoid(s) ==
  /\ AtWrite(s, "void")
  /\ CanWriteOrder(req[s].order)
  /\ SetStatus(s)
  /\ req' = [req EXCEPT ![s].pc = "order"]
  /\ UNCHANGED <<captured, commits, restores, stock, adjustments, locks, expiring>>

\* Slip: a capture moves the order forward whatever its status is.
LoadAnyCapture(s, o) ==
  /\ Method[o] # "cod" /\ status[o] # "absent"
  /\ Serve(s, "write", "capture", o, "pending_acceptance", {})
  /\ UNCHANGED <<rows, locks, expiring>>

\* A payment is reported captured: by the provider's webhook, by the admin's
\* capture, or by the customer's return to the shop.  The webhook and the
\* admin's capture want a status in Payable; the customer's return (confirm)
\* takes any order, so that is the guard.
LoadCapture(s, o) ==
  /\ Method[o] # "cod" /\ status[o] # "absent"
  /\ Serve(s, "write", "capture", o,
           IF status[o] = "pending_payment" THEN "pending_acceptance" ELSE "keep", {})
  /\ UNCHANGED <<rows, locks, expiring>>

WriteCapture(s) ==
  /\ AtWrite(s, "capture")
  /\ CanWriteOrder(req[s].order)
  /\ SetStatus(s)
  /\ captured' = [captured EXCEPT ![req[s].order] = TRUE]
  /\ Finish(s)
  /\ UNCHANGED <<commits, restores, stock, adjustments, expiring>>

-----------------------------------------------------------------------------
(* apply_stock_adjustment: a read, a check and a write without a lock.      *)

Adjusters == {t \in Sessions : Busy(t) /\ req[t].op = "adjust"}

LoadAdjustment(s, k, d) ==
  /\ req[s] = Idle
  /\ Len(adjustments) + Cardinality(Adjusters) < MaxAdjustments
  /\ stock[k] + d >= 0
  /\ req' = [req EXCEPT ![s] =
       [pc |-> "write", op |-> "adjust", sku |-> k, delta |-> d, seen |-> stock[k]]]
  /\ UNCHANGED <<rows, locks, expiring>>

WriteAdjustment(s) ==
  /\ AtWrite(s, "adjust")
  /\ LET r == req[s]
     IN  /\ skuLock[r.sku] = None
         /\ stock' = [stock EXCEPT ![r.sku] = r.seen + r.delta]
         /\ adjustments' = Append(adjustments, [sku |-> r.sku, delta |-> r.delta])
  /\ Finish(s)
  /\ UNCHANGED <<status, captured, commits, restores, expiring>>

-----------------------------------------------------------------------------
(* order_expiration_scheduler._run_once: the orders past their TTL (which   *)
(* ones is left open) are loaded, and all cancelled by one commit.          *)

LoadExpired(batch) ==
  /\ expiring = {}
  /\ batch # {}
  /\ \A o \in batch : status[o] = "pending_payment"
  /\ expiring' = batch
  /\ UNCHANGED <<rows, locks, req>>

WriteExpired ==
  /\ expiring # {}
  /\ \A o \in expiring : CanWriteOrder(o)
  /\ status' = [o \in Orders |-> IF o \in expiring THEN "cancelled" ELSE status[o]]
  /\ expiring' = {}
  /\ UNCHANGED <<captured, commits, restores, stock, adjustments, locks, req>>

\* The process stops, or the database refuses the commit.
DropExpired ==
  /\ expiring # {}
  /\ expiring' = {}
  /\ UNCHANGED <<rows, locks, req>>

-----------------------------------------------------------------------------
(* Failures.                                                                *)

\* A request is cut short: an error, a lost connection, a stopped process.
\* What it has not committed is rolled back.
Abort(s) ==
  /\ Busy(s)
  /\ Finish(s)
  /\ UNCHANGED <<rows, expiring>>

\* t waits for a row lock that u holds.
WaitsFor(t, u) ==
  /\ Busy(t) /\ t # u
  /\ \/ /\ req[t].pc = "order" /\ orderLock[req[t].order] = u
     \/ /\ req[t].pc = "rows"
        /\ \E k \in req[t].need : InLockOrder(t, k) /\ skuLock[k] = u
        /\ ~\E k \in req[t].need : InLockOrder(t, k) /\ skuLock[k] = None
     \/ /\ req[t].pc = "write" /\ req[t].op # "adjust"
        /\ orderLock[req[t].order] = u
     \/ /\ req[t].pc = "write" /\ req[t].op = "adjust"
        /\ skuLock[req[t].sku] = u

\* PostgreSQL's deadlock detector: a session in a cycle of waiting sessions is
\* aborted, and its request fails.
Deadlocked(s) ==
  \E D \in SUBSET Sessions : s \in D /\ \A t \in D : \E u \in D : WaitsFor(t, u)

BreakDeadlock(s) ==
  /\ Deadlocked(s)
  /\ Abort(s)

-----------------------------------------------------------------------------
Advance(s) ==
  \/ \E k \in SKUs : LockRow(s, k)
  \/ LockOrder(s)
  \/ InsertOrder(s) \/ RefuseOrder(s)
  \/ CommitUpdate(s)
  \/ WriteUpdate(s) \/ WriteRefund(s) \/ WriteVoid(s) \/ WriteCapture(s)
  \/ WriteAdjustment(s)

Arrive(s) ==
  \/ \E o \in Orders :
       \/ LoadCart(s, o) \/ LoadRefund(s, o) \/ LoadVoid(s, o) \/ LoadCapture(s, o)
       \/ \E goal \in Statuses : LoadUpdate(s, o, goal)
  \/ \E k \in SKUs, d \in Deltas : LoadAdjustment(s, k, d)

Scheduler ==
  (\E batch \in SUBSET Orders : LoadExpired(batch)) \/ WriteExpired \/ DropExpired

Next ==
  \/ \E s \in Sessions : Arrive(s) \/ Advance(s) \/ Abort(s) \/ BreakDeadlock(s)
  \/ Scheduler

Spec == Init /\ [][Next]_vars

\* One request or one scheduler pass at a time: what the code does when
\* nothing overlaps, the yardstick for the concurrent runs.
Quiet == expiring = {} /\ \A s \in Sessions : ~Busy(s)

SerialNext ==
  \/ Quiet /\ \E s \in Sessions : Arrive(s)
  \/ Quiet /\ \E batch \in SUBSET Orders : LoadExpired(batch)
  \/ \E s \in Sessions : Advance(s) \/ Abort(s)
  \/ WriteExpired \/ DropExpired

SerialSpec == Init /\ [][SerialNext]_vars

\* A handler that can run does run; PostgreSQL queues the waiters of a row
\* lock first come, first served (hence SF), and breaks deadlocks.
FairSpec ==
  /\ Spec
  /\ \A s \in Sessions : SF_vars(Advance(s)) /\ WF_vars(BreakDeadlock(s))

-----------------------------------------------------------------------------
(* Properties.                                                              *)

\* Whatever overlaps, the stock of an order is deducted by at most one
\* stock_committed event and given back by at most one stock_restored event,
\* which gives back exactly what was deducted.
StockMovedOnce ==
  \A o \in Orders :
    /\ Len(commits[o]) <= 1
    /\ Len(restores[o]) <= 1
    /\ restores[o] # <<>> => commits[o] # <<>> /\ restores[o] = commits[o]

\* No path, through acceptance, COD shipping or the tracking shortcut, brings
\* an order to paid, shipped or delivered without a stock_committed event.
FulfilledTookStock ==
  \A o \in Orders : status[o] \in Fulfilled => commits[o] # <<>>

\* A fulfilled order has its stock, and has not given it back: an order that was
\* cancelled after it had taken its stock does not come back to be shipped.
FulfilledHoldsStock ==
  \A o \in Orders :
    status[o] \in Fulfilled => commits[o] # <<>> /\ restores[o] = <<>>

\* Two checkouts never wait for each other, however their carts overlap.
CheckoutsNeverDeadlock ==
  \A s, t \in Sessions :
    Busy(s) /\ Busy(t) /\ req[s].op = "checkout" /\ req[t].op = "checkout"
      => ~(WaitsFor(s, t) /\ WaitsFor(t, s))

\* Every request ends: row locks and deadlocks never hold one for ever.
RequestsFinish == \A s \in Sessions : Busy(s) ~> ~Busy(s)

\* Units of k that order o holds: deducted and not given back.
Held(o, k) ==
  IF commits[o] # <<>> /\ restores[o] = <<>> THEN Head(commits[o])[k] ELSE 0

\* The events tell the story of StockLedger, whatever overlaps: taken at most
\* once, never more than asked for, returned whole and then never taken again.
Phase(o) ==
  CASE commits[o] = <<>>                      -> "whole"
    [] Len(commits[o]) > Len(restores[o])     -> "taken"
    [] OTHER                                  -> "returned"

Phases   == [o \in Orders |-> Phase(o)]
Holdings == [o \in Orders |-> [k \in SKUs |-> Held(o, k)]]

Ledger == INSTANCE StockLedger WITH phase <- Phases, held <- Holdings

LedgerSpec == Ledger!Spec

AllHeld(k)  == SumFunction([o \in Orders |-> Held(o, k)])
Adjusted(k) == SumFunction([i \in DOMAIN adjustments |->
                 IF adjustments[i].sku = k THEN adjustments[i].delta ELSE 0])

\* Every unit is accounted for: on the shelf, in an order, or adjusted away.
StockConserved ==
  \A k \in SKUs : stock[k] + AllHeld(k) = InitStock[k] + Adjusted(k)

\* "Inventory: prevent oversell under concurrency by treating open orders as
\* stock reservations (lock + recheck)": the shelf covers the open orders.
NoOversell ==
  \A k \in SKUs \ Backorder : Reserved(k) <= stock[k]

\* The status only ever moves along ALLOWED_TRANSITIONS.  void_payment may
\* also cancel from any payable status, which the table allows.
MovesFollowTable ==
  [][\A o \in Orders : status[o] # status'[o] =>
       IF status[o] = "absent" THEN status'[o] = InitialStatus(Method[o])
                               ELSE status'[o] \in Targets(status[o], Method[o])]_vars

=============================================================================
