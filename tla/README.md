# momentstudio: a verification project

TLA+ models of the parts of momentstudio where things interleave: requests,
payment notices, schedulers and workers of the backend; tabs, timers and late
answers of the frontend; and their failures. With them come the TLC runs that
check the models on small instances, and TLAPS proofs of what matters most for
every instance. All source paths are relative to `src/`; `app/` stands for
`backend/app/`, and `core/` and `pages/` for those directories of
`frontend/src/app/`.

1. [The system](#1-the-system)
2. [The modules](#2-the-modules)
3. [What the runs check](#3-what-the-runs-check)
4. [What is proved](#4-what-is-proved)
5. [What the code does not keep](#5-what-the-code-does-not-keep)
6. [What is left out, and why](#6-what-is-left-out-and-why)
7. [What could come next](#7-what-could-come-next)

## 1. The system

A web shop: an Angular frontend, a FastAPI backend (async SQLAlchemy on
PostgreSQL), a media worker, and payment providers (Stripe, PayPal, Netopia).
All lasting state is in PostgreSQL. Its actors are

- **requests**: one handler, one database session (`app/db/session.py`). The
  handler may commit several times; what it has not committed when it ends is
  rolled back. Isolation is READ COMMITTED, with `autoflush=False` and
  `expire_on_commit=False`: an object once loaded is never refreshed by a later
  query, not even by `SELECT ... FOR UPDATE`;
- **payment notices**: webhooks, which providers repeat, and the customer's own
  return to the shop, which reports the same payment once more;
- **schedulers**: tasks of every API process, of which one process is elected
  per scheduler through a PostgreSQL advisory lock (`app/services/leader_lock.py`);
- **the media worker**: processes that take jobs from a table, or from a list in
  Redis;
- **browsers**: the Angular application keeps state of its own (tokens, the cart,
  the state of a checkout, drafts) and has several requests under way, whose
  answers come in any order, late or never. A subscription nobody ends outlives
  the page that made it; an application loaded anew hears nothing of the old one.

The actors of the backend interact through rows only. Nothing but row locks,
unique constraints and advisory locks orders them. Browsers see what requests
answer.

| Component | State | Operations | What makes it correct |
|---|---|---|---|
| Orders and stock: `services/order.py`, `api/v1/orders.py` | order rows, order events, `stock_quantity` | checkout, status updates, capture, void, refund, adjustment | stock taken once and given back once; statuses follow `ALLOWED_TRANSITIONS`; open orders reserve what they ask for |
| Order expiration scheduler | none of its own | a pass cancels unpaid orders | never cancels a paid order |
| Coupons: `services/coupons_v2.py` | reservations, redemptions | evaluate, reserve, redeem, release | uses stay within the caps; one redemption per order |
| Leader lock | advisory locks, one pooled connection per process | connect, try, run, release | one leader; somebody leads |
| Payment events: `api/v1/payments.py`, `services/webhook_handlers.py` | webhook records, payment events | receive, process, retry | each payment takes effect once, and does take effect |
| Return pages: `pages/checkout/*-return.component.ts` | what the customer is shown | confirm, retry, time out | success is shown for a payment that was made and recorded |
| Refunds and returns: `services/order.py`, `services/returns.py` | refund rows, return requests | partial refund, status update | refunds stay within the total; statuses follow the table |
| Cart and checkout: `core/cart.store.ts`, `pages/checkout/`, `services/cart.py`, `api/v1/orders.py` | the cart in the store, on the page and on the server; `Cart.last_order_id` | edit, sync, load, quote, place, retry | nothing is lost from the cart; one order per cart; no page hangs |
| Sign-in: `core/auth.service.ts`, `core/http.interceptor.ts`, `api/v1/auth.py` | tokens of the tabs, refresh sessions | sign in, rotate, sign out, revoke | a login has one live session and is closed for good; parallel tabs survive |
| Passkeys, one-time codes | a counter, a challenge | register, verify | replay is refused |
| Media: `services/media_dam.py`, `workers/media_worker.py` | jobs, assets | enqueue, run, retry | no job is stranded; each is completed or ends as a dead letter |
| Content editor: `pages/admin/admin.component.ts`, `services/content.py` | form, history, autosave, a versioned block | edit, undo, save, reload, restore | what is unsaved can be restored; nothing unseen is overwritten |
| Audit chain | a hash chain | append | the chain has no forks |
| Catalog, inventory reports, pricing, taxes | product rows | CRUD, adjustments, arithmetic | sums and rounding |
| Themes, blog, newsletter, support, lockers, exchange rates, exports, admin API | rows of their own | CRUD, caching, files | each within one request |
| The rest of the frontend | forms and lists | show, send | layout, wording, validation |

Checkout (`api/v1/orders.py`) is where the first three meet: it evaluates the
coupon, calls `build_order_from_cart`, which locks the stock rows and commits
the order, and then reserves the coupon in a transaction of its own. A captured
payment commits the order and then redeems the coupon. A cancellation commits
the order, gives the stock back, and then releases the coupon. Every "then" is
a place where the request may stop and where another one may come in.

The behaviours that are hard to test, each at its line, are the `hazards` of
`PROJECT.json`.

## 2. The modules

| Module | Models |
|---|---|
| `OrderStock` | orders, their stock and its row locks; detailed |
| `StockLedger` | what the stock events promise; abstract, implemented by `OrderStock` |
| `Coupons` | the uses of one capped coupon |
| `LeaderLock` | the election of the schedulers' leaders |
| `Payments` | the payment of one order, from the provider back to the shop |
| `Checkout` | a cart on its way from the store to an order |
| `AuthSession` | the tokens of the tabs and the refresh sessions behind them; detailed |
| `Logins` | what the refresh sessions of an account promise; abstract, implemented by `AuthSession` |
| `CmsEditor` | the editor of the home page, its draft manager and the versioned block |
| `MediaJobs` | one background job of the media library |
| `MCOrderStock`, `MCCoupons` | values of the constants for TLC |
| `MCPages` | `Checkout` and `Payments` for one run |
| `MCBrowser` | `AuthSession` and `CmsEditor` for one run |
| `MCBackground` | `LeaderLock` and `MediaJobs` for one run |
| `OrderStockProofs`, `CouponsProofs`, `PaymentsProofs`, `CmsEditorProofs`, `MediaJobsProofs` | theorems about one component each |
| `BackgroundProofs`, `BrowserProofs`, `PagesProofs` | theorems about `LeaderLock`, `AuthSession` and `Checkout`, and about each of these together with the other part of its run |

The two modules that `MCPages`, `MCBrowser` and `MCBackground` put together share
no state. A variable `part` says whose behaviour it is; the other part keeps one
initial state. The runs check both parts, not their product.

A definition whose comment begins with "Slip" is no part of a model. It is a
plausible mistake in the definition that follows it; with the slip in its place
the property named with it in `PROJECT.json` ("mutants") fails. It is there to
show that the property depends on that piece of the code.

### OrderStock

`req[s]` is the request session `s` serves: the handler, its order, the status
it will write, and `seen`, the stock it loaded. `Load...` actions are the load
at the start of a handler with its guards; `LockOrder` and `LockRow` are the
`SELECT ... FOR UPDATE` it waits in; the remaining actions are its commits.
Three facts of the sessions are modelled exactly, because the properties hang
on them:

- `stock_quantity` is taken from `seen`, the object loaded before the lock, and
  written back from it;
- event rows and sums of reserved quantities are queries of columns, answered
  from what is committed at that moment (`StockAct`, `Reserved`);
- a status is written from the status that was loaded, by an UPDATE that names
  no expected value (`SetStatus`). It only waits for a row lock (`CanWriteOrder`).

| Code | Actions |
|---|---|
| `build_order_from_cart` | `LoadCart`, `LockRow`, `InsertOrder`, `RefuseOrder` |
| `update_order`, `_commit_stock_for_order`, `_restore_stock_for_order` | `LoadUpdate`, `LockOrder`, `LockRow`, `CommitUpdate`; `WriteUpdate` for the targets that move no stock |
| `void_payment` | `LoadVoid`, `WriteVoid` (its `_log_event` commits), then `LockOrder`, `LockRow`, `CommitUpdate` |
| `refund_order`, `create_order_refund` | `LoadRefund`, `WriteRefund` |
| `capture_payment`, the webhooks, `confirm_stripe_checkout` | `LoadCapture`, `WriteCapture` |
| `apply_stock_adjustment` | `LoadAdjustment`, `WriteAdjustment` |
| `order_expiration_scheduler._run_once` | `LoadExpired`, `WriteExpired`, `DropExpired` |
| errors, lost connections, stopped processes; PostgreSQL's deadlock detector | `Abort`; `BreakDeadlock` |

A SKU is a row with a stock quantity. Products and variants behave alike here;
the lock order of checkout (products by id, then variants by id) is the order of
the numbers.

### StockLedger

Per order: its stock is whole, then taken, then returned; each of them once,
never more than asked for, and all of it given back. `OrderStock` implements it
with the mapping from event rows to phases (`Phases`, `Holdings`).

### Coupons

Per order a reservation row and a redemption row, plus the lock of the coupon
row. A use is a live reservation or an active redemption (`Uses`, `UsesBy`).

| Code | Actions |
|---|---|
| checkout: `evaluate_coupon_for_cart`, `create_address`, `build_order_from_cart` | `Apply`, `SaveAddress`, `Place` |
| `reserve_coupon_for_order` | `LockForReserve`, `Count`, `InsertReservation` |
| a capture, then `redeem_coupon_for_order` | `Capture`, `LookForRedemption`, `LockForRedeem`, `CommitRedemption`, `RefuseSecondRedemption` |
| a cancellation or refund, then `release_coupon_for_order` | `Close`, `DropReservation`, `VoidRedemption` |
| the reservation's and the order's time to live | `Expire`, `ExpireOrder` |
| a request that stops | `Abort` |

The status of an order is kept as coarse as these handlers see it. `Capture`
and `Close` may come at any time after the order was placed, which is more than
the status guards of each single handler allow; the order's own moves are
`OrderStock`'s business.

### LeaderLock

Per process and scheduler the place its task has reached in `run_as_leader`;
per process the owner of the one connection of its leader pool and whether that
connection has lost its session; per scheduler the process whose session holds
the advisory lock.

| Code | Actions |
|---|---|
| `main.py`, `lifespan` | `Start`, `StopTask`, `Exit` |
| `async with _leader_engine().connect()` | `Connect`, `PoolTimeout`, `ConnectFails` |
| `pg_try_advisory_lock` and the wait of a loser | `TryLock`, `AskFails`, `Wake` |
| the loop and its `finally` | `WorkStops`, `WorkFails` (both through `Leave`) |
| `except` clauses | `Cancelled`, `Retry` |
| the world | `Crash`, `LoseSession` |

The pool's timeout (30 s) against a loser's wait with the connection in hand
(15 s) is reduced to its effect: a wait in the pool times out only if a leader
has the connection or another task waits too. With two schedulers that is
exact; with more it allows timeouts that are merely possible.

### Payments

The payment of one order by Stripe or by PayPal: `money` is what the provider
knows of it, `status`, `captures` (its `payment_captured` events) and `redeemed`
what the shop has recorded, `record` the row of the webhook event. A delivery of
the event and a request of the return page are both a `req[r]` that loads
(`saw`, `was`), asks PayPal, writes, redeems and answers.

| Code | Actions |
|---|---|
| the customer at the provider | `Pay` |
| `stripe_webhook`, `paypal_webhook`: record, process, mark | `Deliver`, `LoadEvent`, `Mark` |
| `process_stripe_event`, `process_paypal_event` | `LoadEvent`, `Capture`, `CaptureRefused`, `Write`, `Redeem` |
| `confirm_stripe_checkout`, `capture_paypal_order` | `LoadConfirm`, `Capture`, `CaptureRefused`, `Write`, `Redeem` |
| `StripeReturnComponent`, `PayPalReturnComponent` | `Return`, `Retry`, `Answer`, `ConfirmTimesOut` |
| `order_expiration_scheduler._run_once` | `LoadExpired`, `WriteExpired` |
| a request that raises, a process that dies | `Fail` |

The order and its events are two queries in the code and one step here; nothing
deletes events, and a request that sees more of them does less. A capture at
PayPal has an id.

### Checkout

The cart of a signed-in customer as the three that keep it see it (`items` of the
store, `rows` of the server, the page's answers), the cart requests under way
(`call`), the fields of the checkout page (`co`) and the orders submitted (`sub`),
each of which loads the cart, looks for the order `last_order_id` points to, and
creates one.

| Code | Actions |
|---|---|
| `CartStore` (`core/cart.store.ts`) | `Edit`, `StoreTimerFires`, `ClearCart`, `ShowPage`, `StoreAnswered` |
| `ngOnInit`, `queueCartSync`, `syncBackendCart`, `retryValidation` | `EnterCheckout`, `Retry`, `PageAnswered` |
| `applyPromo`, `refreshQuote` | `Quote`, `QuoteAnswered` |
| `setPaymentMethod`, `placeOrder` | `SetMethod`, `PlaceTooEarly`, `PlaceOrder` |
| answers to a submission, the timeout of 20 s | `PlacedCod`, `PlacedCard`, `NotPlaced`, `TimeOut` |
| the same after the page was left | `LeftAnswered`, `LeftPlacedCod`, `LeftPlacedCard`, `LeftNotPlaced` |
| the router, the pages of the provider | `OpenCheckout`, `BackToCart`, `Paid`, `NotPaid` |
| `get_cart`, `sync_cart` | `CartRead`, `CartWritten`, `CallFails` |
| `checkout` (`api/v1/orders.py`) | `CartLoaded`, `Look`, `CreateOrder`, `Refuse` |

A timer of 0 ms is not a step of its own: it fires before anything the customer
does next. A checkout page that was left may redirect more than once in the
model, where a browser follows the last redirect.

### AuthSession and Logins

The tokens each tab holds, the one cookie they share, the refresh sessions with
their replacements (`next`), and every `POST /auth/refresh`, sign-out and
revocation under way.

| Code | Actions |
|---|---|
| `authAndErrorInterceptor`, `ensureAuthenticated`, guards, revalidation hooks | `WaitForTokens`, `UserUnknown` |
| `refreshSession` of the account page | `RefreshNow` |
| `refresh` (shared while in flight) and its answer | `JoinRefresh` in these; `Refreshed`, `NotRefreshed`, `LoseRefresh` |
| `refresh_tokens` (`SELECT ... FOR UPDATE`, rotation, grace period, refusals) | `LockRow`, `Rotate`, `Reuse`, `Refuse`, `GraceEnds` |
| sign-in, sign-out, revoke-others | `SignIn`; `SignOut`, `EndSession`, `SignedOut`, `LoseLogout`; `RevokeOthers`, `RevokeRead` |
| a page loaded anew, whose old requests are unheard | `Reload`, `Drop` |

`Logins` says what this amounts to: a login is opened once, by a password, and
closed for good. A login is open while one of its sessions is live
(`LoginStatus`), so a refresh in flight, retried or within its grace period must
not revive one that has ended.

### CmsEditor

The form, the draft manager (`draft`: history, pending value, autosave offered),
the local storage, the version the page knows, its loads and saves under way, and
the block with its version on the server.

| Code | Actions |
|---|---|
| `CmsDraftManager`: `observe` and its timer, `undo`, `redo` | `Type`, `Poll`, `CommitTimer`, `Undo`, `Redo` |
| `restoreAutosave`, `discardAutosave` | `Restore`, `Dismiss` |
| `loadSections` | `AnswerLoad`, `Loaded`, `NotLoaded` |
| `saveSections`, `markServerSaved`, `handleContentConflict` | `Save`, `Saved`, `Conflict`, `NotSaved` |
| `upsert_block` | `ReadBlock`, `WriteBlock`, `AnswerSave` |
| `ngOnDestroy`, `discardUnsavedChanges`; the browser | `LeaveAndReturn`, `LeftAnswered`; `Reload`, `Unheard`, `Fail` |
| another administrator | `OtherSaves` |

Two history variables name the exceptions of the properties: `mixed`, saves have
overlapped (the server reads the version and writes without a lock, so both
pass), and `cut`, the answer to a save of a page since left has cleared the
storage; that excuses only a storage that is still empty.

### MediaJobs

One job: its row, how often its id is in the list of Redis, and what each
database session is at. `act[x].row` is the row as the session loaded it; an
UPDATE writes only the columns that the session has changed since (`Updated`),
so what two sessions write may mix.

| Code | Actions |
|---|---|
| `enqueue_job` and the requests that use it; `queue_job` | `Create`; `Push` |
| `_run_media_job_in_background`, `run_media_worker`, `_process_queued_jobs_once` | `LoadAgain`, `Pop`, `Select` |
| `process_job_inline` | `Start`, `Succeed`, `Fail` |
| `enqueue_due_retries`; `manual_retry_job`, `bulk_retry_jobs` | `LoadDue`, `Requeue`; `LoadRetry`, `Requeue` |
| exceptions, processes that die | `Stop` |

Which delay a retry has is left open. The step between `Requeue` and `Push` is
where a job may be queued with no id in the list.

## 3. What the runs check

| Run | Instance | States | Shows |
|---|---|---|---|
| `orders_concurrent` | a card and a COD order for the one unit of a SKU, 2 sessions, one adjustment by -1, the scheduler | 567 248 | `TypeOK`, `StockMovedOnce`, `FulfilledTookStock`, and `LedgerSpec`: whatever overlaps, stops or deadlocks, an order's stock is taken once and given back once |
| `orders_serial` | orders of one and of two units over two SKUs with two units each, one of them with backorder; one request at a time, with failures | 2 189 | `StockConserved`, `NoOversell`, `FulfilledHoldsStock`, `MovesFollowTable` |
| `orders_locks` | two orders over two SKUs, 2 sessions, fair | 89 891 | `CheckoutsNeverDeadlock`; `RequestsFinish`, with PostgreSQL breaking the deadlocks that updates run into |
| `orders_oversell` | two COD orders, one unit | | expected violation of `NoOversell` |
| `orders_resurrect` | two units, 2 sessions | | expected violation of `MovesFollowTable` |
| `coupons_caps` | three orders of two customers, one COD; two uses, one per customer; 2 sessions | 117 505 | `TypeOK`, `CountStillRight`, `ReservedWithinCaps`, `VoidedForGood`, `RedeemingAddsNoUse` |
| `coupons_overrun` | the same | | expected violation of `RedeemedWithinCaps` |
| `background` | 2 processes, 2 schedulers, 2 disruptions; or a job with 2 sessions, 3 attempts, one manual retry, one session that dies, with Redis or without; fair | 42 204 | `TypeOK`, `LeadersHoldTheLock`, `LocksGivenBack`, `OnlyLeadersKeepOthersWaiting`; `MediaTypeOK`, `NotStranded`, `EveryJobEnds` |
| `leader_starved` | 1 process, 2 schedulers, no disruption, fair | | expected violation of `EverySchedulerRuns` |
| `browser` | 2 tabs, 3 refresh sessions, one event (sign-out, revocation, reload, lost refresh); or an editor with 2 contents, a history of 1, 3 requests, 3 versions, 3 edits | 689 241 | `TypeOK`, `OneLivePerLogin`, `OneRequestPerWait`, `TokensNeverGoBack`, `LoginSpec`; `EditorTypeOK`, `AutosaveKeepsUp`, `NothingUnseenReplaced` |
| `pages` | a checkout with 2 cart requests, 2 submissions, one event; or a payment with 2 deliveries, one request of the return page, 2 faults; fair | 213 132 | `TypeOK`, `CartSurvives`, `SecondOrderOnlyByOverlap`, `NeverStuck`; `PaymentTypeOK`, `SuccessMeansRecorded`, `ProcessedMeansDone`, `RecordedOnce`, `PaidIsRecorded` |
| `checkout_twice` | a checkout with 2 cart requests, 2 submissions, no event | | expected violation of `RetryFindsTheOrder` |

**Why the bounds are enough.** Every race in this code is between two requests
over one row, because a handler takes part in a race with what it loaded and
what it locks; two sessions and two orders give each pair of handlers, and the
scheduler is a third actor. Two SKUs are needed for a lock order to matter, one
unit for a shortage, two for an order to be served in part (`max(0, ...)`).
Three orders make the global cap (two) bind across customers and the
per-customer cap (one) within one; the lock of the coupon row serialises any
two of them. Two disruptions let a second failure hit the recovery from a
first. In the browser the races are between two answers, or an answer and a
timer or a click: two requests, and in the editor a third so that two saves may
overlap a load. Three refresh sessions are a login, its rotation, and either a
second rotation or a second login. A second order needs two submissions. Three
attempts let a media job fail, be retried and fail with a row of the attempt
before. The theorems of section 4 lift most of the safety part to all values;
`pages` has one request of the return page, and `PaymentsProofs` any number.

**Bounds by name.** `MaxAdjustments` caps the manual adjustments,
`MaxDisruptions` the crashes, shutdowns, lost connections and errors of
`LeaderLock` (a rolling restart of both processes is two), `MaxFaults` the
requests of `Payments` that fail or die, `MaxCalls`, `MaxOrders` and `MaxEvents`
the cart requests under way, the submissions, and whatever a straight checkout
does without; `MaxSessions` and `MaxEvents` the refresh sessions and the
disturbances of `AuthSession`; `Limit` is the code's own limit of the history
(60 there), `MaxRequests`, `MaxVersion` and `MaxEdits` bound the editor's
requests, the versions and the edits; `MaxRetries` and `MaxStops` the manual
retries and the sessions that die in `MediaJobs`, `MaxIds` the ids in the list (8
are never reached). Everything else is finite by nature: an order is placed
once, its events are written once.

**Symmetry.** Sessions are interchangeable: no definition compares them other
than for equality. They are declared symmetric in the safety runs
(`orders_concurrent`, `coupons_caps`), as are the tabs in `browser`, never where
liveness is checked.

**`CHECK_DEADLOCK FALSE`** is in `orders_locks`, where nothing is left to do once
both orders are refunded or cancelled; in `browser`, `pages` and
`checkout_twice`, where customers and administrators may stop once the bounds
are used up or the order is paid; and in `background`, where a media job is at
its end for good.

**Fairness.** `OrderStock`: strong fairness per session, since a handler that
can run does run and PostgreSQL serves the waiters of a row lock first come,
first served, so a waiter cannot be passed over for ever; weak fairness of the
deadlock detector. No fairness of arrivals, of failures or of the scheduler.
`LeaderLock`: weak fairness of each task's own steps (an event loop runs what
can run, timeouts fire) and of a shutdown that has begun; strong fairness of
`Connect`, because the pool serves its waiters in turn. No process need ever
start, and no leader's loop need ever end. `MediaJobs`: strong fairness of each
session's work, for the row lock again; weak fairness of taking work up, which
the worker's endless loop does. No job need be created or retried by hand.
`Checkout`: a cart request ends, if only with an error, its answer is handled,
and the timeout of a submission fires; nothing is assumed of the customer, nor of
how long the server works on an order. `Payments`: a delivery under way ends
and the provider delivers an event until it is answered; the customer need not
return. `AuthSession` and `CmsEditor` have no liveness: a tab that waits for
tokens has a request under way (`OneRequestPerWait`), and whether that ends is up
to the network.

**Coupons has no liveness.** A reservation that is never paid just expires, and
no request waits for anything but the coupon row.

## 4. What is proved

Every theorem holds for all values of the constants that the named assumptions
admit (`OrderAssumption`, `CouponAssumption`, `LeaderAssumption`,
`BoundAssumption` of `Checkout`, `SessionAssumption`: types, "None is no session", and finite
sets of what is counted or summed). `Payments`, `CmsEditor` and `MediaJobs` are
instantiated, so their assumption is an operator (`PaymentAssumption`,
`EditorAssumption`, `MediaAssumption`): a hypothesis of the theorems of their
proof modules, and an `ASSUME` of the module that instantiates them, which TLC
evaluates.

Every safety property, action property and refinement that a passing run checks
is stated by a theorem.

**OrderStockProofs, overlapping requests.** `TypeCorrect`, `MovedOnce`,
`FulfilledCommitted`, `ImplementsLedger` and `NoCheckoutDeadlock`.
`StockMovedOnce` is not inductive: a request past `LockOrder` has decided to take or to return on the strength of event rows it read some
steps ago. `IInv` adds `Decided`: such a request still holds the order row, so
the events are as it read them, and `need` is what the decision locks;
`HarmlessGoal`: a request that skips the order row never writes a fulfilled
status; `AdjustmentFits`: an adjustment in flight does not take the stock below
zero; and `WellFormed`, which ties `pc` to `op`. The refinement then has one
interesting step, `CommitUpdate` (`CommitEvents` says what it does to the
events); all others leave the ledger alone (`OnlyCommitMovesEvents`), and
`DeductedBound` says that no more is deducted than asked for. `NoCheckoutDeadlock`
proves `CheckoutsNeverDeadlock` from a second invariant over the first,
`LocksInOrder`: a checkout that holds a stock row holds every smaller one it
needs. Of two rows that two checkouts wait for crosswise, the holder of the
larger would then also hold the smaller.

**OrderStockProofs, serial requests.** `SerialHoldsStock`, `SerialFollowsTable`,
`SerialConserves` and `SerialNoOversell` prove for `SerialSpec`, where the next
request or scheduler pass begins when all is quiet, what section 5 shows to fail
when requests overlap. A serial step is a step of `Next` (`SerialIsNext`), so
`IInv` holds there too. `SerialInv` adds to it:

- `Alone`: one request at a time, none during a scheduler pass, and a pass over
  orders that are still unpaid;
- `Fresh`: what the request has loaded and decided (`Knows`: the stock in `seen`,
  the decision in `act` and `need`, the status its `goal` was computed from) is
  what it would load and decide now. This is the hypothesis that each of the two
  counterexamples of the concurrent runs breaks, and the only thing that
  seriality is needed for;
- `StatusTellsStock`: stock has been taken only from orders that are fulfilled,
  cancelled or refunded, and no other rows than the order's own; it has been
  given back only by cancelled ones.

`NextMoves` follows: every handler that writes a status writes it over the status
it was computed from. `SerialNoOversell` is proved under the hypothesis
`Deltas \subseteq Nat`, no manual adjustment takes stock away, as in the run:
`apply_stock_adjustment` looks at the stock alone and may leave less than the open
orders reserve, by itself and with no other request around. No other step does:
`OnlyAdjustmentUncovers` says so without the hypothesis. The checkout's own
comparison (`InsertFits`) then stays true because only a checkout reserves
(`OnlyCheckoutReserves`), and an order that takes its stock gives up a reservation
of at least as much (`TakeReleases`).

*Sums.* `StockConserved` and `NoOversell` speak of sums over all orders, and
`SumFunctionOnSet` is a recursive function: a CHOOSE of some function that
satisfies an equation. That there is one (`SumsExist`), that the sum does not
depend on the order in which the terms are taken (`SumTakeOut`), and what one
changed, added or smaller term does to it (`SumChange`, `SumAppend`,
`SumMonotone`) are proved for every finite set by taking a minimal subset of which
it fails (`MinimalSubset`, from the library's theorem that strict inclusion of
finite sets is well-founded). That takes no induction theorem with an operator
parameter.

**CouponsProofs.** `CouponsTypeCorrect`, `CountTrusted`, `CapsBindReservations`,
`VoidedStays` and `RedeemedOnce`. The argument: who is between the lock and the commit holds
the coupon row (`OneHolder`), so meanwhile no other request can reserve or
redeem, and what does happen, releases and expiry, only lowers the uses
(`UsesShrink`, `StillLeft`). Hence the count still holds when the reservation is
inserted (`CountStillRight`), and one more stays within the caps (`AddOne`,
`OneMoreUse`). `RedeemedOnce` proves `RedeemingAddsNoUse`: only the commit of a
redemption makes one active (`RedeemedBy`), and it moves the order from the
reserved to the redeemed (`MoveOne`).

**BackgroundProofs.** `LeaderTypeCorrect`, `LeadersElected`, `NoLockLeftBehind`
and `OneLeader`: two processes run one scheduler only while the connection of
one of them is dead. `IInv` adds `OneConnection` (a task that uses a connection
has the pool's only one) and `NoDeadLock` (a dead session holds no lock).
`MediaTypeCorrect` and `MediaNotStranded`: see the last paragraph of this section.

**PaymentsProofs.** `TypeCorrect`, `SuccessIsTrue`, `ProcessedIsDone` and
`OneCapture`, for any number of deliveries, return requests and failures.
`ProviderInv` ties the stage of a request to what the provider knows, `DoneInv`
to what the order records (a request that saw a capture is right about it for
ever, one that is past its write has made one), and `OverlapInv` says when at
most one request can be about to record the payment: always with PayPal, which
captures once, and with Stripe unless two requests have overlapped. `CountInv`
bounds the captures by the requests that have not seen one.

**PagesProofs.** `TypeCorrect`, `CartIsNotLost` and
`OnlyOverlapMakesASecond`. `PageInv` says what the flags of the page mean
(placing has one submission to wait for, syncing one sync, never both);
`OrderInv` relates the pointer of the cart to the orders, and a submission that
has looked to those it may have missed; `CartInv` says that nothing under way can
empty a cart nobody has emptied.

**BrowserProofs.** `TypeCorrect`, `LoginsHaveOneSession`, `WaitsAreServed`,
`NewerTokensOnly` and the refinement `ImplementsLogins`. One live session per
login is not inductive: a rotation acts on what it read, so the row it has locked
must still be as it read it (`LockedAsSeen`), which takes that nobody else has it
locked (`OneLock`) and that a session is replaced only by a younger one of its
login (part of `TypeOK`). That tokens never go back rests on what is in flight: a
tab has one request, which presents the newest token of its login
(`AsksWithNewest`) and is answered with no older one (`AnswersFollow`).

**CmsEditorProofs.** `TypeCorrect`, `UnsavedIsStored` and `OnlySeenIsReplaced`,
for any contents, length of the history and number of requests. `DraftOK` relates
the manager to the storage: where it says "unsaved", the storage has the present
value, or the timer is yet to fire. (A dismissed autosave is the odd case: the
storage is emptied, and what is typed next is not stored before the timer.)
`RequestOK` says that a version in a request was shown to the user.

**MediaJobsProofs.** `TypeCorrect` and `JobsNotStranded`. Little has to be added:
no session has seen a job that is being processed, and a sweep has loaded a job
that had failed (`SeenOK`). The work is in the row after a run (`Finished`): both
UPDATEs write the attempts and the status whatever has been written since, so
none of the row's end comes from another session, except that a retry time may be
missing after an administrator's retry was written over it.

**The parts of a run.** `background`, `browser` and `pages` check a specification
that is one of two components. `PartsAreSpecs` (in `BackgroundProofs`,
`BrowserProofs` and `PagesProofs`) proves that its behaviours are behaviours of
both: what one part does, the other stutters. With it the theorems of
`MediaJobsProofs`, `CmsEditorProofs` and `PaymentsProofs`, instantiated with the
run's variables, become theorems about the very properties that the runs check:
`MediaTypeCorrect`, `MediaNotStranded`; `EditorTypeCorrect`, `AutosaveInBrowser`,
`SeenInBrowser`; `PaymentTypeCorrect`, `SuccessOnPages`, `ProcessedOnPages`,
`RecordedOnceOnPages`. `Checkout`, `Payments` and `MediaJobs` state fairness apart
(`FairSpec`): the theorems need none of it.

**Only model-checked.** Liveness (`RequestsFinish`, `OnlyLeadersKeepOthersWaiting`,
`NeverStuck`, `PaidIsRecorded`, `EveryJobEnds`): the provers handle neither
fairness nor ENABLED.

## 5. What the code does not keep

Each is a run whose violation is expected, and a `findings` entry with the line
that promises otherwise.

- **The last unit is sold twice** (`orders_oversell`). Checkout locks the stock
  rows, but compares the reservations of that moment with the stock it loaded
  before the lock. An order accepted in between is in neither: its reservation
  is gone and its deduction is not seen.
- **A cancelled order comes back** (`orders_resurrect`). A capture that loaded
  the order as `pending_payment` writes `pending_acceptance` over a cancellation
  committed since, also over one by the expiration scheduler. (The scheduler in
  turn may cancel an order captured since it loaded it: a move the table allows,
  and the exception `cancelled` in the properties of `Payments`.)
  This is also why `FulfilledHoldsStock` is a property of the serial run alone:
  with overlapping requests a paid order that was voided, and whose stock was
  returned, may come back and be shipped on stock it no longer has.
  `FulfilledTookStock`, which holds everywhere, only says that the stock was
  taken at some time.
- **Redemptions exceed the caps** (`coupons_overrun`). Redeeming counts nothing.
  A payment that comes after its reservation expired and was cleaned up, or
  whose reservation was refused after the order was committed with the
  discount, is redeemed on top.
- **A retry makes a second order** (`checkout_twice`). Writing the cart resets
  `last_order_id`, by which a submission finds the order already made of it
  (`services/cart.py:674`). When the answer to a submission is an error although
  the order was committed, the card that shows it offers a retry
  (`checkout.component.ts:1825`), which sends the same cart again; placing it
  again makes a second order. Submitting again without that retry finds the
  first one: as long as the pointer stands, the server's guard fails for
  overlapping submissions only (`SecondOrderOnlyByOverlap`).
- **One scheduler runs, the others never do** (`leader_starved`). The leader
  pool has one connection, kept by a leader as long as its loop runs, so one
  process leads one scheduler. Production runs one process and several
  schedulers.

`StockConserved` too is kept by serial requests only: two requests that loaded
the same quantity overwrite each other's deduction. It follows from the same
stale read as the first.

Some more of what the code does is an exception a property has to name, since no
line of the repository promises otherwise: a Stripe payment is recorded twice by
two requests that overlap (`overlapped`); a PayPal capture whose answer was lost
is refused ever after, so `PaidIsRecorded` is about Stripe; two saves of a block
that overlap both pass its version check (`mixed`); the id of a media job that
a worker has popped is lost with the worker, and a queued job without its id is
looked for by nobody while there is Redis (`dropped`).

## 6. What is left out, and why

- *In OrderStock*: `shipped_quantity` in the reserved sum (open orders have none),
  stock set through a product edit, `cancel_reason` and other payload checks,
  addresses, labels, documents and mails. The clock: which pending orders are
  past their 120 minutes is left open (`LoadExpired` takes any batch).
- *In Coupons*: visibility, assignments, `is_active`, date windows and unlimited
  caps, all of which only refuse earlier or count less; amounts; administration
  and bulk jobs. A coupon that may be used without limit has no property here.
- *In LeaderLock*: databases other than PostgreSQL, where every process runs every
  scheduler by design.
- *In Payments*: Netopia, disputes and refunds reported by a provider, how
  signatures are verified, `payment_intent.succeeded` (the same work under a
  record of its own), what an administrator does with the order meanwhile.
- *In Checkout*: guests and the merge of their carts, quantities, prices and stock
  limits, saved items, addresses, shopping on after an order, several tabs.
- *In AuthSession*: the second factor, other accounts in the same browser,
  impersonation, the expiry of a session after days, rotation switched off.
- *In CmsEditor*: pages and blog posts (managers of the same class, the same
  update on the server), publication and its schedule, translations, a storage
  that refuses to be written, other tabs.
- *In MediaJobs*: what a job does to its asset, the delays of the retry policy and
  its history, triage, a Redis that loses its list, other jobs.
- *Not modelled at all*: see the table of section 1 and `components` in
  `PROJECT.json`, each with its reason: CRUD within one transaction, files, mail,
  cryptography, caches of external lists.

By lines most of the frontend and much of the backend are not modelled, and would
not gain by it: of some 116 000 lines the definitions of the models name about
1 650, and say what these do to the state.
Components such as `pages/admin/` fill forms, send them and show the answer, one
request at a time; the backend's CRUD handlers read and write rows of one
transaction and are well reached by the repository's tests. The models are of the
code where the order of events matters.

## 7. What could come next

1. Refunds and returns: partial refunds against the total
   (`services/order.py:2449`), return requests against their table.
2. The bulk jobs of coupons (`api/v1/coupons_v2.py`, `_run_bulk_segment_job`):
   batches, cancellation between them, two jobs over the same customers; and the
   first-order reward.
3. Guests: the merge of a guest's cart at sign-in, `Checkout` with two tabs.
4. The managers of pages and blog posts in `CmsEditor`, with publication.
5. Theorems between `SerialSpec` and `Spec`: a weaker discipline of arrivals under
   which the four serial theorems still hold, such as requests that overlap over
   disjoint orders and SKUs only.
