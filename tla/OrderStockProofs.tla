-------------------------- MODULE OrderStockProofs --------------------------
(***************************************************************************)
(* Proofs about OrderStock for any number of orders, SKUs and requests.    *)
(*                                                                         *)
(* Overlapping requests (Spec).  None of the properties proved here is     *)
(* inductive as it stands: a request decides under the order's row lock    *)
(* what it will do to the stock and acts on that decision several steps    *)
(* later, so IInv says what stays true of a decision while its session     *)
(* holds the lock (Decided), and which statuses a lock-free writer may     *)
(* still carry (HarmlessGoal).  Then: the events implement StockLedger,    *)
(* and checkouts lock in order (LocksInOrder).                             *)
(*                                                                         *)
(* One request or scheduler pass at a time (SerialSpec).  The statuses,    *)
(* the books and the reservations rest on a handler's knowledge still      *)
(* being true when it is used (SerialInv), and on what a sum over all      *)
(* orders does when one of its terms changes.                              *)
(***************************************************************************)
EXTENDS OrderStock, SequenceTheorems, FiniteSetTheorems, WellFoundedInduction, TLAPS

\* A request that has read the event rows holds the order's row lock, and what
\* it read is still so.
Decided ==
  \A s \in Sessions :
    Busy(s) /\ req[s].pc = "rows" /\ req[s].op \in {"update", "void"} =>
      LET o == req[s].order IN
        /\ orderLock[o] = s
        /\ req[s].act = "none" => req[s].need = {}
        /\ req[s].act = "take" => commits[o] = <<>>
        /\ req[s].act = "return" => commits[o] # <<>> /\ restores[o] = <<>>
        /\ req[s].op = "update" /\ req[s].goal \in Fulfilled
             => req[s].act = "take" \/ commits[o] # <<>>

\* Only an update that has passed through the order's lock can write a
\* fulfilled status.
HarmlessGoal ==
  \A s \in Sessions :
    Busy(s) /\ (req[s].pc = "write" \/ req[s].op \in {"checkout", "void"})
            /\ req[s].op # "adjust"
      => req[s].goal \notin Fulfilled

\* An adjustment that passed its check leaves no negative stock.
AdjustmentFits ==
  \A s \in Sessions :
    Busy(s) /\ req[s].op = "adjust" => req[s].seen + req[s].delta \in Nat

\* Checkouts only wait for stock rows; only updates and voids go through the
\* order's lock; adjustments have the record type of their own.
WellFormed ==
  \A s \in Sessions : Busy(s) =>
    /\ req[s].op = "adjust" => req[s] \in Adjusting
    /\ req[s].op # "adjust" => req[s] \in Requests
    /\ req[s].pc = "order" => req[s].op \in {"update", "void"}
    /\ req[s].pc = "rows" => req[s].op \in {"checkout", "update", "void"}
    /\ req[s].op # "adjust" /\ req[s].goal = "keep" => req[s].op = "capture"

IInv ==
  /\ TypeOK
  /\ WellFormed
  /\ AdjustmentFits
  /\ HarmlessGoal
  /\ Decided
  /\ StockMovedOnce
  /\ FulfilledTookStock

\* The empty shop the model starts from satisfies the invariant.
THEOREM InitIInv == Init => IInv
<1> SUFFICES ASSUME Init PROVE IInv
  OBVIOUS
<1> USE OrderAssumption
<1>1. TypeOK
  BY DEF Init, TypeOK, Lines
<1>2. WellFormed /\ AdjustmentFits /\ HarmlessGoal /\ Decided
  BY DEF Init, WellFormed, AdjustmentFits, HarmlessGoal, Decided, Busy
<1>3. StockMovedOnce /\ FulfilledTookStock
  BY DEF Init, StockMovedOnce, FulfilledTookStock, Fulfilled
<1> QED
  BY <1>1, <1>2, <1>3 DEF IInv

-----------------------------------------------------------------------------
(* A handler that loads: a new request, and nothing else changes.           *)

\* What a handler loads of the stock is a line vector.
LEMMA SnapshotType ==
  ASSUME TypeOK, NEW o \in Orders
  PROVE  Snapshot(o) \in Lines
BY DEF TypeOK, Snapshot, Lines

\* Items, Support: the rows an order needs are stock rows.
LEMMA ItemsType ==
  ASSUME NEW o \in Orders
  PROVE  Items(o) \in SUBSET SKUs
BY DEF Items, Support

\* A handler that starts, with a request of the right type, keeps IInv.
LEMMA ServeStep ==
  ASSUME IInv, NEW s \in Sessions, NEW o \in Orders,
         NEW pc \in {"order", "rows", "write"},
         NEW op \in {"checkout", "update", "void", "refund", "capture"},
         NEW goal \in Statuses \cup {"keep"},
         NEW need \in SUBSET SKUs,
         Serve(s, pc, op, o, goal, need),
         pc = "order" => op \in {"update", "void"},
         pc = "rows" => op = "checkout",
         goal = "keep" => op = "capture",
         pc = "write" \/ op \in {"checkout", "void"} => goal \notin Fulfilled,
         UNCHANGED <<rows, locks, expiring>>
  PROVE  IInv'
<1> DEFINE r == [pc |-> pc, op |-> op, order |-> o, goal |-> goal,
                 seen |-> IF pc = "write" /\ op # "void" THEN NoLines ELSE Snapshot(o),
                 act |-> "none", need |-> need]
<1>1. /\ req' = [req EXCEPT ![s] = r]
      /\ req \in [Sessions -> Requests \cup Adjusting \cup {Idle}]
  BY DEF Serve, IInv, TypeOK
<1>2. r \in Requests
  BY SnapshotType DEF Requests, IInv, NoLines, Lines
<1> HIDE DEF r
<1>3. /\ req'[s] = r
      /\ \A t \in Sessions : t # s => req'[t] = req[t]
  BY <1>1
<1>4. /\ r.pc = pc /\ r.op = op /\ r.goal = goal /\ r.order = o
  BY DEF r
<1>5. TypeOK'
  BY <1>1, <1>2 DEF IInv, TypeOK, rows, locks
<1>6. WellFormed'
  BY <1>2, <1>3, <1>4 DEF IInv, WellFormed, Busy
<1>7. AdjustmentFits'
  BY <1>3, <1>4 DEF IInv, AdjustmentFits, Busy
<1>8. HarmlessGoal'
  BY <1>3, <1>4 DEF IInv, HarmlessGoal, Busy
<1>9. Decided'
  BY <1>3, <1>4 DEF IInv, Decided, Busy, rows, locks
<1>10. StockMovedOnce' /\ FulfilledTookStock'
  BY DEF IInv, StockMovedOnce, FulfilledTookStock, rows
<1> QED
  BY <1>5, <1>6, <1>7, <1>8, <1>9, <1>10 DEF IInv

\* Every handler over an order starts with such a request.
LEMMA LoadStep ==
  ASSUME IInv, NEW s \in Sessions, NEW o \in Orders,
         \/ LoadCart(s, o) \/ LoadRefund(s, o) \/ LoadVoid(s, o) \/ LoadCapture(s, o)
         \/ \E goal \in Statuses : LoadUpdate(s, o, goal)
  PROVE  IInv'
<1> USE OrderAssumption
<1>1. CASE LoadCart(s, o)
  <2>1. InitialStatus(Method[o]) \in Statuses \ Fulfilled
    BY DEF InitialStatus, Statuses, Fulfilled
  <2> QED
    BY <1>1, <2>1, ServeStep, ItemsType DEF LoadCart, Statuses
<1>2. CASE LoadRefund(s, o)
  BY <1>2, ServeStep DEF LoadRefund, Statuses, Fulfilled
<1>3. CASE LoadVoid(s, o)
  BY <1>3, ServeStep DEF LoadVoid, Statuses, Fulfilled
<1>4. CASE LoadCapture(s, o)
  BY <1>4, ServeStep DEF LoadCapture, Statuses, Fulfilled
<1>5. ASSUME NEW goal \in Statuses, LoadUpdate(s, o, goal)
      PROVE  IInv'
  BY <1>5, ServeStep DEF LoadUpdate, Statuses, Fulfilled
<1> QED
  BY <1>1, <1>2, <1>3, <1>4, <1>5

-----------------------------------------------------------------------------
(* A handler that ends: its session becomes idle and drops its locks.  What *)
(* the other sessions decided still holds as long as the events of the      *)
(* orders they have locked are left alone.                                  *)

\* Ending a transaction keeps IInv if what it committed does: the locks it
\* gives up are those of its own session.
LEMMA FinishStep ==
  ASSUME IInv, NEW s \in Sessions, Finish(s),
         status' \in [Orders -> Statuses \cup {"absent"}],
         captured' \in [Orders -> BOOLEAN],
         commits' \in [Orders -> Seq(Lines)],
         restores' \in [Orders -> Seq(Lines)],
         stock' \in Lines,
         adjustments' \in Seq([sku : SKUs, delta : Int]),
         expiring' = expiring,
         \A o \in Orders : orderLock[o] \notin {s, None} =>
           commits'[o] = commits[o] /\ restores'[o] = restores[o],
         StockMovedOnce',
         FulfilledTookStock'
  PROVE  IInv'
<1> USE OrderAssumption
<1>1. /\ req' = [req EXCEPT ![s] = Idle]
      /\ req'[s] = Idle
      /\ \A t \in Sessions : t # s => req'[t] = req[t]
  BY DEF Finish, IInv, TypeOK
<1>2. TypeOK'
  BY <1>1 DEF IInv, TypeOK, Finish, FreeLocks
<1>3. WellFormed' /\ AdjustmentFits' /\ HarmlessGoal'
  BY <1>1 DEF IInv, WellFormed, AdjustmentFits, HarmlessGoal, Busy
<1>4. Decided'
  <2> SUFFICES ASSUME NEW t \in Sessions, t # s,
                      req'[t] # Idle, req'[t].pc = "rows",
                      req'[t].op \in {"update", "void"}
               PROVE  LET o == req[t].order IN
                        /\ orderLock'[o] = t
                        /\ req[t].act = "none" => req[t].need = {}
                        /\ req[t].act = "take" => commits'[o] = <<>>
                        /\ req[t].act = "return" => commits'[o] # <<>> /\ restores'[o] = <<>>
                        /\ req[t].op = "update" /\ req[t].goal \in Fulfilled
                             => req[t].act = "take" \/ commits'[o] # <<>>
    BY <1>1 DEF Decided, Busy
  <2>1. req[t] \in Requests /\ req[t].order \in Orders
    BY <1>1 DEF IInv, WellFormed, Busy, Requests
  <2>2. orderLock[req[t].order] = t /\ orderLock'[req[t].order] = t
    BY <1>1, <2>1 DEF IInv, TypeOK, Decided, Busy, Finish, FreeLocks
  <2>3. /\ commits'[req[t].order] = commits[req[t].order]
        /\ restores'[req[t].order] = restores[req[t].order]
    BY <2>1, <2>2
  <2> QED
    BY <1>1, <2>2, <2>3 DEF IInv, Decided, Busy
<1> QED
  BY <1>2, <1>3, <1>4 DEF IInv

\* The orders' events and their status are as before: the two properties of
\* the events carry over.
LEMMA SameEvents ==
  ASSUME IInv, UNCHANGED <<commits, restores>>,
         \A o \in Orders : status'[o] \in Fulfilled => status[o] \in Fulfilled
  PROVE  StockMovedOnce' /\ FulfilledTookStock'
BY DEF IInv, StockMovedOnce, FulfilledTookStock

\* A request that ends with nothing committed keeps IInv.
LEMMA AbortStep ==
  ASSUME IInv, NEW s \in Sessions, Abort(s) \/ RefuseOrder(s) \/ BreakDeadlock(s)
  PROVE  IInv'
<1>1. Finish(s) /\ UNCHANGED <<rows, expiring>>
  BY DEF Abort, RefuseOrder, BreakDeadlock
<1>2. StockMovedOnce' /\ FulfilledTookStock'
  BY <1>1, SameEvents DEF rows
<1> QED
  BY <1>1, <1>2, FinishStep DEF IInv, TypeOK, rows

\* A committed checkout: the new order is in no fulfilled status.
LEMMA InsertOrderStep ==
  ASSUME IInv, NEW s \in Sessions, InsertOrder(s)
  PROVE  IInv'
<1>1. /\ req[s] \in Requests
      /\ req[s].order \in Orders
      /\ req[s].goal \notin Fulfilled
      /\ req[s].goal # "keep"
  BY DEF IInv, WellFormed, HarmlessGoal, InsertOrder, AtCheckout, Busy, Requests
<1>2. status' \in [Orders -> Statuses \cup {"absent"}]
  BY <1>1 DEF InsertOrder, IInv, TypeOK, Requests
<1>3. StockMovedOnce' /\ FulfilledTookStock'
  BY <1>1, SameEvents DEF InsertOrder, IInv, TypeOK
<1> QED
  BY <1>2, <1>3, FinishStep DEF InsertOrder, IInv, TypeOK

\* The handlers that write their status and end.
LEMMA WriteStep ==
  ASSUME IInv, NEW s \in Sessions,
         WriteUpdate(s) \/ WriteRefund(s) \/ WriteCapture(s)
  PROVE  IInv'
<1>1. /\ req[s] \in Requests
      /\ req[s].order \in Orders
      /\ req[s].goal \notin Fulfilled
  BY DEF IInv, WellFormed, HarmlessGoal, WriteUpdate, WriteRefund, WriteCapture,
         AtWrite, Busy, Requests
<1>2. /\ SetStatus(s)
      /\ Finish(s)
      /\ UNCHANGED <<commits, restores, stock, adjustments, expiring>>
      /\ captured' \in [Orders -> BOOLEAN]
  BY DEF WriteUpdate, WriteRefund, WriteCapture, IInv, TypeOK
<1>3. status' \in [Orders -> Statuses \cup {"absent"}]
  BY <1>1, <1>2 DEF SetStatus, IInv, TypeOK, Requests
<1>4. StockMovedOnce' /\ FulfilledTookStock'
  BY <1>1, <1>2, SameEvents DEF SetStatus, IInv, TypeOK
<1> QED
  BY <1>2, <1>3, <1>4, FinishStep DEF IInv, TypeOK

\* A committed adjustment leaves no negative stock: it checked the stock it read.
LEMMA WriteAdjustmentStep ==
  ASSUME IInv, NEW s \in Sessions, WriteAdjustment(s)
  PROVE  IInv'
<1>1. /\ req[s] \in Adjusting
      /\ req[s].seen + req[s].delta \in Nat
  BY DEF IInv, WellFormed, AdjustmentFits, WriteAdjustment, AtWrite, Busy
<1>2. stock' \in Lines
  BY <1>1 DEF WriteAdjustment, IInv, TypeOK, Lines, Adjusting
<1>3. [sku |-> req[s].sku, delta |-> req[s].delta] \in [sku : SKUs, delta : Int]
  BY <1>1, OrderAssumption DEF Adjusting
<1>4. adjustments' \in Seq([sku : SKUs, delta : Int])
  BY <1>3 DEF WriteAdjustment, IInv, TypeOK
<1>6. StockMovedOnce' /\ FulfilledTookStock'
  BY SameEvents DEF WriteAdjustment
<1> QED
  BY <1>2, <1>4, <1>6, FinishStep DEF WriteAdjustment, IInv, TypeOK

\* Head of a non-empty sequence of lines, and the sequences of length one.
LEMMA FirstEvent ==
  ASSUME NEW e \in Seq(Lines)
  PROVE  /\ Len(e) \in Nat
         /\ e # <<>> => Head(e) \in Lines /\ Len(e) >= 1
         /\ Len(e) = 1 => e = <<Head(e)>>
         /\ \A f \in Lines : Append(<<>>, f) = <<f>> /\ Len(<<f>>) = 1 /\ <<f>> # <<>>
OBVIOUS

\* The stock and the deducted lines a commit writes are quantities.
LEMMA AfterType ==
  ASSUME IInv, NEW r \in Requests, NEW k \in SKUs
  PROVE  /\ AfterTake(r, k) \in Nat
         /\ AfterTake(r, k) <= r.seen[k]
         /\ r.seen[k] \in Nat
         /\ commits[r.order] # <<>> => AfterReturn(r, k) \in Nat
<1>1. r.seen[k] \in Nat /\ r.order \in Orders /\ Qty[r.order][k] \in Nat
  BY OrderAssumption DEF Requests, Lines
<1>2. commits[r.order] # <<>> => Head(commits[r.order])[k] \in Nat
  BY <1>1, FirstEvent DEF IInv, TypeOK, Lines
<1> QED
  BY <1>1, <1>2 DEF AfterTake, AfterReturn

\* What a commit does to the events of its order, and that it leaves those of
\* the others alone.
LEMMA CommitEvents ==
  ASSUME IInv, NEW s \in Sessions, CommitUpdate(s)
  PROVE  LET r == req[s]
             o == req[s].order
         IN
         /\ r \in Requests /\ o \in Orders /\ r.order = o
         /\ r.act \in {"none", "take", "return"}
         /\ r.op \in {"update", "void"} /\ r.goal \in Statuses
         /\ orderLock[o] = s
         /\ r.act = "none" => r.need = {}
         /\ r.act = "take" => commits[o] = <<>>
         /\ r.act = "return" => commits[o] # <<>> /\ restores[o] = <<>>
         /\ r.op = "update" /\ r.goal \in Fulfilled => r.act = "take" \/ commits[o] # <<>>
         /\ Deducted(r) \in Lines
         /\ commits' \in [Orders -> Seq(Lines)]
         /\ restores' \in [Orders -> Seq(Lines)]
         /\ \A p \in Orders : p # o => commits'[p] = commits[p] /\ restores'[p] = restores[p]
         /\ r.act = "take" => commits'[o] = <<Deducted(r)>> /\ restores'[o] = restores[o]
         /\ r.act = "return" => restores'[o] = <<Head(commits[o])>> /\ commits'[o] = commits[o]
         /\ r.act = "none" => commits'[o] = commits[o] /\ restores'[o] = restores[o]
<1> DEFINE r == req[s]
           o == req[s].order
<1>1. /\ r \in Requests /\ o \in Orders /\ r.order = o
      /\ r.act \in {"none", "take", "return"}
      /\ r.op \in {"update", "void"} /\ r.goal \in Statuses
  BY DEF IInv, WellFormed, CommitUpdate, Busy, Requests
<1>2. /\ orderLock[o] = s
      /\ r.act = "none" => r.need = {}
      /\ r.act = "take" => commits[o] = <<>>
      /\ r.act = "return" => commits[o] # <<>> /\ restores[o] = <<>>
      /\ r.op = "update" /\ r.goal \in Fulfilled => r.act = "take" \/ commits[o] # <<>>
  BY DEF IInv, Decided, CommitUpdate
<1>3. Deducted(r) \in Lines
  BY <1>1, AfterType DEF Deducted, Lines
<1>4. commits[o] # <<>> => Head(commits[o]) \in Lines
  BY <1>1, FirstEvent DEF IInv, TypeOK
<1>5. /\ commits' \in [Orders -> Seq(Lines)]
      /\ restores' \in [Orders -> Seq(Lines)]
  BY <1>1, <1>2, <1>3, <1>4 DEF CommitUpdate, RecordEvents, IInv, TypeOK
<1>6. /\ \A p \in Orders : p # o => commits'[p] = commits[p] /\ restores'[p] = restores[p]
      /\ r.act = "take" => commits'[o] = <<Deducted(r)>> /\ restores'[o] = restores[o]
      /\ r.act = "return" => restores'[o] = <<Head(commits[o])>> /\ commits'[o] = commits[o]
      /\ r.act = "none" => commits'[o] = commits[o] /\ restores'[o] = restores[o]
  BY <1>1, <1>2, <1>3, <1>4, FirstEvent DEF CommitUpdate, RecordEvents, IInv, TypeOK
<1> QED
  BY <1>1, <1>2, <1>3, <1>5, <1>6

\* The commit of a status update, its stock and its events.
LEMMA CommitUpdateStep ==
  ASSUME IInv, NEW s \in Sessions, CommitUpdate(s)
  PROVE  IInv'
<1> DEFINE r == req[s]
           o == req[s].order
<1>1. /\ r \in Requests /\ o \in Orders
      /\ r.act \in {"none", "take", "return"}
      /\ r.op \in {"update", "void"} /\ r.goal \in Statuses
  BY CommitEvents
<1>2. /\ orderLock[o] = s
      /\ r.act = "none" => r.need = {}
      /\ r.act = "take" => commits[o] = <<>>
      /\ r.act = "return" => commits[o] # <<>> /\ restores[o] = <<>>
      /\ r.op = "update" /\ r.goal \in Fulfilled => r.act = "take" \/ commits[o] # <<>>
  BY CommitEvents
<1>3. Deducted(r) \in Lines
  BY CommitEvents
<1>5. /\ commits' \in [Orders -> Seq(Lines)]
      /\ restores' \in [Orders -> Seq(Lines)]
  BY CommitEvents
<1>6. /\ \A p \in Orders : p # o => commits'[p] = commits[p] /\ restores'[p] = restores[p]
      /\ r.act = "take" => commits'[o] = <<Deducted(r)>> /\ restores'[o] = restores[o]
      /\ r.act = "return" => restores'[o] = <<Head(commits[o])>> /\ commits'[o] = commits[o]
      /\ r.act = "none" => commits'[o] = commits[o] /\ restores'[o] = restores[o]
  BY CommitEvents
<1>7. stock' \in Lines
  <2> SUFFICES ASSUME NEW k \in SKUs
               PROVE  stock'[k] \in Nat
    BY DEF CommitUpdate, FlushStock, Lines
  <2>1. stock[k] \in Nat
    BY DEF IInv, TypeOK, Lines
  <2> QED
    BY <1>1, <1>2, <2>1, AfterType DEF CommitUpdate, FlushStock, After
<1>8. status' \in [Orders -> Statuses \cup {"absent"}]
  BY <1>1 DEF CommitUpdate, IInv, TypeOK
<1>9. /\ \A p \in Orders : status'[p] \in Fulfilled =>
           status[p] \in Fulfilled \/ (p = o /\ r.op = "update" /\ r.goal \in Fulfilled)
  BY <1>1 DEF CommitUpdate, IInv, TypeOK
<1>10. /\ \A p \in Orders : /\ commits[p] \in Seq(Lines)
                            /\ Len(commits[p]) <= 1
                            /\ Len(restores[p]) <= 1
                            /\ restores[p] # <<>> => commits[p] # <<>> /\ restores[p] = commits[p]
       /\ \A p \in Orders : status[p] \in Fulfilled => commits[p] # <<>>
  BY DEF IInv, TypeOK, StockMovedOnce, FulfilledTookStock
<1> HIDE DEF r, o
<1>11. r.act = "take" => /\ Len(commits'[o]) <= 1 /\ commits'[o] # <<>>
                         /\ Len(restores'[o]) <= 1 /\ restores'[o] = <<>>
  <2> SUFFICES ASSUME r.act = "take"
               PROVE  /\ Len(commits'[o]) <= 1 /\ commits'[o] # <<>>
                      /\ Len(restores'[o]) <= 1 /\ restores'[o] = <<>>
    OBVIOUS
  <2>0. o \in Orders /\ commits[o] = <<>>
    BY <1>1, <1>2
  <2>1. restores[o] = <<>> /\ Len(restores[o]) <= 1
    BY <2>0, <1>10
  <2>2. Len(<<Deducted(r)>>) <= 1 /\ <<Deducted(r)>> # <<>>
    OBVIOUS
  <2> QED
    BY <1>6, <2>1, <2>2
<1>12. r.act = "return" => /\ Len(restores'[o]) <= 1
                           /\ restores'[o] = commits'[o] /\ commits'[o] # <<>>
  <2> SUFFICES ASSUME r.act = "return"
               PROVE  /\ Len(restores'[o]) <= 1
                      /\ restores'[o] = commits'[o] /\ commits'[o] # <<>>
    OBVIOUS
  <2>0. o \in Orders /\ commits[o] # <<>>
    BY <1>1, <1>2
  <2>1. commits[o] \in Seq(Lines) /\ Len(commits[o]) <= 1
    BY <2>0, <1>10
  <2>2. commits[o] = <<Head(commits[o])>>
    BY <2>0, <2>1, FirstEvent
  <2>3. Len(<<Head(commits[o])>>) <= 1
    OBVIOUS
  <2> QED
    BY <1>6, <2>0, <2>2, <2>3
<1>13. StockMovedOnce'
  <2> SUFFICES ASSUME NEW p \in Orders
               PROVE  /\ Len(commits'[p]) <= 1
                      /\ Len(restores'[p]) <= 1
                      /\ restores'[p] # <<>> => commits'[p] # <<>> /\ restores'[p] = commits'[p]
    BY DEF StockMovedOnce
  <2>1. CASE p # o \/ r.act = "none"
    BY <1>1, <1>6, <1>10, <2>1
  <2>2. CASE p = o /\ r.act = "take"
    BY <1>11, <2>2
  <2>3. CASE p = o /\ r.act = "return"
    BY <1>10, <1>12, <1>6, <2>3
  <2> QED
    BY <1>1, <2>1, <2>2, <2>3
<1>14. FulfilledTookStock'
  <2> SUFFICES ASSUME NEW p \in Orders, status'[p] \in Fulfilled
               PROVE  commits'[p] # <<>>
    BY DEF FulfilledTookStock
  <2>1. commits[p] # <<>> \/ (p = o /\ r.act = "take")
    BY <1>1, <1>2, <1>9, <1>10
  <2> QED
    BY <1>1, <1>6, <1>11, <1>12, <2>1
<1> QED
  BY <1>1, <1>2, <1>5, <1>6, <1>7, <1>8, <1>13, <1>14, FinishStep DEF r, o, CommitUpdate, IInv, TypeOK

-----------------------------------------------------------------------------
(* A handler in mid-course: it takes a lock, or commits and goes on.        *)

\* Taking a stock row's lock changes nothing that IInv speaks of.
LEMMA LockRowStep ==
  ASSUME IInv, NEW s \in Sessions, NEW k \in SKUs, LockRow(s, k)
  PROVE  IInv'
<1>1. /\ skuLock' \in [SKUs -> Sessions \cup {None}]
      /\ UNCHANGED <<rows, orderLock, req, expiring>>
  BY DEF LockRow, IInv, TypeOK
<1>2. TypeOK'
  BY <1>1 DEF IInv, TypeOK, rows
<1>3. WellFormed' /\ AdjustmentFits' /\ HarmlessGoal' /\ Decided'
  BY <1>1 DEF IInv, WellFormed, AdjustmentFits, HarmlessGoal, Decided, Busy, rows
<1>4. StockMovedOnce' /\ FulfilledTookStock'
  BY <1>1 DEF IInv, StockMovedOnce, FulfilledTookStock, rows
<1> QED
  BY <1>2, <1>3, <1>4 DEF IInv

\* Taking the order row's lock, and deciding on the event rows read under it.
LEMMA LockOrderStep ==
  ASSUME IInv, NEW s \in Sessions, LockOrder(s)
  PROVE  IInv'
<1> DEFINE o   == req[s].order
           act == StockAct(o, req[s].goal)
<1>1. /\ req[s] \in Requests
      /\ o \in Orders
      /\ req[s].op \in {"update", "void"}
      /\ Busy(s)
  BY DEF IInv, WellFormed, LockOrder, Busy, Requests
<1>2. /\ act \in {"none", "take", "return"}
      /\ act = "take" <=> req[s].goal \in Fulfilled /\ commits[o] = <<>>
      /\ act = "return" => commits[o] # <<>> /\ restores[o] = <<>>
  BY DEF StockAct, Fulfilled
<1>3. /\ RowsOf(o, act) \in SUBSET SKUs
      /\ act = "none" => RowsOf(o, act) = {}
  BY <1>2 DEF RowsOf, Items, Support
<1> HIDE DEF act
<1>4. /\ orderLock[o] = None
      /\ orderLock' = [orderLock EXCEPT ![o] = s]
      /\ req' = [req EXCEPT ![s] = [req[s] EXCEPT !.pc = "rows", !.act = act,
                                                !.need = RowsOf(o, act)]]
      /\ UNCHANGED <<rows, skuLock, expiring>>
  BY DEF LockOrder, act
<1>5. /\ req'[s] \in Requests
      /\ req'[s].pc = "rows" /\ req'[s].op = req[s].op
      /\ req'[s].order = o /\ req'[s].goal = req[s].goal
      /\ req'[s].act = act /\ req'[s].need = RowsOf(o, act)
      /\ \A t \in Sessions : t # s => req'[t] = req[t]
  BY <1>1, <1>2, <1>3, <1>4 DEF IInv, TypeOK, Requests
<1>6. TypeOK'
  BY <1>1, <1>4, <1>5 DEF IInv, TypeOK, rows
<1>7. WellFormed' /\ AdjustmentFits' /\ HarmlessGoal'
  <2>1. WellFormed'
    BY <1>1, <1>5 DEF IInv, WellFormed, Busy
  <2>2. AdjustmentFits'
    BY <1>1, <1>5 DEF IInv, AdjustmentFits, Busy
  <2>3. HarmlessGoal'
    BY <1>1, <1>5 DEF IInv, HarmlessGoal, Busy
  <2> QED
    BY <2>1, <2>2, <2>3
<1>8. Decided'
  <2> SUFFICES ASSUME NEW t \in Sessions, Busy(t)', req'[t].pc = "rows",
                      req'[t].op \in {"update", "void"}
               PROVE  LET p == req'[t].order IN
                        /\ orderLock'[p] = t
                        /\ req'[t].act = "none" => req'[t].need = {}
                        /\ req'[t].act = "take" => commits[p] = <<>>
                        /\ req'[t].act = "return" => commits[p] # <<>> /\ restores[p] = <<>>
                        /\ req'[t].op = "update" /\ req'[t].goal \in Fulfilled
                             => req'[t].act = "take" \/ commits[p] # <<>>
    BY <1>4 DEF Decided, rows
  <2>1. CASE t = s
    BY <1>1, <1>2, <1>3, <1>4, <1>5, <2>1 DEF IInv, TypeOK
  <2>2. CASE t # s
    <3>1. req'[t] = req[t] /\ req[t] \in Requests /\ req[t].order \in Orders
      BY <1>5, <2>2 DEF IInv, WellFormed, Busy, Requests
    <3>2. orderLock[req[t].order] = t
      BY <3>1 DEF IInv, Decided, Busy
    <3>3. orderLock'[req[t].order] = t
      BY <1>1, <1>4, <3>1, <3>2, OrderAssumption DEF IInv, TypeOK
    <3> QED
      BY <3>1, <3>3 DEF IInv, Decided, Busy
  <2> QED
    BY <2>1, <2>2
<1>9. StockMovedOnce' /\ FulfilledTookStock'
  BY <1>4 DEF IInv, StockMovedOnce, FulfilledTookStock, rows
<1> QED
  BY <1>6, <1>7, <1>8, <1>9 DEF IInv

\* void_payment commits the cancellation and goes on to the stock.
LEMMA WriteVoidStep ==
  ASSUME IInv, NEW s \in Sessions, WriteVoid(s)
  PROVE  IInv'
<1>1. /\ req[s] \in Requests
      /\ req[s].order \in Orders
      /\ req[s].op = "void"
      /\ req[s].goal \notin Fulfilled
      /\ req[s].goal # "keep"
  BY DEF IInv, WellFormed, HarmlessGoal, WriteVoid, AtWrite, Busy, Requests
<1>2. /\ SetStatus(s)
      /\ req' = [req EXCEPT ![s] = [req[s] EXCEPT !.pc = "order"]]
      /\ UNCHANGED <<captured, commits, restores, stock, adjustments, locks, expiring>>
  BY DEF WriteVoid
<1>3. /\ req'[s] \in Requests
      /\ req'[s].pc = "order" /\ req'[s].op = "void"
      /\ req'[s].goal = req[s].goal
      /\ \A t \in Sessions : t # s => req'[t] = req[t]
  BY <1>1, <1>2 DEF IInv, TypeOK, Requests
<1>4. status' \in [Orders -> Statuses \cup {"absent"}]
  BY <1>1, <1>2 DEF SetStatus, IInv, TypeOK, Requests
<1>5. TypeOK'
  BY <1>2, <1>3, <1>4 DEF IInv, TypeOK, locks
<1>6. WellFormed' /\ AdjustmentFits' /\ HarmlessGoal'
  BY <1>1, <1>3 DEF IInv, WellFormed, AdjustmentFits, HarmlessGoal, Busy
<1>7. Decided'
  BY <1>2, <1>3 DEF IInv, Decided, Busy, locks
<1>8. StockMovedOnce' /\ FulfilledTookStock'
  BY <1>1, <1>2, SameEvents DEF SetStatus, IInv, TypeOK
<1> QED
  BY <1>5, <1>6, <1>7, <1>8 DEF IInv

\* An adjustment that starts has checked that no stock turns negative.
LEMMA LoadAdjustmentStep ==
  ASSUME IInv, NEW s \in Sessions, NEW k \in SKUs, NEW d \in Deltas,
         LoadAdjustment(s, k, d)
  PROVE  IInv'
<1> DEFINE r == [pc |-> "write", op |-> "adjust", sku |-> k, delta |-> d, seen |-> stock[k]]
<1>1. /\ req' = [req EXCEPT ![s] = r]
      /\ UNCHANGED <<rows, locks, expiring>>
      /\ stock[k] + d \in Nat
      /\ r \in Adjusting
  BY OrderAssumption DEF LoadAdjustment, IInv, TypeOK, Lines, Adjusting
<1>2. /\ req'[s] = r
      /\ r.pc = "write" /\ r.op = "adjust" /\ r.seen + r.delta \in Nat
      /\ \A t \in Sessions : t # s => req'[t] = req[t]
  BY <1>1 DEF IInv, TypeOK
<1> HIDE DEF r
<1>3. TypeOK'
  BY <1>1 DEF IInv, TypeOK, rows, locks
<1>4. WellFormed' /\ AdjustmentFits' /\ HarmlessGoal' /\ Decided'
  BY <1>1, <1>2 DEF IInv, WellFormed, AdjustmentFits, HarmlessGoal, Decided, Busy, rows, locks
<1>5. StockMovedOnce' /\ FulfilledTookStock'
  BY <1>1 DEF IInv, StockMovedOnce, FulfilledTookStock, rows
<1> QED
  BY <1>3, <1>4, <1>5 DEF IInv

\* The expiry scheduler only ever writes cancelled.
LEMMA SchedulerStep ==
  ASSUME IInv, Scheduler
  PROVE  IInv'
<1>1. /\ UNCHANGED <<captured, commits, restores, stock, adjustments, locks, req>>
      /\ expiring' \in SUBSET Orders
      /\ status' \in [Orders -> Statuses \cup {"absent"}]
      /\ \A o \in Orders : status'[o] \in Fulfilled => status[o] \in Fulfilled
  BY DEF Scheduler, LoadExpired, WriteExpired, DropExpired, rows, IInv, TypeOK,
         Statuses, Fulfilled
<1>2. TypeOK'
  BY <1>1 DEF IInv, TypeOK, locks
<1>3. WellFormed' /\ AdjustmentFits' /\ HarmlessGoal' /\ Decided'
  BY <1>1 DEF IInv, WellFormed, AdjustmentFits, HarmlessGoal, Decided, Busy, locks
<1>4. StockMovedOnce' /\ FulfilledTookStock'
  BY <1>1, SameEvents
<1> QED
  BY <1>2, <1>3, <1>4 DEF IInv

-----------------------------------------------------------------------------
(* The invariant, and what it implies.                                      *)

\* Every step of every handler, and of the scheduler, keeps IInv.
THEOREM NextIInv == IInv /\ [Next]_vars => IInv'
<1> SUFFICES ASSUME IInv, [Next]_vars PROVE IInv'
  OBVIOUS
<1>1. ASSUME NEW s \in Sessions, Arrive(s)
      PROVE  IInv'
  BY <1>1, LoadStep, LoadAdjustmentStep DEF Arrive
<1>2. ASSUME NEW s \in Sessions, Advance(s)
      PROVE  IInv'
  BY <1>2, LockRowStep, LockOrderStep, InsertOrderStep, AbortStep, CommitUpdateStep,
     WriteStep, WriteVoidStep, WriteAdjustmentStep DEF Advance
<1>3. ASSUME NEW s \in Sessions, Abort(s) \/ BreakDeadlock(s)
      PROVE  IInv'
  BY <1>3, AbortStep
<1>4. CASE UNCHANGED vars
  <2>1. TypeOK'
    BY <1>4 DEF IInv, TypeOK, vars
  <2>2. WellFormed' /\ AdjustmentFits' /\ HarmlessGoal' /\ Decided'
    BY <1>4 DEF IInv, WellFormed, AdjustmentFits, HarmlessGoal, Decided, Busy, vars
  <2>3. StockMovedOnce' /\ FulfilledTookStock'
    BY <1>4 DEF IInv, StockMovedOnce, FulfilledTookStock, vars
  <2> QED
    BY <2>1, <2>2, <2>3 DEF IInv
<1> QED
  BY <1>1, <1>2, <1>3, <1>4, SchedulerStep DEF Next

\* IInv holds in every reachable state.
THEOREM SpecIInv == Spec => []IInv
  BY InitIInv, NextIInv, PTL DEF Spec

\* Every reachable state has the types TypeOK states.
THEOREM TypeCorrect == Spec => []TypeOK
  BY SpecIInv, PTL DEF IInv

\* However many requests overlap, an order's stock is deducted at most once and
\* given back at most once, and then exactly: the promise of the comments on
\* _commit_stock_for_order and _restore_stock_for_order.
THEOREM MovedOnce == Spec => []StockMovedOnce
  BY SpecIInv, PTL DEF IInv

\* No order is ever paid, shipped or delivered without its stock deducted.
THEOREM FulfilledCommitted == Spec => []FulfilledTookStock
  BY SpecIInv, PTL DEF IInv

-----------------------------------------------------------------------------
(* The events implement StockLedger.                                        *)

\* Every step but a commit of a status update leaves the events alone.
LEMMA OnlyCommitMovesEvents ==
  ASSUME [Next]_vars
  PROVE  \/ \E s \in Sessions : CommitUpdate(s)
         \/ UNCHANGED <<commits, restores>>
<1>1. ASSUME NEW s \in Sessions, Arrive(s)
      PROVE  UNCHANGED <<commits, restores>>
  BY <1>1 DEF Arrive, LoadCart, LoadRefund, LoadVoid, LoadCapture, LoadUpdate,
              LoadAdjustment, rows
<1>2. ASSUME NEW s \in Sessions, Advance(s)
      PROVE  CommitUpdate(s) \/ UNCHANGED <<commits, restores>>
  BY <1>2 DEF Advance, LockRow, LockOrder, InsertOrder, RefuseOrder, WriteUpdate,
              WriteRefund, WriteVoid, WriteCapture, WriteAdjustment, rows
<1>3. ASSUME NEW s \in Sessions, Abort(s) \/ BreakDeadlock(s)
      PROVE  UNCHANGED <<commits, restores>>
  BY <1>3 DEF Abort, BreakDeadlock, rows
<1>4. ASSUME Scheduler
      PROVE  UNCHANGED <<commits, restores>>
  BY <1>4 DEF Scheduler, LoadExpired, WriteExpired, DropExpired, rows
<1>5. CASE UNCHANGED vars
  BY <1>5 DEF vars
<1> QED
  BY <1>1, <1>2, <1>3, <1>4, <1>5 DEF Next

\* What is deducted is never more than what the order asks for.
LEMMA DeductedBound ==
  ASSUME NEW r \in Requests, NEW k \in SKUs
  PROVE  Deducted(r)[k] <= Qty[r.order][k]
<1>1. r.seen[k] \in Nat /\ Qty[r.order][k] \in Nat
  BY OrderAssumption DEF Requests, Lines
<1> QED
  BY <1>1 DEF Deducted, AfterTake

\* Orders without events are a ledger with nothing taken.
THEOREM LedgerInit == Init => Ledger!Init
<1> SUFFICES ASSUME Init PROVE Ledger!Init
  OBVIOUS
<1>1. \A o \in Orders : commits[o] = <<>> /\ restores[o] = <<>>
  BY DEF Init
<1>2. Phases = [o \in Orders |-> "whole"]
  BY <1>1 DEF Phases, Phase
<1>3. Holdings = [o \in Orders |-> [k \in SKUs |-> 0]]
  BY <1>1 DEF Holdings, Held
<1> QED
  BY <1>2, <1>3 DEF Ledger!Init

\* Every step of the handlers is a step of the ledger or leaves it alone: only
\* the commit of a status update moves the events, and it takes or returns.
THEOREM LedgerNext == IInv /\ [Next]_vars => [Ledger!Next]_<<Phases, Holdings>>
<1> SUFFICES ASSUME IInv, [Next]_vars PROVE [Ledger!Next]_<<Phases, Holdings>>
  OBVIOUS
<1>1. CASE UNCHANGED <<commits, restores>>
  <2>1. Phases' = Phases /\ Holdings' = Holdings
    BY <1>1 DEF Phases, Holdings, Phase, Held
  <2> QED
    BY <2>1
<1>2. ASSUME NEW s \in Sessions, CommitUpdate(s)
      PROVE  [Ledger!Next]_<<Phases, Holdings>>
  <2> DEFINE r == req[s]
             o == req[s].order
  <2>1. /\ r \in Requests /\ o \in Orders
        /\ r.act \in {"none", "take", "return"}
        /\ r.act = "take" => commits[o] = <<>>
        /\ r.act = "return" => commits[o] # <<>> /\ restores[o] = <<>>
        /\ Deducted(r) \in Lines
        /\ \A p \in Orders : p # o => commits'[p] = commits[p] /\ restores'[p] = restores[p]
        /\ r.act = "take" => commits'[o] = <<Deducted(r)>> /\ restores'[o] = restores[o]
        /\ r.act = "return" => restores'[o] = <<Head(commits[o])>> /\ commits'[o] = commits[o]
        /\ r.act = "none" => commits'[o] = commits[o] /\ restores'[o] = restores[o]
    BY <1>2, CommitEvents
  <2>2. \A k \in SKUs : Deducted(r)[k] <= Qty[o][k]
    BY <2>1, DeductedBound
  <2>3. /\ commits[o] \in Seq(Lines) /\ Len(commits[o]) <= 1
        /\ restores[o] # <<>> => commits[o] # <<>> /\ restores[o] = commits[o]
    BY <2>1 DEF IInv, TypeOK, StockMovedOnce
  <2> HIDE DEF r, o
  <2>4. /\ \A p \in Orders : p # o => Phases'[p] = Phases[p] /\ Holdings'[p] = Holdings[p]
        /\ DOMAIN Phases = Orders /\ DOMAIN Phases' = Orders
        /\ DOMAIN Holdings = Orders /\ DOMAIN Holdings' = Orders
        /\ Phases = [p \in Orders |-> Phases[p]]
        /\ Phases' = [p \in Orders |-> Phases'[p]]
        /\ Holdings = [p \in Orders |-> Holdings[p]]
        /\ Holdings' = [p \in Orders |-> Holdings'[p]]
    BY <2>1 DEF Phases, Holdings, Phase, Held
  <2>5. CASE r.act = "none"
    <3>1. \A p \in Orders : commits'[p] = commits[p] /\ restores'[p] = restores[p]
      BY <2>1, <2>5
    <3>2. Phases' = Phases /\ Holdings' = Holdings
      BY <3>1 DEF Phases, Holdings, Phase, Held
    <3> QED
      BY <3>2
  <2>6. CASE r.act = "take"
    <3>1. commits[o] = <<>> /\ restores[o] = <<>>
      BY <2>1, <2>3, <2>6
    <3>2. commits'[o] = <<Deducted(r)>> /\ restores'[o] = <<>>
      BY <2>1, <2>6, <3>1
    <3>3. Phases[o] = "whole"
      BY <2>1, <3>1 DEF Phases, Phase
    <3>4. Len(<<Deducted(r)>>) > Len(<<>>) /\ <<Deducted(r)>> # <<>>
      OBVIOUS
    <3>5. Phases'[o] = "taken"
      BY <2>1, <3>2, <3>4 DEF Phases, Phase
    <3>6. \A k \in SKUs : Holdings'[o][k] = Deducted(r)[k]
      BY <2>1, <3>2 DEF Holdings, Held
    <3>7. Ledger!Take(o, Holdings'[o])
      BY <2>1, <2>2, <2>4, <3>3, <3>5, <3>6 DEF Ledger!Take
    <3> QED
      BY <2>1, <3>7 DEF Ledger!Next
  <2>7. CASE r.act = "return"
    <3>1. commits[o] # <<>> /\ restores[o] = <<>>
      BY <2>1, <2>7
    <3>2. commits'[o] = commits[o] /\ restores'[o] = <<Head(commits[o])>>
      BY <2>1, <2>7
    <3>3. /\ Len(commits[o]) > Len(<<>>)
          /\ ~(Len(commits[o]) > Len(<<Head(commits[o])>>))
          /\ <<Head(commits[o])>> # <<>>
      BY <2>3, <3>1
    <3>4. Phases[o] = "taken"
      BY <2>1, <3>1, <3>3 DEF Phases, Phase
    <3>5. Phases'[o] = "returned"
      BY <2>1, <3>1, <3>2, <3>3 DEF Phases, Phase
    <3>6. Holdings'[o] = [k \in SKUs |-> 0]
      BY <2>1, <3>2, <3>3 DEF Holdings, Held
    <3>7. Ledger!Return(o)
      BY <2>1, <2>4, <3>4, <3>5, <3>6 DEF Ledger!Return
    <3> QED
      BY <2>1, <3>7 DEF Ledger!Next
  <2> QED
    BY <2>1, <2>5, <2>6, <2>7
<1> QED
  BY <1>1, <1>2, OnlyCommitMovesEvents

\* The stock events of the code implement StockLedger: taken at most once, never
\* more than asked for, returned whole and then never taken again.
THEOREM ImplementsLedger == Spec => LedgerSpec
  BY LedgerInit, LedgerNext, SpecIInv, PTL DEF Spec, LedgerSpec, Ledger!Spec
-----------------------------------------------------------------------------
(* Lock order.  CheckoutsNeverDeadlock speaks of two sessions that wait;    *)
(* what every step keeps is that a checkout's locks come in order.          *)

\* Only a request at its stock rows holds one, and a checkout that holds one
\* holds all the smaller ones it needs.
LocksInOrder ==
  /\ \A s \in Sessions : Busy(s) /\ req[s].op = "checkout" => req[s].pc = "rows"
  /\ \A s \in Sessions, k \in SKUs : skuLock[k] = s =>
       /\ Busy(s) /\ req[s].pc = "rows"
       /\ req[s].op = "checkout" => \A j \in req[s].need : j < k => skuLock[j] = s

\* A session that holds no stock row may start or change its request, as long as a
\* checkout is at its rows.
LEMMA KeepLocks ==
  ASSUME TypeOK, LocksInOrder, NEW s \in Sessions,
         \A k \in SKUs : skuLock[k] # s,
         Busy(s)' /\ req'[s].op = "checkout" => req'[s].pc = "rows",
         \A t \in Sessions : t # s => req'[t] = req[t],
         skuLock' = skuLock
  PROVE  LocksInOrder'
<1>1. ASSUME NEW t \in Sessions, Busy(t)', req'[t].op = "checkout"
      PROVE  req'[t].pc = "rows"
  BY <1>1 DEF LocksInOrder, Busy
<1>2. ASSUME NEW t \in Sessions, NEW k \in SKUs, skuLock'[k] = t
      PROVE  /\ Busy(t)' /\ req'[t].pc = "rows"
             /\ req'[t].op = "checkout" => \A j \in req'[t].need : j < k => skuLock'[j] = t
  <2>1. t # s /\ skuLock[k] = t /\ req'[t] = req[t]
    BY <1>2
  <2> QED
    BY <1>2, <2>1 DEF LocksInOrder, Busy
<1> QED
  BY <1>1, <1>2 DEF LocksInOrder

\* The end of a request frees all it holds, and nothing else.
LEMMA FinishLocks ==
  ASSUME TypeOK, LocksInOrder, NEW s \in Sessions, Finish(s)
  PROVE  LocksInOrder'
<1>1. /\ req'[s] = Idle
      /\ \A t \in Sessions : t # s => req'[t] = req[t]
  BY DEF Finish, TypeOK
<1>2. \A k \in SKUs : skuLock'[k] = IF skuLock[k] = s THEN None ELSE skuLock[k]
  BY DEF Finish, FreeLocks, TypeOK
<1>3. None \notin Sessions
  BY OrderAssumption
<1>4. ASSUME NEW t \in Sessions, NEW k \in SKUs, skuLock'[k] = t
      PROVE  t # s /\ skuLock[k] = t
  BY <1>2, <1>3, <1>4
<1>5. ASSUME NEW t \in Sessions, t # s, Busy(t), req[t].op = "checkout", req[t].pc = "rows"
      PROVE  req[t].need \subseteq SKUs
  BY <1>5 DEF TypeOK, Requests, Adjusting, Busy
<1> QED
  BY <1>1, <1>2, <1>4, <1>5 DEF LocksInOrder, Busy

\* Every step keeps the locks in order.
LEMMA NextLocks ==
  ASSUME IInv, LocksInOrder, [Next]_vars
  PROVE  LocksInOrder'
<1> USE DEF IInv
<1>1. ASSUME NEW s \in Sessions, req[s] = Idle \/ (Busy(s) /\ req[s].pc # "rows")
      PROVE  \A k \in SKUs : skuLock[k] # s
  BY <1>1 DEF LocksInOrder, Busy
<1>2. ASSUME NEW s \in Sessions, Arrive(s)
      PROVE  LocksInOrder'
  <2>1. /\ req[s] = Idle /\ skuLock' = skuLock
        /\ \A t \in Sessions : t # s => req'[t] = req[t]
    BY <1>2 DEF Arrive, LoadCart, LoadRefund, LoadVoid, LoadCapture, LoadUpdate,
         LoadAdjustment, Serve, locks, TypeOK
  <2>2. req'[s].op = "checkout" => req'[s].pc = "rows"
    BY <1>2 DEF Arrive, LoadCart, LoadRefund, LoadVoid, LoadCapture, LoadUpdate,
         LoadAdjustment, Serve, TypeOK
  <2> QED
    BY <1>1, <2>1, <2>2, KeepLocks
<1>3. ASSUME NEW s \in Sessions, NEW k \in SKUs, LockRow(s, k)
      PROVE  LocksInOrder'
  <2>1. /\ req' = req
        /\ \A j \in SKUs : skuLock'[j] = IF j = k THEN s ELSE skuLock[j]
        /\ skuLock[k] = None /\ None \notin Sessions
        /\ Busy(s) /\ req[s].pc = "rows" /\ InLockOrder(s, k)
    BY <1>3, OrderAssumption DEF LockRow, TypeOK
  <2>2. ASSUME NEW t \in Sessions, Busy(t), req[t].op = "checkout", req[t].pc = "rows"
        PROVE  req[t].need \subseteq SKUs
    BY <2>2 DEF TypeOK, Requests, Adjusting, Busy
  <2>3. ASSUME NEW t \in Sessions, NEW j \in SKUs, skuLock'[j] = t
        PROVE  /\ Busy(t) /\ req[t].pc = "rows"
               /\ req[t].op = "checkout" => \A i \in req[t].need : i < j => skuLock[i] = t
    BY <2>1, <2>3 DEF LocksInOrder, InLockOrder
  <2> QED
    BY <2>1, <2>2, <2>3 DEF LocksInOrder, Busy
<1>4. ASSUME NEW s \in Sessions, LockOrder(s) \/ WriteVoid(s)
      PROVE  LocksInOrder'
  <2>1. /\ Busy(s) /\ req[s].pc \in {"order", "write"} /\ skuLock' = skuLock
        /\ \A t \in Sessions : t # s => req'[t] = req[t]
    BY <1>4 DEF LockOrder, WriteVoid, AtWrite, locks, TypeOK
  <2>2. req'[s].op = req[s].op
    BY <1>4 DEF LockOrder, WriteVoid, TypeOK, AtWrite, WellFormed, Requests
  <2>3. req[s].op # "checkout"
    BY <2>1 DEF LocksInOrder
  <2> QED
    BY <1>1, <2>1, <2>2, <2>3, KeepLocks
<1>5. ASSUME NEW s \in Sessions,
             Finish(s)
      PROVE  LocksInOrder'
  BY <1>5, FinishLocks
<1>6. ASSUME NEW s \in Sessions, Advance(s)
      PROVE  LocksInOrder'
  BY <1>3, <1>4, <1>5, <1>6 DEF Advance, InsertOrder, RefuseOrder, CommitUpdate, WriteUpdate,
       WriteRefund, WriteCapture, WriteAdjustment
<1>7. CASE Scheduler \/ UNCHANGED vars
  <2>1. req' = req /\ skuLock' = skuLock
    BY <1>7 DEF Scheduler, LoadExpired, WriteExpired, DropExpired, locks, vars
  <2> QED
    BY <2>1 DEF LocksInOrder, Busy
<1>8. ASSUME NEW s \in Sessions, Abort(s) \/ BreakDeadlock(s)
      PROVE  LocksInOrder'
  BY <1>5, <1>8 DEF Abort, BreakDeadlock
<1> QED
  BY <1>2, <1>6, <1>7, <1>8 DEF Next

\* Two checkouts that waited for each other would each hold a row the other needs
\* first: what ORDER BY id buys build_order_from_cart's SELECT ... FOR UPDATE, for
\* any number of checkouts and any carts.
THEOREM NoCheckoutDeadlock == Spec => []CheckoutsNeverDeadlock
<1>1. Init => LocksInOrder
  BY OrderAssumption DEF Init, LocksInOrder, Busy
<1>2. ASSUME IInv, LocksInOrder
      PROVE  CheckoutsNeverDeadlock
  <2> SUFFICES ASSUME NEW s \in Sessions, NEW t \in Sessions, Busy(s), Busy(t),
                      req[s].op = "checkout", req[t].op = "checkout",
                      WaitsFor(s, t), WaitsFor(t, s)
               PROVE  FALSE
    BY DEF CheckoutsNeverDeadlock
  <2>1. req[s].pc = "rows" /\ req[t].pc = "rows" /\ s # t
    BY <1>2 DEF LocksInOrder, WaitsFor
  <2>2. PICK k \in req[s].need : InLockOrder(s, k) /\ skuLock[k] = t
    BY <2>1 DEF WaitsFor
  <2>3. PICK j \in req[t].need : InLockOrder(t, j) /\ skuLock[j] = s
    BY <2>1 DEF WaitsFor
  <2>4. k \in SKUs /\ j \in SKUs
    BY <1>2, <2>1 DEF IInv, TypeOK, Requests, Adjusting, Busy
  <2>5. k \in Nat /\ j \in Nat /\ k # j
    BY <2>1, <2>2, <2>3, <2>4, OrderAssumption
  <2>6. ~(j < k)
    BY <1>2, <2>1, <2>2, <2>3, <2>4 DEF LocksInOrder
  <2>7. ~(k < j)
    BY <1>2, <2>1, <2>2, <2>3, <2>4 DEF LocksInOrder
  <2> QED
    BY <2>5, <2>6, <2>7
<1>3. IInv /\ LocksInOrder /\ [Next]_vars => LocksInOrder'
  BY NextLocks
<1> QED
  BY <1>1, <1>2, <1>3, SpecIInv, PTL DEF Spec

-----------------------------------------------------------------------------
(* Sums over finite sets.  SumFunctionOnSet is a recursive function, that   *)
(* is, some function with a certain property; that there is one, and that a *)
(* sum does not depend on the order of its terms, is shown by taking a      *)
(* least set for which it were not so.                                      *)

\* A non-empty set of subsets of a finite set has a minimal element.
LEMMA MinimalSubset ==
  ASSUME NEW S, IsFiniteSet(S), NEW T, T \subseteq SUBSET S, T # {}
  PROVE  \E U \in T : \A V \in T : ~(V \subseteq U /\ V # U)
<1> DEFINE R == StrictSubsetOrdering(S)
<1>1. IsWellFoundedOn(R, SUBSET S)
  BY FS_StrictSubsetOrderingWellFounded, FS_FiniteSubsetsOfFinite
<1> HIDE DEF R
<1>2. PICK U \in T : \A V \in T : <<V, U>> \notin R
  BY <1>1, WFMin
<1> QED
  BY <1>2 DEF R, StrictSubsetOrdering

\* The term a sum over U takes out first.
AnElement(U) == CHOOSE x \in U : TRUE

\* g gives the sum of f over every subset of S.
IsSum(g, f, S) ==
  g = [U \in SUBSET S |-> IF U = {} THEN 0 ELSE f[AnElement(U)] + g[U \ {AnElement(U)}]]

\* Some function that does.
SumsOf(f, S) == CHOOSE g : IsSum(g, f, S)

\* The library's sum is the value of such a function at the whole set.
LEMMA SumIsChosen ==
  ASSUME NEW f, NEW S
  PROVE  SumFunctionOnSet(f, S) = SumsOf(f, S)[S]
BY DEF SumFunctionOnSet, FoldFunctionOnSet, MapThenFoldSet, SumsOf, IsSum, AnElement

\* Two such functions agree where both are defined.
LEMMA SumsAgree ==
  ASSUME NEW S, IsFiniteSet(S), NEW f, NEW A \in SUBSET S, NEW B \in SUBSET S,
         NEW g, NEW h, IsSum(g, f, A), IsSum(h, f, B)
  PROVE  \A U \in SUBSET (A \cap B) : g[U] = h[U]
<1> DEFINE T == {U \in SUBSET (A \cap B) : g[U] # h[U]}
<1> SUFFICES ASSUME T # {} PROVE FALSE
  OBVIOUS
<1>1. PICK U \in T : \A V \in T : ~(V \subseteq U /\ V # U)
  <2>1. T \subseteq SUBSET S
    OBVIOUS
  <2> HIDE DEF T
  <2> QED
    BY <2>1, MinimalSubset
<1>2. U # {}
  BY DEF IsSum
<1>3. AnElement(U) \in U
  BY <1>2 DEF AnElement
<1>4. U \ {AnElement(U)} \notin T
  BY <1>1, <1>3
<1>5. g[U \ {AnElement(U)}] = h[U \ {AnElement(U)}]
  BY <1>4
<1> QED
  BY <1>2, <1>5 DEF IsSum

\* There is one for every finite set: a least set without one would get one from
\* those of its subsets.
LEMMA SumsExist ==
  ASSUME NEW S, IsFiniteSet(S), NEW f
  PROVE  IsSum(SumsOf(f, S), f, S)
<1> DEFINE T == {U \in SUBSET S : ~\E g : IsSum(g, f, U)}
<1>1. CASE T = {}
  BY <1>1 DEF SumsOf
<1>2. CASE T # {}
  <2>1. PICK U \in T : \A V \in T : ~(V \subseteq U /\ V # U)
    <3>1. T \subseteq SUBSET S
      OBVIOUS
    <3> HIDE DEF T
    <3> QED
      BY <1>2, <3>1, MinimalSubset
  <2>2. ASSUME NEW V \in SUBSET U, V # U
        PROVE  IsSum(SumsOf(f, V), f, V)
    BY <2>1, <2>2 DEF SumsOf
  <2> DEFINE At(V) == SumsOf(f, V)[V]
             p == AnElement(U)
             h == [V \in SUBSET U |-> IF V # U THEN At(V)
                                      ELSE IF U = {} THEN 0 ELSE f[p] + At(U \ {p})]
  <2>3. ASSUME NEW V \in SUBSET U, V # {}
        PROVE  h[V] = f[AnElement(V)] + h[V \ {AnElement(V)}]
    <3>1. AnElement(V) \in V
      BY <2>3 DEF AnElement
    <3> DEFINE W == V \ {AnElement(V)}
    <3>2. W \in SUBSET U /\ W # U /\ W \in SUBSET V
      BY <3>1
    <3>3. h[W] = At(W)
      BY <3>2
    <3>4. CASE V = U
      BY <2>3, <3>3, <3>4
    <3>5. CASE V # U
      <4>1. h[V] = At(V)
        BY <3>5
      <4>2. At(V) = f[AnElement(V)] + SumsOf(f, V)[W]
        BY <2>2, <2>3, <3>5 DEF IsSum
      <4>3. SumsOf(f, V)[W] = SumsOf(f, W)[W]
        <5>1. IsSum(SumsOf(f, V), f, V) /\ IsSum(SumsOf(f, W), f, W)
          BY <2>2, <3>2, <3>5
        <5>2. V \in SUBSET S /\ W \in SUBSET S /\ W \in SUBSET (V \cap W)
          BY <3>2
        <5> HIDE DEF W
        <5> QED
          BY <5>1, <5>2, SumsAgree
      <4> QED
        BY <3>3, <4>1, <4>2, <4>3
    <3> QED
      BY <3>4, <3>5
  <2>4. h[{}] = 0
    <3>1. CASE U = {}
      BY <3>1
    <3>2. CASE U # {}
      BY <2>2, <3>2 DEF IsSum
    <3> QED
      BY <3>1, <3>2
  <2>5. h = [V \in SUBSET U |-> h[V]]
    OBVIOUS
  <2> HIDE DEF h
  <2>6. IsSum(h, f, U)
    BY <2>3, <2>4, <2>5 DEF IsSum
  <2> QED
    BY <2>1, <2>6
<1> QED
  BY <1>1, <1>2

\* What the recursion says of a sum.
LEMMA SumUnfold ==
  ASSUME NEW S, IsFiniteSet(S), NEW f
  PROVE  /\ SumFunctionOnSet(f, {}) = 0
         /\ S # {} => SumFunctionOnSet(f, S)
                        = f[AnElement(S)] + SumFunctionOnSet(f, S \ {AnElement(S)})
<1>1. IsSum(SumsOf(f, {}), f, {})
  BY SumsExist, FS_EmptySet
<1>2. ASSUME S # {}
      PROVE  SumFunctionOnSet(f, S) = f[AnElement(S)] + SumFunctionOnSet(f, S \ {AnElement(S)})
  <2> DEFINE W == S \ {AnElement(S)}
  <2>1. IsFiniteSet(W)
    BY FS_Subset
  <2>2. IsSum(SumsOf(f, S), f, S) /\ IsSum(SumsOf(f, W), f, W)
    BY <2>1, SumsExist
  <2>3. SumsOf(f, S)[S] = f[AnElement(S)] + SumsOf(f, S)[W]
    BY <1>2, <2>2 DEF IsSum
  <2>4. W \in SUBSET S /\ S \in SUBSET S /\ W \in SUBSET (S \cap W)
    OBVIOUS
  <2> HIDE DEF W
  <2>5. SumsOf(f, S)[W] = SumsOf(f, W)[W]
    BY <2>2, <2>4, SumsAgree
  <2> QED
    BY <2>3, <2>5, SumIsChosen DEF W
<1> QED
  BY <1>1, <1>2, SumIsChosen DEF IsSum

\* A sum of integers is an integer, from which any term can be taken out first.
LEMMA SumTakeOut ==
  ASSUME NEW S, IsFiniteSet(S), NEW f, \A y \in S : f[y] \in Int
  PROVE  /\ SumFunctionOnSet(f, S) \in Int
         /\ \A x \in S : SumFunctionOnSet(f, S) = f[x] + SumFunctionOnSet(f, S \ {x})
<1> DEFINE Good(U) == /\ SumFunctionOnSet(f, U) \in Int
                      /\ \A x \in U : SumFunctionOnSet(f, U)
                                        = f[x] + SumFunctionOnSet(f, U \ {x})
           T == {U \in SUBSET S : ~Good(U)}
<1> SUFFICES ASSUME T # {} PROVE FALSE
  OBVIOUS
<1>1. PICK U \in T : \A V \in T : ~(V \subseteq U /\ V # U)
  <2>1. T \subseteq SUBSET S
    OBVIOUS
  <2> HIDE DEF T
  <2> QED
    BY <2>1, MinimalSubset
<1>2. U \in SUBSET S /\ ~Good(U)
  OBVIOUS
<1>3. \A V \in SUBSET U : V # U => Good(V)
  BY <1>1
<1>4. IsFiniteSet(U)
  BY <1>2, FS_Subset
<1>5. U # {}
  <2>1. SumFunctionOnSet(f, {}) = 0
    BY SumUnfold, FS_EmptySet
  <2>2. Good({})
    BY <2>1
  <2> HIDE DEF Good
  <2> QED
    BY <1>2, <2>2
<1> DEFINE p == AnElement(U)
<1>6. p \in U /\ f[p] \in Int
  BY <1>2, <1>5 DEF AnElement
<1>7. SumFunctionOnSet(f, U) = f[p] + SumFunctionOnSet(f, U \ {p})
  BY <1>4, <1>5, SumUnfold
<1>8. Good(U \ {p})
  BY <1>3, <1>6
<1>9. ASSUME NEW x \in U
      PROVE  SumFunctionOnSet(f, U) = f[x] + SumFunctionOnSet(f, U \ {x})
  <2>1. CASE x = p
    BY <1>7, <2>1
  <2>2. CASE x # p
    <3>1. Good(U \ {x})
      BY <1>3
    <3>2. (U \ {x}) \ {p} = (U \ {p}) \ {x} /\ p \in U \ {x} /\ x \in U \ {p}
      BY <1>6, <2>2
    <3>3. Good((U \ {p}) \ {x}) /\ f[x] \in Int
      BY <1>3, <1>6, <1>2
    <3> HIDE DEF p
    <3>4. SumFunctionOnSet(f, U \ {p}) = f[x] + SumFunctionOnSet(f, (U \ {p}) \ {x})
      BY <1>8, <3>2
    <3>5. SumFunctionOnSet(f, U \ {x}) = f[p] + SumFunctionOnSet(f, (U \ {p}) \ {x})
      BY <3>1, <3>2
    <3> QED
      BY <1>6, <1>7, <3>3, <3>4, <3>5
  <2> QED
    BY <2>1, <2>2
<1> QED
  BY <1>2, <1>6, <1>7, <1>8, <1>9

\* Sums of the same terms are the same.
LEMMA SumSame ==
  ASSUME NEW S, IsFiniteSet(S), NEW f, NEW g, \A y \in S : f[y] \in Int /\ g[y] = f[y]
  PROVE  SumFunctionOnSet(g, S) = SumFunctionOnSet(f, S)
<1> DEFINE T == {U \in SUBSET S : SumFunctionOnSet(g, U) # SumFunctionOnSet(f, U)}
<1> SUFFICES ASSUME T # {} PROVE FALSE
  OBVIOUS
<1>1. PICK U \in T : \A V \in T : ~(V \subseteq U /\ V # U)
  <2>1. T \subseteq SUBSET S
    OBVIOUS
  <2> HIDE DEF T
  <2> QED
    BY <2>1, MinimalSubset
<1>2. IsFiniteSet(U)
  BY FS_Subset
<1>3. U # {}
  BY <1>2, SumUnfold
<1>4. AnElement(U) \in U
  BY <1>3 DEF AnElement
<1>5. U \ {AnElement(U)} \notin T
  BY <1>1, <1>4
<1>6. SumFunctionOnSet(g, U \ {AnElement(U)}) = SumFunctionOnSet(f, U \ {AnElement(U)})
  BY <1>5
<1>7. g[AnElement(U)] = f[AnElement(U)]
  BY <1>4
<1> QED
  BY <1>2, <1>3, <1>6, <1>7, SumUnfold

\* One term is changed.
LEMMA SumChange ==
  ASSUME NEW S, IsFiniteSet(S), NEW f, NEW g, NEW x \in S,
         \A y \in S : f[y] \in Int /\ g[y] \in Int /\ (y # x => g[y] = f[y])
  PROVE  /\ SumFunctionOnSet(f, S) \in Int
         /\ SumFunctionOnSet(g, S) = SumFunctionOnSet(f, S) + g[x] - f[x]
<1>1. IsFiniteSet(S \ {x})
  BY FS_Subset
<1>2. SumFunctionOnSet(g, S \ {x}) = SumFunctionOnSet(f, S \ {x})
  BY <1>1, SumSame
<1>3. /\ SumFunctionOnSet(f, S) = f[x] + SumFunctionOnSet(f, S \ {x})
      /\ SumFunctionOnSet(g, S) = g[x] + SumFunctionOnSet(g, S \ {x})
  BY SumTakeOut
<1>4. SumFunctionOnSet(f, S) \in Int /\ SumFunctionOnSet(f, S \ {x}) \in Int
  BY <1>1, SumTakeOut
<1> QED
  BY <1>2, <1>3, <1>4

\* Smaller terms, smaller sum.
LEMMA SumMonotone ==
  ASSUME NEW S, IsFiniteSet(S), NEW f, NEW g,
         \A y \in S : f[y] \in Int /\ g[y] \in Int /\ g[y] <= f[y]
  PROVE  /\ SumFunctionOnSet(f, S) \in Int /\ SumFunctionOnSet(g, S) \in Int
         /\ SumFunctionOnSet(g, S) <= SumFunctionOnSet(f, S)
<1> DEFINE T == {U \in SUBSET S : ~(SumFunctionOnSet(g, U) <= SumFunctionOnSet(f, U))}
<1>0. SumFunctionOnSet(f, S) \in Int /\ SumFunctionOnSet(g, S) \in Int
  BY SumTakeOut
<1> SUFFICES ASSUME T # {} PROVE FALSE
  BY <1>0
<1>1. PICK U \in T : \A V \in T : ~(V \subseteq U /\ V # U)
  <2>1. T \subseteq SUBSET S
    OBVIOUS
  <2> HIDE DEF T
  <2> QED
    BY <2>1, MinimalSubset
<1>2. IsFiniteSet(U) /\ U \in SUBSET S
  BY FS_Subset
<1>3. U # {}
  <2>1. SumFunctionOnSet(f, {}) = 0 /\ SumFunctionOnSet(g, {}) = 0
    BY SumUnfold, FS_EmptySet
  <2>2. {} \notin T
    BY <2>1
  <2> QED
    BY <2>2
<1>4. PICK x \in U : TRUE
  BY <1>3
<1>5. U \ {x} \notin T
  BY <1>1, <1>4
<1>6. SumFunctionOnSet(g, U \ {x}) <= SumFunctionOnSet(f, U \ {x})
  BY <1>2, <1>5
<1>7. IsFiniteSet(U \ {x})
  BY <1>2, FS_Subset
<1>8. /\ SumFunctionOnSet(f, U) = f[x] + SumFunctionOnSet(f, U \ {x})
      /\ SumFunctionOnSet(g, U) = g[x] + SumFunctionOnSet(g, U \ {x})
      /\ SumFunctionOnSet(f, U \ {x}) \in Int /\ SumFunctionOnSet(g, U \ {x}) \in Int
      /\ f[x] \in Int /\ g[x] \in Int /\ g[x] <= f[x]
  BY <1>2, <1>7, SumTakeOut
<1>9. SumFunctionOnSet(g, U) <= SumFunctionOnSet(f, U)
  BY <1>6, <1>8
<1> QED
  BY <1>9

\* One more term.
LEMMA SumAppend ==
  ASSUME NEW n \in Nat, NEW f, NEW g,
         \A i \in 1..n : f[i] \in Int /\ g[i] = f[i],
         g[n + 1] \in Int
  PROVE  /\ SumFunctionOnSet(f, 1..n) \in Int
         /\ SumFunctionOnSet(g, 1..(n + 1)) = SumFunctionOnSet(f, 1..n) + g[n + 1]
<1>1. IsFiniteSet(1..n) /\ IsFiniteSet(1..(n + 1))
  BY FS_Interval
<1>2. (1..(n + 1)) \ {n + 1} = 1..n /\ n + 1 \in 1..(n + 1)
  OBVIOUS
<1>3. \A i \in 1..(n + 1) : g[i] \in Int
  OBVIOUS
<1>4. SumFunctionOnSet(g, 1..(n + 1)) = g[n + 1] + SumFunctionOnSet(g, 1..n)
  <2> DEFINE S == 1..(n + 1)
  <2>1. IsFiniteSet(S) /\ (\A i \in S : g[i] \in Int) /\ n + 1 \in S /\ S \ {n + 1} = 1..n
    BY <1>1, <1>2, <1>3
  <2> HIDE DEF S
  <2>2. SumFunctionOnSet(g, S) = g[n + 1] + SumFunctionOnSet(g, S \ {n + 1})
    BY <2>1, SumTakeOut
  <2> QED
    BY <2>1, <2>2 DEF S
<1>5. SumFunctionOnSet(g, 1..n) = SumFunctionOnSet(f, 1..n)
  BY <1>1, SumSame
<1>6. SumFunctionOnSet(f, 1..n) \in Int
  BY <1>1, SumTakeOut
<1> QED
  BY <1>4, <1>5, <1>6

\* A sum of zeros.
LEMMA SumOfZeros ==
  ASSUME NEW S, IsFiniteSet(S)
  PROVE  SumFunctionOnSet([x \in S |-> 0], S) = 0
<1> DEFINE z == [x \in S |-> 0]
           T == {U \in SUBSET S : SumFunctionOnSet(z, U) # 0}
<1> SUFFICES ASSUME T # {} PROVE FALSE
  OBVIOUS
<1>1. PICK U \in T : \A V \in T : ~(V \subseteq U /\ V # U)
  <2>1. T \subseteq SUBSET S
    OBVIOUS
  <2> HIDE DEF T
  <2> QED
    BY <2>1, MinimalSubset
<1>2. IsFiniteSet(U)
  BY FS_Subset
<1>3. U # {}
  BY <1>2, SumUnfold
<1>4. AnElement(U) \in U
  BY <1>3 DEF AnElement
<1>5. U \ {AnElement(U)} \notin T
  BY <1>1, <1>4
<1>6. SumFunctionOnSet(z, U \ {AnElement(U)}) = 0 /\ z[AnElement(U)] = 0
  BY <1>4, <1>5
<1> QED
  BY <1>2, <1>3, <1>6, SumUnfold

-----------------------------------------------------------------------------
(* Serial requests.  When nothing overlaps, what a handler loaded and what  *)
(* it decided is still true when it acts on it: that is all the serial      *)
(* theorems rest on, and all that the concurrent runs take away.            *)

\* One request at a time, or one scheduler pass over orders still unpaid.
Alone ==
  /\ \A s, t \in Sessions : Busy(s) /\ Busy(t) => s = t
  /\ \A s \in Sessions : Busy(s) => expiring = {}
  /\ \A o \in expiring : status[o] = "pending_payment"

\* What a request has loaded and decided agrees with the rows.
Knows(r) ==
  LET o == r.order IN
  /\ r.pc # "write" \/ r.op = "void" => r.seen = Snapshot(o)
  /\ r.pc = "rows" /\ r.op = "checkout" => r.need = Items(o)
  /\ r.pc = "rows" /\ r.op # "checkout" =>
       r.act = StockAct(o, r.goal) /\ r.need = RowsOf(o, r.act)
  /\ r.op = "checkout" => status[o] = "absent" /\ r.goal = InitialStatus(Method[o])
  /\ r.op = "update" => status[o] # "absent" /\ r.goal \in Targets(status[o], Method[o])
  /\ r.op = "refund" => status[o] \in Fulfilled /\ r.goal = "refunded"
  /\ r.op = "void" => /\ r.goal = "cancelled"
                      /\ IF r.pc = "write" THEN status[o] \in Payable
                                           ELSE status[o] = "cancelled"
  /\ r.op = "capture" => /\ status[o] # "absent"
                         /\ r.goal = IF status[o] = "pending_payment"
                                     THEN "pending_acceptance" ELSE "keep"

Fresh ==
  \A s \in Sessions : Busy(s) =>
    IF req[s].op = "adjust" THEN req[s].seen = stock[req[s].sku]
                            ELSE Knows(req[s])

\* The status says where the stock is: taken only from orders that were
\* fulfilled, and never more rows than the order has; returned only to the
\* shelf by a cancellation.
StatusTellsStock ==
  \A o \in Orders :
    /\ commits[o] # <<>> => /\ status[o] \in Fulfilled \cup {"cancelled", "refunded"}
                            /\ Support(Head(commits[o])) \subseteq Items(o)
    /\ restores[o] # <<>> => status[o] = "cancelled"

SerialInv == IInv /\ Alone /\ Fresh /\ StatusTellsStock

\* A serial step is one of the steps of the concurrent specification.
LEMMA SerialIsNext == [SerialNext]_vars => [Next]_vars
BY DEF SerialNext, Next, Scheduler

\* What ALLOWED_TRANSITIONS says of the statuses the proofs below meet.
LEMMA TargetsTable ==
  ASSUME NEW from \in Statuses, NEW m
  PROVE  /\ Targets(from, m) \subseteq Statuses \ {"pending_payment"}
         /\ "pending_acceptance" \in Targets(from, m) => from = "pending_payment"
         /\ "pending_acceptance" \in Targets("pending_payment", m)
         /\ from \in Fulfilled => Targets(from, m) \subseteq Fulfilled \cup {"cancelled", "refunded"}
         /\ from \in Fulfilled => "refunded" \in Targets(from, m)
         /\ from \in {"cancelled", "refunded"} => Targets(from, m) = {}
         /\ from \in Payable => "cancelled" \in Targets(from, m)
         /\ from \notin Fulfilled \cup {"pending_acceptance"} =>
              Targets(from, m) \cap Fulfilled = {}
<1>1. from = "pending_payment" => Targets(from, m) = {"pending_acceptance", "cancelled"}
  BY DEF Targets, Moves
<1>2. from = "pending_acceptance" =>
        Targets(from, m) = {"paid", "cancelled"}
          \cup (IF m = "cod" THEN {"shipped", "delivered"} ELSE {})
  BY DEF Targets, Moves
<1>3. from = "paid" => Targets(from, m) = {"shipped", "refunded", "cancelled"}
  BY DEF Targets, Moves
<1>4. from = "shipped" => Targets(from, m) = {"delivered", "refunded"}
  BY DEF Targets, Moves
<1>5. from = "delivered" => Targets(from, m) = {"refunded"}
  BY DEF Targets, Moves
<1>6. from \in {"cancelled", "refunded"} => Targets(from, m) = {}
  BY DEF Targets, Moves
<1>7. "pending_acceptance" \in Targets("pending_payment", m)
  BY DEF Targets, Moves
<1> QED
  BY <1>1, <1>2, <1>3, <1>4, <1>5, <1>6, <1>7 DEF Statuses, Fulfilled, Payable

-----------------------------------------------------------------------------
(* Alone and Fresh: a request that ends leaves no other, and one that goes  *)
(* on has just loaded what it knows.                                        *)

\* With every session idle there is nothing to know.
LEMMA AllIdle ==
  ASSUME \A t \in Sessions : req'[t] = Idle,
         \A o \in expiring' : status'[o] = "pending_payment"
  PROVE  Alone' /\ Fresh'
BY DEF Alone, Fresh, Busy

\* The only request has ended.
LEMMA FinishAlone ==
  ASSUME SerialInv, NEW s \in Sessions, Busy(s), Finish(s), expiring' = expiring
  PROVE  Alone' /\ Fresh'
<1>1. /\ req' = [req EXCEPT ![s] = Idle]
      /\ \A t \in Sessions : t # s => req[t] = Idle
      /\ expiring' = {}
  BY DEF SerialInv, Alone, Busy, Finish
<1>2. \A t \in Sessions : req'[t] = Idle
  BY <1>1 DEF SerialInv, IInv, TypeOK
<1> QED
  BY <1>1, <1>2, AllIdle

\* The only request is s, before and after, and what it knows is true.
LEMMA StillAlone ==
  ASSUME Alone, NEW s \in Sessions,
         \A t \in Sessions : t # s => req'[t] = Idle,
         expiring' = {},
         Busy(s)' => IF req'[s].op = "adjust" THEN req'[s].seen = stock'[req'[s].sku]
                                              ELSE Knows(req[s])'
  PROVE  Alone' /\ Fresh'
<1>1. \A t \in Sessions : Busy(t)' => t = s
  BY DEF Busy
<1>2. Alone'
  BY <1>1 DEF Alone
<1>3. Fresh'
  BY <1>1 DEF Fresh
<1> QED
  BY <1>2, <1>3

\* Serving a request from quiet: what it knows is what its handler loaded.
LEMMA ServeAlone ==
  ASSUME SerialInv, Quiet, NEW s \in Sessions, NEW o \in Orders, NEW goal,
         NEW pc, NEW op, NEW need,
         Serve(s, pc, op, o, goal, need),
         UNCHANGED <<rows, locks, expiring>>,
         op # "adjust",
         pc = "rows" => op = "checkout" /\ need = Items(o),
         op = "checkout" => status[o] = "absent" /\ goal = InitialStatus(Method[o]),
         op = "update" => status[o] # "absent" /\ goal \in Targets(status[o], Method[o]),
         op = "refund" => status[o] \in Fulfilled /\ goal = "refunded",
         op = "void" => goal = "cancelled" /\ pc = "write" /\ status[o] \in Payable,
         op = "capture" => /\ status[o] # "absent"
                           /\ goal = IF status[o] = "pending_payment"
                                     THEN "pending_acceptance" ELSE "keep"
  PROVE  Alone' /\ Fresh'
<1> DEFINE r == [pc |-> pc, op |-> op, order |-> o, goal |-> goal,
                 seen |-> IF pc = "write" /\ op # "void" THEN NoLines ELSE Snapshot(o),
                 act |-> "none", need |-> need]
<1>1. /\ req' = [req EXCEPT ![s] = r]
      /\ req \in [Sessions -> Requests \cup Adjusting \cup {Idle}]
  BY DEF Serve, SerialInv, IInv, TypeOK
<1>2. /\ r.pc = pc /\ r.op = op /\ r.order = o /\ r.goal = goal /\ r.need = need
      /\ r.seen = IF pc = "write" /\ op # "void" THEN NoLines ELSE Snapshot(o)
  OBVIOUS
<1> HIDE DEF r
<1>3. req'[s] = r /\ \A t \in Sessions : t # s => req'[t] = Idle
  BY <1>1 DEF Quiet, Busy
<1>4. /\ UNCHANGED <<status, commits, restores, stock>>
      /\ expiring' = {}
  BY DEF rows, Quiet
<1>5. Snapshot(o)' = Snapshot(o)
  BY <1>4 DEF Snapshot
<1>6. Knows(req[s])'
  BY <1>2, <1>3, <1>4, <1>5 DEF Knows
<1> QED
  BY <1>2, <1>3, <1>4, <1>6, StillAlone DEF SerialInv

\* A handler that arrives when all is quiet knows what it has just loaded.
LEMMA ArriveAlone ==
  ASSUME SerialInv, Quiet, NEW s \in Sessions, Arrive(s)
  PROVE  Alone' /\ Fresh'
<1>1. ASSUME NEW o \in Orders, LoadCart(s, o)
      PROVE  Alone' /\ Fresh'
  BY <1>1, ServeAlone DEF LoadCart
<1>2. ASSUME NEW o \in Orders, LoadRefund(s, o)
      PROVE  Alone' /\ Fresh'
  BY <1>2, ServeAlone DEF LoadRefund
<1>3. ASSUME NEW o \in Orders, LoadVoid(s, o)
      PROVE  Alone' /\ Fresh'
  BY <1>3, ServeAlone DEF LoadVoid
<1>4. ASSUME NEW o \in Orders, LoadCapture(s, o)
      PROVE  Alone' /\ Fresh'
  BY <1>4, ServeAlone DEF LoadCapture
<1>5. ASSUME NEW o \in Orders, NEW goal \in Statuses, LoadUpdate(s, o, goal)
      PROVE  Alone' /\ Fresh'
  BY <1>5, ServeAlone DEF LoadUpdate, MayUpdate
<1>6. ASSUME NEW k \in SKUs, NEW d \in Deltas, LoadAdjustment(s, k, d)
      PROVE  Alone' /\ Fresh'
  <2> DEFINE r == [pc |-> "write", op |-> "adjust", sku |-> k, delta |-> d, seen |-> stock[k]]
  <2>1. /\ req' = [req EXCEPT ![s] = r]
        /\ req \in [Sessions -> Requests \cup Adjusting \cup {Idle}]
    BY <1>6 DEF LoadAdjustment, SerialInv, IInv, TypeOK
  <2>2. r.op = "adjust" /\ r.sku = k /\ r.seen = stock[k]
    OBVIOUS
  <2> HIDE DEF r
  <2>3. req'[s] = r /\ \A t \in Sessions : t # s => req'[t] = Idle
    BY <2>1 DEF Quiet, Busy
  <2>4. stock' = stock /\ expiring' = {}
    BY <1>6 DEF LoadAdjustment, rows, Quiet
  <2> QED
    BY <2>2, <2>3, <2>4, StillAlone DEF SerialInv
<1> QED
  BY <1>1, <1>2, <1>3, <1>4, <1>5, <1>6 DEF Arrive

\* Taking a lock changes no row; what the event rows tell the handler under the
\* order's lock it knows.
LEMMA LockAlone ==
  ASSUME SerialInv, NEW s \in Sessions,
         LockOrder(s) \/ \E k \in SKUs : LockRow(s, k)
  PROVE  Alone' /\ Fresh'
<1>0. /\ Busy(s) /\ expiring' = {}
      /\ UNCHANGED <<status, commits, restores, stock>>
      /\ \A t \in Sessions : t # s => req[t] = Idle
  BY DEF LockOrder, LockRow, rows, SerialInv, Alone, Busy
<1>1. CASE \E k \in SKUs : LockRow(s, k)
  <2>1. req' = req
    BY <1>1 DEF LockRow
  <2>2. Snapshot(req[s].order)' = Snapshot(req[s].order)
    BY <1>0, <2>1 DEF Snapshot
  <2>3. req[s].op # "adjust" => Knows(req[s])'
    BY <1>0, <2>1, <2>2 DEF SerialInv, Fresh, Knows, StockAct, RowsOf
  <2>4. req[s].op = "adjust" => req[s].seen = stock[req[s].sku]
    BY <1>0 DEF SerialInv, Fresh
  <2> QED
    BY <1>0, <2>1, <2>3, <2>4, StillAlone DEF SerialInv
<1>2. CASE LockOrder(s)
  <2> DEFINE o   == req[s].order
             act == StockAct(o, req[s].goal)
  <2>1. /\ req[s] \in Requests
        /\ req[s].op \in {"update", "void"} /\ req[s].pc = "order"
        /\ Knows(req[s])
    BY <1>0, <1>2 DEF SerialInv, IInv, WellFormed, LockOrder, Requests, Fresh
  <2>2. req' = [req EXCEPT ![s] = [req[s] EXCEPT !.pc = "rows", !.act = act,
                                                 !.need = RowsOf(o, act)]]
    BY <1>2 DEF LockOrder
  <2>3. /\ req'[s].pc = "rows" /\ req'[s].op = req[s].op
        /\ req'[s].order = o /\ req'[s].goal = req[s].goal
        /\ req'[s].seen = req[s].seen
        /\ req'[s].act = act /\ req'[s].need = RowsOf(o, act)
        /\ \A t \in Sessions : t # s => req'[t] = req[t]
    <3>1. req \in [Sessions -> Requests \cup Adjusting \cup {Idle}]
      BY DEF SerialInv, IInv, TypeOK
    <3> HIDE DEF act
    <3> QED
      BY <2>1, <2>2, <3>1 DEF Requests
  <2>4. /\ Snapshot(req[s].order)' = Snapshot(o)
        /\ StockAct(req[s].order, req[s].goal)' = act
        /\ RowsOf(req[s].order, req[s].act)' = RowsOf(o, act)
    BY <1>0, <2>3 DEF Snapshot, StockAct, RowsOf
  <2> HIDE DEF act
  <2>5. Knows(req[s])'
    BY <1>0, <2>1, <2>3, <2>4 DEF Knows
  <2> QED
    BY <1>0, <2>1, <2>3, <2>5, StillAlone DEF SerialInv
<1> QED
  BY <1>1, <1>2

\* void_payment after its first commit: the order is cancelled, and its stock as
\* it was loaded.
LEMMA WriteVoidAlone ==
  ASSUME SerialInv, NEW s \in Sessions, WriteVoid(s)
  PROVE  Alone' /\ Fresh'
<1>1. /\ Busy(s) /\ req[s].pc = "write" /\ req[s].op = "void"
      /\ expiring' = {}
      /\ UNCHANGED <<commits, restores, stock>>
      /\ \A t \in Sessions : t # s => req[t] = Idle
  BY DEF WriteVoid, AtWrite, SerialInv, Alone, Busy
<1>2. /\ req[s] \in Requests /\ req[s].order \in Orders
      /\ Knows(req[s])
  BY <1>1 DEF SerialInv, IInv, WellFormed, Fresh, Requests
<1>3. req' = [req EXCEPT ![s] = [req[s] EXCEPT !.pc = "order"]]
  BY DEF WriteVoid
<1>4. /\ req'[s].pc = "order" /\ req'[s].op = "void"
      /\ req'[s].order = req[s].order /\ req'[s].goal = req[s].goal
      /\ req'[s].seen = req[s].seen
      /\ \A t \in Sessions : t # s => req'[t] = req[t]
  BY <1>1, <1>2, <1>3 DEF SerialInv, IInv, TypeOK, Requests
<1>5. status'[req[s].order] = "cancelled"
  BY <1>1, <1>2 DEF WriteVoid, SetStatus, SerialInv, IInv, TypeOK, Knows
<1>6. Snapshot(req[s].order)' = Snapshot(req[s].order)
  BY <1>1, <1>4 DEF Snapshot
<1>7. Knows(req[s])'
  BY <1>1, <1>2, <1>4, <1>5, <1>6 DEF Knows
<1> QED
  BY <1>1, <1>4, <1>7, StillAlone DEF SerialInv

\* The same for every serial step.
LEMMA NextAlone ==
  ASSUME SerialInv, [SerialNext]_vars
  PROVE  Alone' /\ Fresh'
<1>1. ASSUME Quiet, NEW s \in Sessions, Arrive(s)
      PROVE  Alone' /\ Fresh'
  BY <1>1, ArriveAlone
<1>2. ASSUME NEW s \in Sessions, Advance(s) \/ Abort(s)
      PROVE  Alone' /\ Fresh'
  <2>1. CASE WriteVoid(s)
    BY <2>1, WriteVoidAlone
  <2>2. CASE LockOrder(s) \/ \E k \in SKUs : LockRow(s, k)
    BY <2>2, LockAlone
  <2>3. CASE \/ InsertOrder(s) \/ RefuseOrder(s) \/ CommitUpdate(s) \/ WriteUpdate(s)
             \/ WriteRefund(s) \/ WriteCapture(s) \/ WriteAdjustment(s) \/ Abort(s)
    <3>1. Busy(s) /\ Finish(s) /\ expiring' = expiring
      BY <2>3 DEF InsertOrder, RefuseOrder, AtCheckout, CommitUpdate, WriteUpdate, WriteRefund,
           WriteCapture, WriteAdjustment, AtWrite, Abort
    <3> QED
      BY <3>1, FinishAlone
  <2> QED
    BY <1>2, <2>1, <2>2, <2>3 DEF Advance
<1>3. ASSUME Quiet, NEW batch \in SUBSET Orders, LoadExpired(batch)
      PROVE  Alone' /\ Fresh'
  BY <1>3, AllIdle DEF LoadExpired, Quiet, Busy, rows
<1>4. CASE WriteExpired \/ DropExpired
  <2>1. \A t \in Sessions : req'[t] = Idle
    BY <1>4 DEF WriteExpired, DropExpired, SerialInv, Alone, Busy
  <2> QED
    BY <1>4, <2>1, AllIdle DEF WriteExpired, DropExpired
<1>5. CASE UNCHANGED vars
  <2>1. UNCHANGED <<status, commits, restores, stock, req, expiring>>
    BY <1>5 DEF vars
  <2>2. Alone'
    BY <2>1 DEF SerialInv, Alone, Busy
  <2>3. ASSUME NEW t \in Sessions, Busy(t)
        PROVE  Snapshot(req[t].order)' = Snapshot(req[t].order)
    BY <2>1 DEF Snapshot
  <2>4. ASSUME NEW t \in Sessions, Busy(t), Knows(req[t])
        PROVE  Knows(req[t])'
    BY <2>1, <2>3, <2>4 DEF Knows, StockAct, RowsOf
  <2>5. Fresh'
    BY <2>1, <2>4 DEF SerialInv, Fresh, Busy
  <2> QED
    BY <2>2, <2>5
<1> QED
  BY <1>1, <1>2, <1>3, <1>4, <1>5 DEF SerialNext

-----------------------------------------------------------------------------
(* The statuses follow the table, and the stock follows the statuses.       *)

\* The move of one order's status in one step.
TableMove(o) ==
  status[o] # status'[o] =>
    IF status[o] = "absent" THEN status'[o] = InitialStatus(Method[o])
                            ELSE status'[o] \in Targets(status[o], Method[o])

\* A handler that writes a status writes the one it computed, from the status
\* the row still has.
LEMMA WriteMoves ==
  ASSUME SerialInv, NEW s \in Sessions,
         \/ InsertOrder(s) \/ CommitUpdate(s)
         \/ WriteUpdate(s) \/ WriteRefund(s) \/ WriteVoid(s) \/ WriteCapture(s)
  PROVE  \A o \in Orders : TableMove(o)
<1>1. /\ req[s] \in Requests /\ req[s].order \in Orders
      /\ req[s].op = "update" => req[s].goal # "keep"
      /\ Knows(req[s])
  BY DEF SerialInv, IInv, WellFormed, Fresh, Requests, InsertOrder, AtCheckout, CommitUpdate,
         WriteUpdate, WriteRefund, WriteVoid, WriteCapture, AtWrite
<1>2. \A o \in Orders : o # req[s].order => status'[o] = status[o]
  BY <1>1 DEF SerialInv, IInv, TypeOK, InsertOrder, CommitUpdate, WriteUpdate, WriteRefund,
         WriteVoid, WriteCapture, SetStatus
<1> DEFINE o == req[s].order
<1>3. status[o] = "absent" \/ status[o] \in Statuses
  BY <1>1 DEF SerialInv, IInv, TypeOK
<1>4. Fulfilled \subseteq Statuses /\ Payable \subseteq Statuses /\ "absent" \notin Statuses
      /\ "keep" \notin Statuses
  BY DEF Fulfilled, Payable, Statuses
<1>5. CASE InsertOrder(s)
  <2>1. status'[o] = req[s].goal /\ req[s].op = "checkout"
    BY <1>1, <1>5 DEF InsertOrder, AtCheckout, SerialInv, IInv, TypeOK
  <2> QED
    BY <1>1, <1>2, <2>1 DEF Knows, TableMove
<1>6. CASE CommitUpdate(s)
  <2>1. /\ req[s].op = "update" => status'[o] = req[s].goal
        /\ req[s].op # "update" => status'[o] = status[o]
    BY <1>1, <1>6 DEF CommitUpdate, SerialInv, IInv, TypeOK
  <2> QED
    BY <1>1, <1>2, <2>1 DEF Knows, TableMove
<1>7. CASE WriteUpdate(s) \/ WriteRefund(s) \/ WriteVoid(s) \/ WriteCapture(s)
  <2>1. /\ status'[o] = IF req[s].goal = "keep" THEN status[o] ELSE req[s].goal
        /\ req[s].op \in {"update", "refund", "void", "capture"}
        /\ req[s].pc = "write"
    BY <1>1, <1>7 DEF WriteUpdate, WriteRefund, WriteVoid, WriteCapture, SetStatus, AtWrite,
         SerialInv, IInv, TypeOK
  <2>2. CASE req[s].op = "update"
    BY <1>1, <1>2, <2>1, <2>2 DEF Knows, TableMove
  <2>3. CASE req[s].op = "refund"
    <3>1. status[o] \in Fulfilled /\ req[s].goal = "refunded"
      BY <1>1, <2>3 DEF Knows
    <3>2. "refunded" \in Targets(status[o], Method[o])
      BY <1>4, <3>1, TargetsTable
    <3> QED
      BY <1>2, <1>4, <2>1, <3>1, <3>2 DEF TableMove
  <2>4. CASE req[s].op = "void"
    <3>1. status[o] \in Payable /\ req[s].goal = "cancelled"
      BY <1>1, <2>1, <2>4 DEF Knows
    <3>2. "cancelled" \in Targets(status[o], Method[o])
      BY <1>4, <3>1, TargetsTable
    <3> QED
      BY <1>2, <1>4, <2>1, <3>1, <3>2 DEF TableMove
  <2>5. CASE req[s].op = "capture"
    <3>1. req[s].goal = IF status[o] = "pending_payment"
                        THEN "pending_acceptance" ELSE "keep"
      BY <1>1, <2>5 DEF Knows
    <3>2. "pending_acceptance" \in Targets("pending_payment", Method[o])
      BY TargetsTable DEF Statuses
    <3> QED
      BY <1>2, <2>1, <3>1, <3>2 DEF TableMove
  <2> QED
    BY <2>1, <2>2, <2>3, <2>4, <2>5
<1> QED
  BY <1>5, <1>6, <1>7

\* Every serial step moves every status along the table.
LEMMA NextMoves ==
  ASSUME SerialInv, [SerialNext]_vars
  PROVE  \A o \in Orders : TableMove(o)
<1>1. CASE status' = status
  BY <1>1 DEF TableMove
<1>2. ASSUME NEW s \in Sessions, Arrive(s)
      PROVE  status' = status
  BY <1>2 DEF Arrive, LoadCart, LoadRefund, LoadVoid, LoadCapture, LoadUpdate, LoadAdjustment, rows
<1>3. ASSUME NEW s \in Sessions, Advance(s) \/ Abort(s), status' # status
      PROVE  \A o \in Orders : TableMove(o)
  BY <1>3, WriteMoves DEF Advance, LockRow, LockOrder, RefuseOrder, WriteAdjustment, Abort, rows
<1>4. CASE WriteExpired
  <2>1. \A o \in Orders : status'[o] # status[o] =>
          status[o] = "pending_payment" /\ status'[o] = "cancelled"
    BY <1>4 DEF WriteExpired, SerialInv, Alone
  <2>2. ASSUME NEW o \in Orders
        PROVE  "cancelled" \in Targets("pending_payment", Method[o])
    BY TargetsTable DEF Statuses, Payable
  <2> QED
    BY <2>1, <2>2 DEF TableMove
<1>5. CASE DropExpired \/ (\E batch \in SUBSET Orders : LoadExpired(batch)) \/ UNCHANGED vars
  <2>1. status' = status
    BY <1>5 DEF DropExpired, LoadExpired, rows, vars
  <2> QED
    BY <1>1, <2>1
<1> QED
  BY <1>1, <1>2, <1>3, <1>4, <1>5 DEF SerialNext

\* A status that moves along the table takes StatusTellsStock along as long as
\* the events stay as they are: no table entry leads back to a status in which
\* the stock is not taken, and none leaves cancelled.
LEMMA SameEventsTell ==
  ASSUME SerialInv, NEW o \in Orders, TableMove(o),
         commits'[o] = commits[o], restores'[o] = restores[o]
  PROVE  /\ commits'[o] # <<>> => /\ status'[o] \in Fulfilled \cup {"cancelled", "refunded"}
                                  /\ Support(Head(commits'[o])) \subseteq Items(o)
         /\ restores'[o] # <<>> => status'[o] = "cancelled"
<1>1. /\ commits[o] # <<>> => /\ status[o] \in Fulfilled \cup {"cancelled", "refunded"}
                              /\ Support(Head(commits[o])) \subseteq Items(o)
      /\ restores[o] # <<>> => status[o] = "cancelled"
  BY DEF SerialInv, StatusTellsStock
<1>2. Fulfilled \cup {"cancelled", "refunded"} \subseteq Statuses /\ "absent" \notin Statuses
  BY DEF Fulfilled, Statuses
<1>3. CASE status'[o] = status[o]
  BY <1>1, <1>3
<1>4. CASE status'[o] # status[o]
  <2>1. restores[o] = <<>>
    BY <1>1, <1>2, <1>4, TargetsTable DEF TableMove
  <2>2. commits[o] # <<>> => status'[o] \in Fulfilled \cup {"cancelled", "refunded"}
    BY <1>1, <1>2, <1>4, TargetsTable DEF TableMove
  <2> QED
    BY <1>1, <2>1, <2>2
<1> QED
  BY <1>3, <1>4

\* What a commit knows when nothing has come between: the rows' own stock, and
\* what the event rows said.
LEMMA CommitFacts ==
  ASSUME SerialInv, NEW s \in Sessions, CommitUpdate(s)
  PROVE  LET r == req[s]
             o == req[s].order
         IN
         /\ r \in Requests /\ o \in Orders
         /\ r.act = StockAct(o, r.goal)
         /\ r.need = RowsOf(o, r.act)
         /\ r.seen = Snapshot(o)
         /\ r.act = "take" => r.op = "update" /\ r.goal \in Fulfilled
         /\ r.act = "return" => r.goal = "cancelled" /\ status'[o] = "cancelled"
         /\ status'[o] = IF r.op = "update" THEN r.goal ELSE status[o]
<1>1. /\ req[s] \in Requests /\ req[s].order \in Orders
      /\ req[s].pc = "rows" /\ req[s].op \in {"update", "void"}
      /\ Knows(req[s])
  BY DEF SerialInv, IInv, WellFormed, Fresh, Requests, CommitUpdate
<1>2. status'[req[s].order] = IF req[s].op = "update" THEN req[s].goal
                                                      ELSE status[req[s].order]
  BY <1>1 DEF CommitUpdate, SerialInv, IInv, TypeOK
<1>3. /\ req[s].act = StockAct(req[s].order, req[s].goal)
      /\ req[s].need = RowsOf(req[s].order, req[s].act)
      /\ req[s].seen = Snapshot(req[s].order)
  BY <1>1 DEF Knows
<1>4. /\ req[s].act = "take" => req[s].goal \in Fulfilled
      /\ req[s].act = "return" => req[s].goal = "cancelled"
  BY <1>3 DEF StockAct
<1>5. req[s].op = "void" => req[s].goal = "cancelled" /\ status[req[s].order] = "cancelled"
  BY <1>1 DEF Knows
<1> QED
  BY <1>1, <1>2, <1>3, <1>4, <1>5 DEF Fulfilled

\* A commit records what StatusTellsStock says.
LEMMA CommitTells ==
  ASSUME SerialInv, NEW s \in Sessions, CommitUpdate(s)
  PROVE  StatusTellsStock'
<1> DEFINE r == req[s]
           o == req[s].order
<1>1. /\ r \in Requests /\ o \in Orders
      /\ r.act \in {"none", "take", "return"}
      /\ r.act = "take" => commits[o] = <<>>
      /\ r.act = "return" => commits[o] # <<>> /\ restores[o] = <<>>
      /\ \A p \in Orders : p # o => commits'[p] = commits[p] /\ restores'[p] = restores[p]
      /\ r.act = "take" => commits'[o] = <<Deducted(r)>> /\ restores'[o] = restores[o]
      /\ r.act = "return" => restores'[o] = <<Head(commits[o])>> /\ commits'[o] = commits[o]
      /\ r.act = "none" => commits'[o] = commits[o] /\ restores'[o] = restores[o]
  BY CommitEvents DEF SerialInv
<1>2. /\ r.need = RowsOf(o, r.act)
      /\ r.act = "take" => r.op = "update" /\ r.goal \in Fulfilled
      /\ r.act = "return" => status'[o] = "cancelled"
      /\ status'[o] = IF r.op = "update" THEN r.goal ELSE status[o]
  BY CommitFacts
<1>3. restores[o] # <<>> => commits[o] # <<>>
  BY <1>1 DEF SerialInv, IInv, StockMovedOnce
<1>4. \A p \in Orders : TableMove(p)
  BY WriteMoves
<1>5. commits[o] # <<>> => Support(Head(commits[o])) \subseteq Items(o)
  BY <1>1 DEF SerialInv, StatusTellsStock
<1> HIDE DEF r, o
<1>6. Support(Deducted(r)) \subseteq r.need
  BY DEF Support, Deducted
<1> SUFFICES ASSUME NEW p \in Orders
             PROVE  /\ commits'[p] # <<>> =>
                         /\ status'[p] \in Fulfilled \cup {"cancelled", "refunded"}
                         /\ Support(Head(commits'[p])) \subseteq Items(p)
                    /\ restores'[p] # <<>> => status'[p] = "cancelled"
  BY DEF StatusTellsStock
<1>7. CASE p # o \/ r.act = "none"
  BY <1>1, <1>4, <1>7, SameEventsTell
<1>8. CASE p = o /\ r.act = "take"
  <2>1. r.need = Items(o)
    BY <1>2, <1>8 DEF RowsOf
  <2>2. Head(<<Deducted(r)>>) = Deducted(r)
    OBVIOUS
  <2>3. restores'[o] = <<>>
    BY <1>1, <1>3, <1>8
  <2> QED
    BY <1>1, <1>2, <1>6, <1>8, <2>1, <2>2, <2>3
<1>9. CASE p = o /\ r.act = "return"
  BY <1>1, <1>2, <1>5, <1>9
<1> QED
  BY <1>1, <1>7, <1>8, <1>9

\* The same for every serial step.
LEMMA NextTells ==
  ASSUME SerialInv, [SerialNext]_vars
  PROVE  StatusTellsStock'
<1>1. ASSUME NEW s \in Sessions, CommitUpdate(s)
      PROVE  StatusTellsStock'
  BY <1>1, CommitTells
<1>2. CASE UNCHANGED <<commits, restores>>
  BY <1>2, NextMoves, SameEventsTell DEF StatusTellsStock
<1> QED
  BY <1>1, <1>2, SerialIsNext, OnlyCommitMovesEvents

-----------------------------------------------------------------------------
(* The serial theorems about statuses.                                      *)

\* SerialInv holds as long as nothing overlaps.
THEOREM SpecSerialInv == SerialSpec => []SerialInv
<1>1. Init => SerialInv
  <2> SUFFICES ASSUME Init PROVE Alone /\ Fresh /\ StatusTellsStock
    BY InitIInv DEF SerialInv
  <2> QED
    BY DEF Init, Alone, Fresh, StatusTellsStock, Busy
<1>2. SerialInv /\ [SerialNext]_vars => SerialInv'
  BY SerialIsNext, NextIInv, NextAlone, NextTells DEF SerialInv
<1> QED
  BY <1>1, <1>2, PTL DEF SerialSpec

\* With one request or one pass at a time, a paid, shipped or delivered order has
\* its stock and has not given it back: every violation of it needs an overlap.
THEOREM SerialHoldsStock == SerialSpec => []FulfilledHoldsStock
<1>1. SerialInv => FulfilledHoldsStock
  BY DEF SerialInv, IInv, FulfilledTookStock, StatusTellsStock, FulfilledHoldsStock, Fulfilled
<1> QED
  BY <1>1, SpecSerialInv, PTL

\* With one request or one pass at a time, no handler, the lock-free captures,
\* refunds and voids and the scheduler included, moves a status against
\* ALLOWED_TRANSITIONS.
THEOREM SerialFollowsTable == SerialSpec => MovesFollowTable
<1>1. SerialInv /\ [SerialNext]_vars =>
        [\A o \in Orders : status[o] # status'[o] =>
           IF status[o] = "absent" THEN status'[o] = InitialStatus(Method[o])
                                   ELSE status'[o] \in Targets(status[o], Method[o])]_vars
  BY NextMoves DEF TableMove
<1> QED
  BY <1>1, SpecSerialInv, PTL DEF SerialSpec, MovesFollowTable

-----------------------------------------------------------------------------
(* The stock books.                                                         *)

\* What an order holds is a quantity.
LEMMA HeldType ==
  ASSUME TypeOK, NEW o \in Orders, NEW k \in SKUs
  PROVE  Held(o, k) \in Nat
<1>1. commits[o] # <<>> => Head(commits[o])[k] \in Nat
  BY FirstEvent DEF TypeOK, Lines
<1> QED
  BY <1>1 DEF Held

\* The same after a step.
LEMMA HeldTypeNext ==
  ASSUME TypeOK', NEW o \in Orders, NEW k \in SKUs
  PROVE  Held(o, k)' \in Nat
<1>1. commits'[o] # <<>> => Head(commits'[o])[k] \in Nat
  BY FirstEvent DEF TypeOK, Lines
<1> QED
  BY <1>1 DEF Held

\* What all orders hold together is a number.
LEMMA AllHeldType ==
  ASSUME TypeOK, NEW k \in SKUs
  PROVE  AllHeld(k) \in Int
<1> DEFINE f == [p \in Orders |-> Held(p, k)]
<1>1. \A p \in Orders : f[p] \in Int
  BY HeldType
<1>2. AllHeld(k) = SumFunctionOnSet(f, Orders)
  BY DEF AllHeld, SumFunction
<1> HIDE DEF f
<1> QED
  BY <1>1, <1>2, SumTakeOut, OrderAssumption

\* When one order's holding changes, the total changes with it.
LEMMA AllHeldStep ==
  ASSUME TypeOK, TypeOK', NEW o \in Orders, NEW k \in SKUs,
         \A p \in Orders : p # o => Held(p, k)' = Held(p, k)
  PROVE  /\ AllHeld(k) \in Int
         /\ AllHeld(k)' = AllHeld(k) + Held(o, k)' - Held(o, k)
<1> DEFINE f == [p \in Orders |-> Held(p, k)]
           g == [p \in Orders |-> Held(p, k)']
<1>1. \A p \in Orders : f[p] \in Int /\ g[p] \in Int /\ (p # o => g[p] = f[p])
  <2>1. \A p \in Orders : Held(p, k) \in Nat /\ Held(p, k)' \in Nat
    BY HeldType, HeldTypeNext
  <2> QED
    BY <2>1
<1>2. AllHeld(k) = SumFunctionOnSet(f, Orders) /\ AllHeld(k)' = SumFunctionOnSet(g, Orders)
  BY DEF AllHeld, SumFunction
<1>3. f[o] = Held(o, k) /\ g[o] = Held(o, k)'
  OBVIOUS
<1>4. IsFiniteSet(Orders)
  BY OrderAssumption
<1> HIDE DEF f, g
<1>5. /\ SumFunctionOnSet(f, Orders) \in Int
      /\ SumFunctionOnSet(g, Orders) = SumFunctionOnSet(f, Orders) + g[o] - f[o]
  BY <1>1, <1>4, SumChange
<1> QED
  BY <1>2, <1>3, <1>5

\* An adjustment row adds its delta to its SKU.
LEMMA AdjustedStep ==
  ASSUME TypeOK, NEW j \in SKUs, NEW d \in Deltas, NEW k \in SKUs,
         adjustments' = Append(adjustments, [sku |-> j, delta |-> d])
  PROVE  /\ Adjusted(k) \in Int
         /\ Adjusted(k)' = Adjusted(k) + (IF j = k THEN d ELSE 0)
<1> DEFINE n == Len(adjustments)
           f == [i \in 1..n |->
                   IF adjustments[i].sku = k THEN adjustments[i].delta ELSE 0]
           g == [i \in 1..(n + 1) |->
                   IF adjustments'[i].sku = k THEN adjustments'[i].delta ELSE 0]
<1>1. /\ n \in Nat /\ d \in Int
      /\ DOMAIN adjustments = 1..n
      /\ DOMAIN adjustments' = 1..(n + 1)
      /\ adjustments'[n + 1] = [sku |-> j, delta |-> d]
      /\ \A i \in 1..n : adjustments'[i] = adjustments[i] /\ adjustments[i].delta \in Int
  <2> DEFINE row == [sku |-> j, delta |-> d]
             Rows == [sku : SKUs, delta : Int]
  <2>1. d \in Int /\ row \in Rows /\ adjustments \in Seq(Rows)
    BY OrderAssumption DEF TypeOK
  <2>2. \A r \in Rows : r.delta \in Int
    OBVIOUS
  <2> HIDE DEF row, Rows
  <2>3. \A i \in 1..n : adjustments[i].delta \in Int
    BY <2>1, <2>2
  <2>4. /\ DOMAIN Append(adjustments, row) = 1..(n + 1)
        /\ Append(adjustments, row)[n + 1] = row
        /\ \A i \in 1..n : Append(adjustments, row)[i] = adjustments[i]
    BY <2>1
  <2> QED
    BY <2>1, <2>3, <2>4 DEF row
<1>2. Adjusted(k) = SumFunctionOnSet(f, 1..n)
  BY <1>1 DEF Adjusted, SumFunction
<1>3. Adjusted(k)' = SumFunctionOnSet(g, 1..(n + 1))
  BY <1>1 DEF Adjusted, SumFunction
<1>4. \A i \in 1..n : f[i] \in Int /\ g[i] = f[i]
  BY <1>1
<1>5. g[n + 1] = IF j = k THEN d ELSE 0
  BY <1>1
<1> HIDE DEF n, f, g
<1>6. g[n + 1] \in Int
  BY <1>1, <1>5
<1>7. /\ SumFunctionOnSet(f, 1..n) \in Int
      /\ SumFunctionOnSet(g, 1..(n + 1)) = SumFunctionOnSet(f, 1..n) + g[n + 1]
  BY <1>1, <1>4, <1>6, SumAppend
<1> QED
  BY <1>2, <1>3, <1>5, <1>7

\* What a commit takes from the shelf its order holds, and what it puts back the
\* order gives up; it takes no more than the order asks for.
LEMMA CommitStock ==
  ASSUME SerialInv, NEW s \in Sessions, CommitUpdate(s),
         NEW o \in Orders, o = req[s].order, NEW k \in SKUs
  PROVE  /\ stock'[k] + Held(o, k)' = stock[k] + Held(o, k)
         /\ \A p \in Orders : p # o => Held(p, k)' = Held(p, k)
         /\ IF req[s].act = "take" THEN stock'[k] + Qty[o][k] >= stock[k]
                                   ELSE stock'[k] >= stock[k]
<1> DEFINE r == req[s]
<1>1. /\ r \in Requests /\ o \in Orders /\ r.order = o
      /\ r.act \in {"none", "take", "return"}
      /\ r.act = "none" => r.need = {}
      /\ r.act = "take" => commits[o] = <<>>
      /\ r.act = "return" => commits[o] # <<>> /\ restores[o] = <<>>
      /\ Deducted(r) \in Lines
      /\ \A p \in Orders : p # o => commits'[p] = commits[p] /\ restores'[p] = restores[p]
      /\ r.act = "take" => commits'[o] = <<Deducted(r)>> /\ restores'[o] = restores[o]
      /\ r.act = "return" => restores'[o] = <<Head(commits[o])>> /\ commits'[o] = commits[o]
      /\ r.act = "none" => commits'[o] = commits[o] /\ restores'[o] = restores[o]
  BY CommitEvents DEF SerialInv
<1>2. r.need = RowsOf(o, r.act) /\ r.seen = Snapshot(o)
  BY CommitFacts
<1>3. /\ commits[o] # <<>> => /\ Head(commits[o]) \in Lines
                              /\ Support(Head(commits[o])) \subseteq Items(o)
      /\ restores[o] # <<>> => commits[o] # <<>>
  BY <1>1, FirstEvent DEF SerialInv, IInv, TypeOK, StatusTellsStock, StockMovedOnce
<1>4. /\ stock[k] \in Nat /\ Qty[o][k] \in Nat
      /\ k \in Items(o) => r.seen[k] = stock[k]
      /\ k \notin Items(o) => Qty[o][k] = 0
  BY <1>1, <1>2, OrderAssumption DEF SerialInv, IInv, TypeOK, Lines, Snapshot, Items, Support
<1>5. stock'[k] = IF k \in r.need /\ After(r, k) # r.seen[k] THEN After(r, k) ELSE stock[k]
  BY DEF CommitUpdate, FlushStock
<1>6. Deducted(r)[k] = IF k \in r.need THEN r.seen[k] - AfterTake(r, k) ELSE 0
  BY DEF Deducted
<1>7. \A p \in Orders : p # o => Held(p, k)' = Held(p, k)
  BY <1>1 DEF Held
<1> HIDE DEF r
<1>8. CASE r.act = "none"
  <2>1. Held(o, k)' = Held(o, k) /\ stock'[k] = stock[k]
    BY <1>1, <1>5, <1>8 DEF Held
  <2>2. Held(o, k) \in Nat
    BY <1>1, HeldType DEF SerialInv, IInv
  <2> QED
    BY <1>1, <1>4, <1>7, <1>8, <2>1, <2>2 DEF r
<1>9. CASE r.act = "take"
  <2>1. r.need = Items(o)
    BY <1>2, <1>9 DEF RowsOf
  <2>2. Held(o, k) = 0
    BY <1>1, <1>9 DEF Held
  <2>3. Held(o, k)' = Deducted(r)[k]
    <3>1. commits'[o] = <<Deducted(r)>> /\ restores'[o] = <<>>
      BY <1>1, <1>3, <1>9
    <3>2. <<Deducted(r)>> # <<>> /\ Head(<<Deducted(r)>>) = Deducted(r)
      OBVIOUS
    <3> QED
      BY <3>1, <3>2 DEF Held
  <2>4. After(r, k) = AfterTake(r, k)
    BY <1>9 DEF After
  <2>5. CASE k \in Items(o)
    <3>1. stock'[k] = AfterTake(r, k) /\ Deducted(r)[k] = stock[k] - AfterTake(r, k)
      BY <1>4, <1>5, <1>6, <2>1, <2>4, <2>5
    <3>2. AfterTake(r, k) \in Nat /\ AfterTake(r, k) + Qty[o][k] >= stock[k]
      BY <1>1, <1>4, <2>5 DEF AfterTake
    <3> QED
      BY <1>1, <1>4, <1>7, <1>9, <2>2, <2>3, <3>1, <3>2 DEF r
  <2>6. CASE k \notin Items(o)
    <3>1. stock'[k] = stock[k] /\ Deducted(r)[k] = 0
      BY <1>5, <1>6, <2>1, <2>6
    <3> QED
      BY <1>1, <1>4, <1>7, <1>9, <2>2, <2>3, <3>1 DEF r
  <2> QED
    BY <2>5, <2>6
<1>10. CASE r.act = "return"
  <2> DEFINE h == Head(commits[o])[k]
  <2>1. r.need = Support(Head(commits[o])) /\ h \in Nat
    BY <1>1, <1>2, <1>3, <1>10 DEF RowsOf, Lines
  <2>2. Held(o, k) = h
    BY <1>1, <1>10 DEF Held
  <2>3. Held(o, k)' = 0
    <3>1. restores'[o] = <<Head(commits[o])>>
      BY <1>1, <1>10
    <3>2. <<Head(commits[o])>> # <<>>
      OBVIOUS
    <3> QED
      BY <3>1, <3>2 DEF Held
  <2>4. After(r, k) = r.seen[k] + h
    BY <1>1, <1>10 DEF After, AfterReturn
  <2>5. k \in r.need <=> h > 0
    BY <2>1 DEF Support
  <2>6. k \in r.need => k \in Items(o)
    BY <1>1, <1>3, <1>10, <2>1
  <2> HIDE DEF h
  <2>7. stock'[k] = stock[k] + h
    BY <1>4, <1>5, <2>1, <2>4, <2>5, <2>6
  <2> QED
    BY <1>1, <1>4, <1>7, <1>10, <2>1, <2>2, <2>3, <2>7 DEF r
<1> QED
  BY <1>1, <1>8, <1>9, <1>10

\* Only a commit of a status update and an adjustment move stock.
LEMMA OnlyTheseMoveStock ==
  ASSUME [Next]_vars
  PROVE  \/ \E s \in Sessions : CommitUpdate(s) \/ WriteAdjustment(s)
         \/ UNCHANGED <<commits, restores, stock, adjustments>>
<1>1. ASSUME NEW s \in Sessions, Arrive(s)
      PROVE  UNCHANGED <<commits, restores, stock, adjustments>>
  BY <1>1 DEF Arrive, LoadCart, LoadRefund, LoadVoid, LoadCapture, LoadUpdate,
              LoadAdjustment, rows
<1>2. ASSUME NEW s \in Sessions, Advance(s)
      PROVE  \/ CommitUpdate(s) \/ WriteAdjustment(s)
             \/ UNCHANGED <<commits, restores, stock, adjustments>>
  BY <1>2 DEF Advance, LockRow, LockOrder, InsertOrder, RefuseOrder, WriteUpdate,
              WriteRefund, WriteVoid, WriteCapture, rows
<1>3. ASSUME NEW s \in Sessions, Abort(s) \/ BreakDeadlock(s)
      PROVE  UNCHANGED <<commits, restores, stock, adjustments>>
  BY <1>3 DEF Abort, BreakDeadlock, rows
<1>4. ASSUME Scheduler
      PROVE  UNCHANGED <<commits, restores, stock, adjustments>>
  BY <1>4 DEF Scheduler, LoadExpired, WriteExpired, DropExpired, rows
<1>5. CASE UNCHANGED vars
  BY <1>5 DEF vars
<1> QED
  BY <1>1, <1>2, <1>3, <1>4, <1>5 DEF Next

\* Adding a delta to the stock it read, an adjustment adds it to the stock.
LEMMA AdjustmentStock ==
  ASSUME SerialInv, NEW s \in Sessions, WriteAdjustment(s)
  PROVE  LET r == req[s] IN
         /\ r \in Adjusting
         /\ stock' = [stock EXCEPT ![r.sku] = stock[r.sku] + r.delta]
         /\ adjustments' = Append(adjustments, [sku |-> r.sku, delta |-> r.delta])
         /\ UNCHANGED <<status, commits, restores>>
BY DEF SerialInv, IInv, WellFormed, Fresh, WriteAdjustment, AtWrite

\* Every serial step leaves the books balanced.
LEMMA NextConserves ==
  ASSUME SerialInv, SerialInv', StockConserved, [SerialNext]_vars
  PROVE  StockConserved'
<1>0. TypeOK /\ TypeOK'
  BY DEF SerialInv, IInv
<1>1. ASSUME NEW s \in Sessions, CommitUpdate(s), NEW k \in SKUs
      PROVE  stock'[k] + AllHeld(k)' = InitStock[k] + Adjusted(k)'
  <2>0. PICK o \in Orders : o = req[s].order
    BY <1>1, CommitFacts
  <2>1. /\ stock'[k] + Held(o, k)' = stock[k] + Held(o, k)
        /\ \A p \in Orders : p # o => Held(p, k)' = Held(p, k)
    BY <1>1, <2>0, CommitStock
  <2>2. Held(o, k) \in Nat /\ Held(o, k)' \in Nat
    BY <1>0, <2>1, HeldType, HeldTypeNext
  <2>3. AllHeld(k) \in Int /\ AllHeld(k)' = AllHeld(k) + Held(o, k)' - Held(o, k)
    BY <1>0, <2>1, AllHeldStep
  <2>4. Adjusted(k)' = Adjusted(k)
    BY <1>1 DEF CommitUpdate, Adjusted
  <2>5. stock[k] \in Nat /\ stock'[k] \in Nat
    BY <1>0 DEF TypeOK, Lines
  <2>6. InitStock[k] \in Int /\ stock[k] + AllHeld(k) = InitStock[k] + Adjusted(k)
    BY OrderAssumption DEF StockConserved, Lines
  <2> QED
    BY <2>1, <2>2, <2>3, <2>4, <2>5, <2>6
<1>2. ASSUME NEW s \in Sessions, WriteAdjustment(s), NEW k \in SKUs
      PROVE  stock'[k] + AllHeld(k)' = InitStock[k] + Adjusted(k)'
  <2>1. /\ req[s] \in Adjusting /\ req[s].sku \in SKUs /\ req[s].delta \in Deltas
        /\ req[s].delta \in Int
        /\ stock' = [stock EXCEPT ![req[s].sku] = stock[req[s].sku] + req[s].delta]
        /\ adjustments' = Append(adjustments, [sku |-> req[s].sku, delta |-> req[s].delta])
        /\ UNCHANGED <<commits, restores>>
    BY <1>2, AdjustmentStock, OrderAssumption DEF Adjusting
  <2>2. Adjusted(k) \in Int
        /\ Adjusted(k)' = Adjusted(k) + (IF req[s].sku = k THEN req[s].delta ELSE 0)
    BY <1>0, <2>1, AdjustedStep
  <2>3. stock[k] \in Nat
        /\ stock'[k] = stock[k] + (IF req[s].sku = k THEN req[s].delta ELSE 0)
    BY <1>0, <2>1 DEF TypeOK, Lines
  <2>4. AllHeld(k)' = AllHeld(k)
    BY <2>1 DEF AllHeld, Held
  <2>5. InitStock[k] \in Int /\ stock[k] + AllHeld(k) = InitStock[k] + Adjusted(k)
    BY OrderAssumption DEF StockConserved, Lines
  <2>6. AllHeld(k) \in Int
    BY <1>0, AllHeldType
  <2>7. (IF req[s].sku = k THEN req[s].delta ELSE 0) \in Int
    BY <2>1
  <2> QED
    BY <2>2, <2>3, <2>4, <2>5, <2>6, <2>7
<1>3. CASE UNCHANGED <<commits, restores, stock, adjustments>>
  BY <1>3 DEF StockConserved, AllHeld, Held, Adjusted
<1>4. ASSUME NEW s \in Sessions, CommitUpdate(s) \/ WriteAdjustment(s)
      PROVE  StockConserved'
  BY <1>1, <1>2, <1>4 DEF StockConserved
<1>5. [Next]_vars
  BY SerialIsNext
<1> QED
  BY <1>3, <1>4, <1>5, OnlyTheseMoveStock

\* With one request or one pass at a time the books balance: what was there, plus
\* every adjustment, is on the shelf or in the orders that took it.
THEOREM SerialConserves == SerialSpec => []StockConserved
<1>1. Init => StockConserved
  <2> SUFFICES ASSUME Init, NEW k \in SKUs
               PROVE  stock[k] + AllHeld(k) = InitStock[k] + Adjusted(k)
    BY DEF StockConserved
  <2> DEFINE f == [o \in Orders |-> Held(o, k)]
             z == [o \in Orders |-> 0]
  <2>1. f = z
    BY DEF Init, Held
  <2>2. SumFunctionOnSet(z, Orders) = 0
    BY SumOfZeros, OrderAssumption
  <2>3. AllHeld(k) = 0
    BY <2>1, <2>2 DEF AllHeld, SumFunction
  <2>4. Adjusted(k) = 0
    <3>1. DOMAIN adjustments = {}
      BY DEF Init
    <3> QED
      BY <3>1, SumUnfold, FS_EmptySet DEF Adjusted, SumFunction
  <2>5. stock[k] = InitStock[k]
    BY DEF Init
  <2> QED
    BY <2>3, <2>4, <2>5
<1>2. SerialInv /\ SerialInv' /\ StockConserved /\ [SerialNext]_vars => StockConserved'
  BY NextConserves
<1> QED
  BY <1>1, <1>2, SpecSerialInv, PTL DEF SerialSpec

-----------------------------------------------------------------------------
(* The shelf and the open orders.                                           *)

\* What an order reserves is a quantity, and no more than it asks for.
LEMMA ReservesType ==
  ASSUME NEW o \in Orders, NEW k \in SKUs
  PROVE  /\ Reserves(o, k) \in Nat /\ Reserves(o, k)' \in Nat
         /\ Reserves(o, k) <= Qty[o][k]
BY OrderAssumption DEF Reserves, Lines

\* When one order's reservation changes, the total changes with it.
LEMMA ReservedStep ==
  ASSUME NEW o \in Orders, NEW k \in SKUs,
         \A p \in Orders : p # o => Reserves(p, k)' = Reserves(p, k)
  PROVE  /\ Reserved(k) \in Int
         /\ Reserved(k)' = Reserved(k) + Reserves(o, k)' - Reserves(o, k)
<1> DEFINE f == [p \in Orders |-> Reserves(p, k)]
           g == [p \in Orders |-> Reserves(p, k)']
<1>1. \A p \in Orders : f[p] \in Int /\ g[p] \in Int /\ (p # o => g[p] = f[p])
  BY ReservesType
<1>2. Reserved(k) = SumFunctionOnSet(f, Orders) /\ Reserved(k)' = SumFunctionOnSet(g, Orders)
  BY DEF Reserved, SumFunction
<1>3. f[o] = Reserves(o, k) /\ g[o] = Reserves(o, k)'
  OBVIOUS
<1>4. IsFiniteSet(Orders)
  BY OrderAssumption
<1> HIDE DEF f, g
<1>5. /\ SumFunctionOnSet(f, Orders) \in Int
      /\ SumFunctionOnSet(g, Orders) = SumFunctionOnSet(f, Orders) + g[o] - f[o]
  BY <1>1, <1>4, SumChange
<1> QED
  BY <1>2, <1>3, <1>5

\* When no order's reservation grows, neither does the total.
LEMMA ReservedShrinks ==
  ASSUME NEW k \in SKUs,
         \A p \in Orders : Reserves(p, k)' <= Reserves(p, k)
  PROVE  /\ Reserved(k) \in Int /\ Reserved(k)' \in Int
         /\ Reserved(k)' <= Reserved(k)
<1> DEFINE f == [p \in Orders |-> Reserves(p, k)]
           g == [p \in Orders |-> Reserves(p, k)']
<1>1. \A p \in Orders : f[p] \in Int /\ g[p] \in Int /\ g[p] <= f[p]
  BY ReservesType
<1>2. Reserved(k) = SumFunctionOnSet(f, Orders) /\ Reserved(k)' = SumFunctionOnSet(g, Orders)
  BY DEF Reserved, SumFunction
<1>3. IsFiniteSet(Orders)
  BY OrderAssumption
<1> HIDE DEF f, g
<1> QED
  BY <1>1, <1>2, <1>3, SumMonotone

\* Only a checkout makes a reservation: no other step brings a row into the
\* table's open statuses from outside.
LEMMA OnlyCheckoutReserves ==
  ASSUME SerialInv, [SerialNext]_vars, \A s \in Sessions : ~InsertOrder(s),
         NEW p \in Orders, NEW k \in SKUs
  PROVE  Reserves(p, k)' <= Reserves(p, k)
<1>1. TableMove(p)
  BY NextMoves
<1>2. status[p] = "absent" => status'[p] = "absent"
  <2>1. CASE status' = status
    BY <2>1
  <2>2. ASSUME NEW s \in Sessions, Arrive(s)
        PROVE  status' = status
    BY <2>2 DEF Arrive, LoadCart, LoadRefund, LoadVoid, LoadCapture, LoadUpdate,
         LoadAdjustment, rows
  <2>3. ASSUME NEW s \in Sessions,
               \/ CommitUpdate(s)
               \/ WriteUpdate(s) \/ WriteRefund(s) \/ WriteVoid(s) \/ WriteCapture(s)
        PROVE  status[p] = "absent" => status'[p] = "absent"
    <3>1. /\ req[s] \in Requests /\ req[s].order \in Orders
          /\ req[s].op \in {"update", "refund", "void", "capture"}
          /\ Knows(req[s])
      BY <2>3 DEF SerialInv, IInv, WellFormed, Fresh, Requests, CommitUpdate,
           WriteUpdate, WriteRefund, WriteVoid, WriteCapture, AtWrite
    <3>2. p # req[s].order => status'[p] = status[p]
      BY <2>3, <3>1 DEF SerialInv, IInv, TypeOK, CommitUpdate, WriteUpdate, WriteRefund,
           WriteVoid, WriteCapture, SetStatus
    <3>3. status[req[s].order] # "absent"
      BY <3>1 DEF Knows, Fulfilled, Payable
    <3> QED
      BY <3>2, <3>3
  <2>4. ASSUME NEW s \in Sessions, Advance(s) \/ Abort(s)
        PROVE  status[p] = "absent" => status'[p] = "absent"
    BY <2>1, <2>3, <2>4 DEF Advance, LockRow, LockOrder, RefuseOrder, WriteAdjustment, Abort, rows
  <2>5. CASE WriteExpired
    BY <2>5 DEF WriteExpired, SerialInv, Alone
  <2>6. CASE DropExpired \/ (\E batch \in SUBSET Orders : LoadExpired(batch)) \/ UNCHANGED vars
    <3>1. status' = status
      BY <2>6 DEF DropExpired, LoadExpired, rows, vars
    <3> QED
      BY <2>1, <3>1
  <2> QED
    BY <2>1, <2>2, <2>4, <2>5, <2>6 DEF SerialNext
<1>3. status[p] \in Statuses \cup {"absent"} /\ Qty[p][k] \in Nat
  BY OrderAssumption DEF SerialInv, IInv, TypeOK, Lines
<1>4. status'[p] \in Open => status[p] \in Open
  <2>1. CASE status'[p] = status[p]
    BY <2>1
  <2>2. CASE status'[p] # status[p]
    <3>1. status[p] \in Statuses /\ status'[p] \in Targets(status[p], Method[p])
      BY <1>1, <1>2, <1>3, <2>2 DEF TableMove
    <3> QED
      BY <3>1, TargetsTable DEF Open
  <2> QED
    BY <2>1, <2>2
<1> QED
  BY <1>3, <1>4 DEF Reserves

\* An order whose stock is taken gives up a reservation of all it asks for.
LEMMA TakeReleases ==
  ASSUME SerialInv, NEW s \in Sessions, CommitUpdate(s), req[s].act = "take",
         NEW o \in Orders, o = req[s].order, NEW k \in SKUs
  PROVE  /\ Reserves(o, k) = Qty[o][k] /\ Reserves(o, k)' = 0
         /\ \A p \in Orders : p # o => Reserves(p, k)' = Reserves(p, k)
<1>1. /\ req[s].op = "update" /\ req[s].goal \in Fulfilled
      /\ commits[o] = <<>>
      /\ status'[o] = req[s].goal
  BY CommitFacts, CommitEvents DEF SerialInv
<1>2. status[o] \in Statuses /\ req[s].goal \in Targets(status[o], Method[o])
  BY <1>1 DEF SerialInv, IInv, TypeOK, Fresh, Knows, CommitUpdate
<1>3. status[o] \notin Fulfilled
  BY <1>1 DEF SerialInv, IInv, FulfilledTookStock
<1>4. status[o] = "pending_acceptance"
  BY <1>1, <1>2, <1>3, TargetsTable
<1>5. \A p \in Orders : p # o => status'[p] = status[p]
  BY DEF CommitUpdate, SerialInv, IInv, TypeOK
<1> QED
  BY <1>1, <1>4, <1>5 DEF Reserves, Open, Fulfilled

\* A checkout that the shelf has room for.
LEMMA InsertFits ==
  ASSUME SerialInv, NEW s \in Sessions, InsertOrder(s), NoOversell,
         NEW k \in SKUs \ Backorder
  PROVE  Reserved(k)' <= stock'[k]
<1>0. PICK o \in Orders : o = req[s].order
  BY DEF SerialInv, IInv, WellFormed, InsertOrder, AtCheckout, Busy, Requests
<1>1. /\ req[s] \in Requests /\ req[s].op = "checkout" /\ req[s].pc = "rows"
      /\ Knows(req[s])
  BY DEF SerialInv, IInv, WellFormed, Fresh, InsertOrder, AtCheckout
<1>2. status[o] = "absent" /\ req[s].need = Items(o) /\ req[s].seen = Snapshot(o)
  BY <1>0, <1>1 DEF Knows
<1>3. \A p \in Orders : p # o => Reserves(p, k)' = Reserves(p, k)
  BY <1>0 DEF InsertOrder, SerialInv, IInv, TypeOK, Reserves
<1>4. /\ Reserved(k) \in Int
      /\ Reserved(k)' = Reserved(k) + Reserves(o, k)' - Reserves(o, k)
  BY <1>3, ReservedStep
<1>5. Reserves(o, k) = 0
  BY <1>2 DEF Reserves, Open
<1>6. Reserves(o, k)' \in Nat /\ Reserves(o, k)' <= Qty[o][k] /\ Qty[o][k] \in Nat
  BY OrderAssumption DEF Reserves, Lines
<1>7. stock'[k] = stock[k] /\ stock[k] \in Nat
  BY DEF InsertOrder, SerialInv, IInv, TypeOK, Lines
<1>8. CASE k \in Items(o)
  <2>1. Qty[o][k] + Reserved(k) <= req[s].seen[k]
    BY <1>0, <1>2, <1>8 DEF InsertOrder, Available
  <2>2. req[s].seen[k] = stock[k]
    BY <1>2, <1>8 DEF Snapshot
  <2> QED
    BY <1>4, <1>5, <1>6, <1>7, <2>1, <2>2
<1>9. CASE k \notin Items(o)
  <2>1. Qty[o][k] = 0
    BY <1>6, <1>9 DEF Items, Support
  <2>2. Reserved(k) <= stock[k]
    BY DEF NoOversell
  <2> QED
    BY <1>4, <1>5, <1>6, <1>7, <2>1, <2>2
<1> QED
  BY <1>8, <1>9

\* Every serial step leaves the shelf covering the open orders, but an adjustment
\* that takes stock away.
LEMMA NextCovers ==
  ASSUME SerialInv, NoOversell, [SerialNext]_vars,
         \A s \in Sessions : WriteAdjustment(s) => req[s].delta >= 0
  PROVE  NoOversell'
<1> SUFFICES ASSUME NEW k \in SKUs \ Backorder
             PROVE  Reserved(k)' <= stock'[k]
  BY DEF NoOversell
<1>0. stock[k] \in Nat /\ Reserved(k) <= stock[k]
  BY DEF SerialInv, IInv, TypeOK, Lines, NoOversell
<1>1. ASSUME NEW s \in Sessions, InsertOrder(s)
      PROVE  Reserved(k)' <= stock'[k]
  BY <1>1, InsertFits
<1>2. ASSUME \A s \in Sessions : ~InsertOrder(s)
      PROVE  Reserved(k) \in Int /\ Reserved(k)' \in Int /\ Reserved(k)' <= Reserved(k)
  BY <1>2, OnlyCheckoutReserves, ReservedShrinks
<1>3. ASSUME \A s \in Sessions : ~InsertOrder(s), NEW s \in Sessions, CommitUpdate(s)
      PROVE  Reserved(k)' <= stock'[k]
  <2>0. PICK o \in Orders : o = req[s].order
    BY <1>3, CommitFacts
  <2>1. stock'[k] \in Nat
    BY <1>3, SerialIsNext, NextIInv DEF SerialInv, IInv, TypeOK, Lines
  <2>2. CASE req[s].act = "take"
    <3>1. /\ Reserves(o, k) = Qty[o][k] /\ Reserves(o, k)' = 0
          /\ \A p \in Orders : p # o => Reserves(p, k)' = Reserves(p, k)
      BY <1>3, <2>0, <2>2, TakeReleases
    <3>2. Reserved(k) \in Int /\ Reserved(k)' = Reserved(k) + 0 - Qty[o][k]
      BY <3>1, ReservedStep
    <3>3. stock'[k] + Qty[o][k] >= stock[k] /\ Qty[o][k] \in Nat
      BY <1>3, <2>0, <2>2, CommitStock, OrderAssumption DEF Lines
    <3> QED
      BY <1>0, <2>1, <3>2, <3>3
  <2>3. CASE req[s].act # "take"
    <3>1. stock'[k] >= stock[k]
      BY <1>3, <2>0, <2>3, CommitStock
    <3> QED
      BY <1>0, <1>2, <1>3, <2>1, <3>1
  <2> QED
    BY <2>2, <2>3
<1>4. ASSUME \A s \in Sessions : ~InsertOrder(s), NEW s \in Sessions, WriteAdjustment(s)
      PROVE  Reserved(k)' <= stock'[k]
  <2>1. /\ req[s].sku \in SKUs /\ req[s].delta \in Int /\ req[s].delta >= 0
        /\ stock' = [stock EXCEPT ![req[s].sku] = stock[req[s].sku] + req[s].delta]
    BY <1>4, AdjustmentStock, OrderAssumption DEF Adjusting
  <2>2. stock'[k] \in Nat /\ stock'[k] >= stock[k]
    BY <1>0, <2>1 DEF SerialInv, IInv, TypeOK, Lines
  <2> QED
    BY <1>0, <1>2, <1>4, <2>2
<1>5. ASSUME \A s \in Sessions : ~InsertOrder(s), stock' = stock
      PROVE  Reserved(k)' <= stock'[k]
  BY <1>0, <1>2, <1>5
<1>6. [Next]_vars
  BY SerialIsNext
<1> QED
  BY <1>1, <1>3, <1>4, <1>5, <1>6, OnlyTheseMoveStock

\* Whatever adjustments an admin may ask for: with one request or one pass at a
\* time, only the commit of one that takes stock away uncovers the open orders.
THEOREM OnlyAdjustmentUncovers ==
  SerialSpec =>
    [][NoOversell /\ ~NoOversell' =>
         \E s \in Sessions : WriteAdjustment(s) /\ req[s].delta < 0]_vars
<1>1. SerialInv /\ [SerialNext]_vars =>
        [NoOversell /\ ~NoOversell' =>
           \E s \in Sessions : WriteAdjustment(s) /\ req[s].delta < 0]_vars
  <2> SUFFICES ASSUME SerialInv, [SerialNext]_vars, NoOversell,
                      \A s \in Sessions : ~(WriteAdjustment(s) /\ req[s].delta < 0)
               PROVE  NoOversell'
    OBVIOUS
  <2>1. ASSUME NEW s \in Sessions, WriteAdjustment(s)
        PROVE  req[s].delta >= 0
    <3>1. req[s].delta \in Int
      BY <2>1, AdjustmentStock, OrderAssumption DEF Adjusting
    <3> QED
      BY <2>1, <3>1
  <2> QED
    BY <2>1, NextCovers
<1> QED
  BY <1>1, SpecSerialInv, PTL DEF SerialSpec

\* With one request or one pass at a time, and no manual adjustment that takes
\* stock away, the shelf covers the open orders: what build_order_from_cart checks
\* at checkout stays true until the order is accepted, cancelled or expires.
THEOREM SerialNoOversell ==
  ASSUME Deltas \subseteq Nat
  PROVE  SerialSpec => []NoOversell
<1>1. Init => NoOversell
  <2> SUFFICES ASSUME Init, NEW k \in SKUs
               PROVE  Reserved(k) <= stock[k]
    BY DEF NoOversell
  <2>1. [o \in Orders |-> Reserves(o, k)] = [o \in Orders |-> 0]
    BY DEF Init, Reserves, Open
  <2>2. Reserved(k) = 0
    BY <2>1, SumOfZeros, OrderAssumption DEF Reserved, SumFunction
  <2>3. stock[k] \in Nat
    BY OrderAssumption DEF Init, Lines
  <2> QED
    BY <2>2, <2>3
<1>2. SerialInv /\ NoOversell /\ [SerialNext]_vars => NoOversell'
  <2> SUFFICES ASSUME SerialInv, NoOversell, [SerialNext]_vars
               PROVE  NoOversell'
    OBVIOUS
  <2>1. ASSUME NEW s \in Sessions, WriteAdjustment(s)
        PROVE  req[s].delta >= 0
    <3>1. req[s].delta \in Nat
      BY <2>1, AdjustmentStock DEF Adjusting
    <3> QED
      BY <3>1
  <2> QED
    BY <2>1, NextCovers
<1> QED
  BY <1>1, <1>2, SpecSerialInv, PTL DEF SerialSpec

=============================================================================
