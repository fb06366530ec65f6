--------------------------- MODULE CouponsProofs ---------------------------
(***************************************************************************)
(* Proofs about Coupons for any number of orders, customers and            *)
(* overlapping requests, and any caps.  A reservation is granted on a      *)
(* count taken some steps before it is inserted; the inductive invariant   *)
(* says that the coupon's row lock keeps that count right: nobody else is  *)
(* between its lock and its commit (OneHolder), and what the others may    *)
(* still do, expire, release and void, only lowers the uses.               *)
(***************************************************************************)
EXTENDS Coupons, FiniteSetTheorems, TLAPS

\* A request that holds the coupon row is the one the lock names.
OneHolder == \A s \in Sessions : Holding(s) => couponLock = s

IInv == TypeOK /\ OneHolder /\ CountStillRight

-----------------------------------------------------------------------------
(* Counting.                                                                *)

\* The uses are counted over finite sets.
LEMMA FiniteUses ==
  ASSUME NEW u
  PROVE  /\ IsFiniteSet(Reserved) /\ IsFiniteSet(Redeemed)
         /\ IsFiniteSet(Redeemed \cap Of(u)) /\ IsFiniteSet(Reserved \cap Of(u))
         /\ Uses \in Nat /\ UsesBy(u) \in Nat
<1>1. Reserved \subseteq Orders /\ Redeemed \subseteq Orders
  BY DEF Reserved, Redeemed
<1>2. IsFiniteSet(Reserved) /\ IsFiniteSet(Redeemed)
  BY <1>1, CouponAssumption, FS_Subset
<1>3. IsFiniteSet(Redeemed \cap Of(u)) /\ IsFiniteSet(Reserved \cap Of(u))
  BY <1>2, FS_Subset
<1> QED
  BY <1>2, <1>3, FS_CardinalityType DEF Uses, UsesBy

\* Where no order is newly reserved or redeemed, the uses do not grow.
LEMMA UsesShrink ==
  ASSUME Reserved' \subseteq Reserved, Redeemed' \subseteq Redeemed, NEW u
  PROVE  /\ Uses' \in Nat /\ UsesBy(u)' \in Nat
         /\ Uses' <= Uses /\ UsesBy(u)' <= UsesBy(u)
<1> DEFINE R == Reserved
           D == Redeemed
           W == Of(u)
<1>1. IsFiniteSet(R) /\ IsFiniteSet(D) /\ IsFiniteSet(D \cap W) /\ IsFiniteSet(R \cap W)
  BY FiniteUses
<1>2. /\ R' \cap W \subseteq R \cap W
      /\ D' \cap W \subseteq D \cap W
  OBVIOUS
<1>3. /\ Cardinality(R') \in Nat /\ Cardinality(R) \in Nat /\ Cardinality(R') <= Cardinality(R)
      /\ Cardinality(D') \in Nat /\ Cardinality(D) \in Nat /\ Cardinality(D') <= Cardinality(D)
  BY <1>1, FS_Subset, FS_CardinalityType
<1>4. /\ Cardinality(R' \cap W) \in Nat /\ Cardinality(R \cap W) \in Nat
      /\ Cardinality(R' \cap W) <= Cardinality(R \cap W)
      /\ Cardinality(D' \cap W) \in Nat /\ Cardinality(D \cap W) \in Nat
      /\ Cardinality(D' \cap W) <= Cardinality(D \cap W)
  BY <1>1, <1>2, FS_Subset, FS_CardinalityType
<1>5. Of(u)' = W
  BY DEF Of
<1> QED
  BY <1>3, <1>4, <1>5 DEF Uses, UsesBy

\* A customer who had a use left still has one when the uses have not grown.
LEMMA StillLeft ==
  ASSUME Reserved' \subseteq Reserved, Redeemed' \subseteq Redeemed,
         NEW o, LeftFor(o)
  PROVE  LeftFor(o)'
<1>1. /\ Uses' <= Uses /\ UsesBy(User[o])' <= UsesBy(User[o])
      /\ Uses \in Nat /\ UsesBy(User[o]) \in Nat
      /\ Uses' \in Nat /\ UsesBy(User[o])' \in Nat
  BY UsesShrink, FiniteUses
<1> QED
  BY <1>1, CouponAssumption DEF LeftFor

-----------------------------------------------------------------------------
(* The inductive invariant.                                                 *)

\* No request holds the coupon row at the start.
LEMMA InitIInv == Init => IInv
BY DEF Init, IInv, TypeOK, OneHolder, CountStillRight, Holding, At

\* A step of session s after which the uses have not grown, and no other
\* session has moved.
LEMMA QuietStep ==
  ASSUME IInv, NEW s \in Sessions,
         TypeOK', OneHolder',
         Reserved' \subseteq Reserved, Redeemed' \subseteq Redeemed,
         \A t \in Sessions : t # s => req'[t] = req[t],
         At(s, "insert")' => LeftFor(req'[s].order)
  PROVE  IInv'
<1>1. CountStillRight'
  <2> SUFFICES ASSUME NEW t \in Sessions, At(t, "insert")'
               PROVE  LeftFor(req[t].order)'
    BY DEF CountStillRight
  <2>1. LeftFor(req'[t].order)
    BY DEF IInv, CountStillRight, At
  <2> QED
    BY <2>1, StillLeft
<1> QED
  BY <1>1 DEF IInv

\* Every step of every handler keeps the coupon row with one holder, and that
\* holder's count right.
THEOREM CouponsNextIInv == IInv /\ [Next]_vars => IInv'
<1> SUFFICES ASSUME IInv, [Next]_vars
             PROVE  IInv'
  OBVIOUS
<1> USE CouponAssumption DEF ledger
<1>1. ASSUME NEW s \in Sessions, NEW o \in Orders,
             Apply(s, o) \/ Capture(s, o) \/ Close(s, o)
      PROVE  IInv'
  <2>1. /\ req[s] = Idle
        /\ \E pc \in {"address", "redeem", "unreserve"} :
             req' = [req EXCEPT ![s] = [pc |-> pc, order |-> o]]
        /\ UNCHANGED <<reservation, redemption, couponLock>>
        /\ order' \in [Orders -> {"absent", "pending", "accepted", "closed"}]
    BY <1>1 DEF Apply, Capture, Close, Begin, IInv, TypeOK
  <2>2. TypeOK' /\ OneHolder'
    BY <2>1 DEF IInv, TypeOK, OneHolder, Requests, Steps, Holding, Idle
  <2>3. Reserved' = Reserved /\ Redeemed' = Redeemed
    BY <2>1 DEF Reserved, Redeemed
  <2>4. ~At(s, "insert")' /\ \A t \in Sessions : t # s => req'[t] = req[t]
    BY <2>1 DEF At, IInv, TypeOK
  <2> QED
    BY <2>2, <2>3, <2>4, QuietStep
<1>2. ASSUME NEW s \in Sessions,
             SaveAddress(s) \/ Place(s) \/ DropReservation(s) \/ VoidRedemption(s)
      PROVE  IInv'
  <2>1. /\ req[s] \in Requests /\ req[s].order \in Orders
        /\ req[s].pc \in {"address", "place", "unreserve", "void"}
        /\ UNCHANGED couponLock
        /\ \/ req' = [req EXCEPT ![s].pc = "place"]
           \/ req' = [req EXCEPT ![s].pc = "reserve"]
           \/ req' = [req EXCEPT ![s].pc = "void"]
           \/ req' = [req EXCEPT ![s] = Idle]
    BY <1>2 DEF SaveAddress, Place, DropReservation, VoidRedemption, At, GoOn, Stop,
                IInv, TypeOK, Requests
  <2>2. /\ order' \in [Orders -> {"absent", "pending", "accepted", "closed"}]
        /\ reservation' \in [Orders -> {"none", "live", "expired"}]
        /\ redemption' \in [Orders -> {"none", "active", "voided"}]
    BY <1>2, <2>1 DEF SaveAddress, Place, DropReservation, VoidRedemption, IInv, TypeOK
  <2>3. /\ req' \in [Sessions -> Requests \cup {Idle}]
        /\ ~Holding(s) /\ ~Holding(s)' /\ ~At(s, "insert")'
        /\ \A t \in Sessions : t # s => req'[t] = req[t]
    BY <2>1 DEF IInv, TypeOK, Requests, Steps, Holding, At, Idle
  <2>4. TypeOK' /\ OneHolder'
    BY <2>1, <2>2, <2>3 DEF IInv, TypeOK, OneHolder, Holding
  <2>5. Reserved' \subseteq Reserved /\ Redeemed' \subseteq Redeemed
    BY <1>2 DEF SaveAddress, Place, DropReservation, VoidRedemption, Reserved, Redeemed,
                IInv, TypeOK
  <2> QED
    BY <2>3, <2>4, <2>5, QuietStep
<1>3. ASSUME NEW s \in Sessions, LookForRedemption(s) \/ LockForReserve(s) \/ LockForRedeem(s)
      PROVE  IInv'
  <2>1. /\ req[s] \in Requests /\ req[s].order \in Orders
        /\ ~Holding(s)
        /\ UNCHANGED <<order, reservation, redemption>>
        /\ \/ /\ couponLock = None /\ couponLock' = s
              /\ \/ req' = [req EXCEPT ![s].pc = "count"]
                 \/ req' = [req EXCEPT ![s].pc = "commit"]
           \/ /\ UNCHANGED couponLock
              /\ \/ req' = [req EXCEPT ![s].pc = "lock"]
                 \/ req' = [req EXCEPT ![s] = Idle]
    BY <1>3 DEF LookForRedemption, LockForReserve, LockForRedeem, LockCoupon, At, GoOn,
                Stop, Holding, IInv, TypeOK, Requests
  <2>2. /\ req' \in [Sessions -> Requests \cup {Idle}]
        /\ Holding(s)' <=> couponLock' = s /\ couponLock = None
        /\ ~At(s, "insert")'
        /\ \A t \in Sessions : t # s => req'[t] = req[t]
    BY <2>1 DEF IInv, TypeOK, OneHolder, Requests, Steps, Holding, At, Idle
  <2>3. TypeOK' /\ OneHolder'
    BY <2>1, <2>2 DEF IInv, TypeOK, OneHolder, Holding
  <2>4. Reserved' = Reserved /\ Redeemed' = Redeemed
    BY <2>1 DEF Reserved, Redeemed
  <2> QED
    BY <2>2, <2>3, <2>4, QuietStep
<1>4. ASSUME NEW s \in Sessions, Count(s) \/ RefuseSecondRedemption(s) \/ Abort(s)
      PROVE  IInv'
  <2>1. /\ req[s] \in Requests /\ req[s].order \in Orders
        /\ UNCHANGED <<order, reservation, redemption>>
        /\ \/ /\ Holding(s) /\ LeftFor(req[s].order)
              /\ req' = [req EXCEPT ![s].pc = "insert"] /\ UNCHANGED couponLock
           \/ /\ req' = [req EXCEPT ![s] = Idle]
              /\ couponLock' = IF couponLock = s THEN None ELSE couponLock
    BY <1>4 DEF Count, RefuseSecondRedemption, Abort, Unlock, At, GoOn, Stop, Holding,
                IInv, TypeOK, Requests
  <2>2. /\ req' \in [Sessions -> Requests \cup {Idle}]
        /\ \A t \in Sessions : t # s => req'[t] = req[t]
        /\ At(s, "insert")' => LeftFor(req'[s].order)
    BY <2>1 DEF IInv, TypeOK, Requests, Steps, At, Idle
  <2>3. TypeOK' /\ OneHolder'
    BY <2>1, <2>2 DEF IInv, TypeOK, OneHolder, Holding, Idle, Requests
  <2>4. Reserved' = Reserved /\ Redeemed' = Redeemed
    BY <2>1 DEF Reserved, Redeemed
  <2> QED
    BY <2>2, <2>3, <2>4, QuietStep
<1>5. ASSUME NEW s \in Sessions, InsertReservation(s) \/ CommitRedemption(s)
      PROVE  IInv'
  <2>1. /\ req[s] \in Requests /\ req[s].order \in Orders
        /\ Holding(s) /\ couponLock = s
        /\ couponLock' = None
        /\ \/ req' = [req EXCEPT ![s].pc = "redeem"]
           \/ req' = [req EXCEPT ![s] = Idle]
    BY <1>5 DEF InsertReservation, CommitRedemption, Unlock, At, GoOn, Stop, Holding,
                IInv, TypeOK, OneHolder, Requests
  <2>2. /\ order' \in [Orders -> {"absent", "pending", "accepted", "closed"}]
        /\ reservation' \in [Orders -> {"none", "live", "expired"}]
        /\ redemption' \in [Orders -> {"none", "active", "voided"}]
    BY <1>5, <2>1 DEF InsertReservation, CommitRedemption, IInv, TypeOK
  <2>3. /\ req' \in [Sessions -> Requests \cup {Idle}]
        /\ \A t \in Sessions : ~Holding(t)'
    BY <2>1 DEF IInv, TypeOK, OneHolder, Requests, Steps, Holding, Idle
  <2>4. TypeOK' /\ OneHolder' /\ CountStillRight'
    BY <2>1, <2>2, <2>3 DEF TypeOK, OneHolder, CountStillRight, Holding, At
  <2> QED
    BY <2>4 DEF IInv
<1>6. ASSUME NEW o \in Orders, Expire(o) \/ ExpireOrder(o)
      PROVE  IInv'
  <2>1. /\ UNCHANGED <<couponLock, req, redemption>>
        /\ Reserved' \subseteq Reserved
        /\ TypeOK' /\ OneHolder'
    BY <1>6 DEF Expire, ExpireOrder, Reserved, IInv, TypeOK, OneHolder, Holding
  <2>2. Redeemed' \subseteq Redeemed
    BY <2>1 DEF Redeemed
  <2>3. CountStillRight'
    <3> SUFFICES ASSUME NEW t \in Sessions, At(t, "insert")'
                 PROVE  LeftFor(req[t].order)'
      BY DEF CountStillRight
    <3>1. LeftFor(req[t].order) /\ req'[t] = req[t]
      BY <2>1 DEF IInv, CountStillRight, At
    <3> QED
      BY <2>1, <2>2, <3>1, StillLeft
  <2> QED
    BY <2>1, <2>3 DEF IInv
<1>7. CASE UNCHANGED vars
  BY <1>7 DEF vars, IInv, TypeOK, OneHolder, CountStillRight, Holding, At, LeftFor, Uses,
              UsesBy, Reserved, Redeemed, Of
<1> QED
  BY <1>1, <1>2, <1>3, <1>4, <1>5, <1>6, <1>7 DEF Next, Advance

\* IInv holds in every reachable state.
LEMMA SpecIInv == Spec => []IInv
BY InitIInv, CouponsNextIInv, PTL DEF Spec

\* The lock discipline, and the shape of the ledger.
THEOREM CouponsTypeCorrect == Spec => []TypeOK
<1>1. IInv => TypeOK
  BY DEF IInv
<1> QED
  BY <1>1, SpecIInv, PTL

\* The count a reservation is granted on is right when it is inserted.
THEOREM CountTrusted == Spec => []CountStillRight
<1>1. IInv => CountStillRight
  BY DEF IInv
<1> QED
  BY <1>1, SpecIInv, PTL

-----------------------------------------------------------------------------
(* What a step may never do.                                                *)

\* One more element, at most one more to count.
LEMMA AddOne ==
  ASSUME NEW S, IsFiniteSet(S), NEW x
  PROVE  /\ IsFiniteSet(S \cup {x})
         /\ Cardinality(S \cup {x}) <= Cardinality(S) + 1
<1>1. /\ IsFiniteSet(S \cup {x})
      /\ Cardinality(S \cup {x}) = Cardinality(S) \/ Cardinality(S \cup {x}) = Cardinality(S) + 1
  BY FS_AddElement
<1> QED
  BY <1>1, FS_CardinalityType

\* One more order reserved, and none more redeemed: at most one more use.
LEMMA OneMoreUse ==
  ASSUME NEW o, Reserved' \subseteq Reserved \cup {o}, Redeemed' \subseteq Redeemed, NEW u
  PROVE  /\ Uses' \in Nat /\ UsesBy(u)' \in Nat
         /\ Uses' <= Uses + 1 /\ UsesBy(u)' <= UsesBy(u) + 1
<1> DEFINE R == Reserved
           D == Redeemed
           W == Of(u)
           X == R \cup {o}
           Y == (R \cap W) \cup {o}
<1>1. IsFiniteSet(R) /\ IsFiniteSet(D) /\ IsFiniteSet(D \cap W) /\ IsFiniteSet(R \cap W)
  BY FiniteUses
<1>2. /\ R' \cap W \subseteq Y
      /\ D' \cap W \subseteq D \cap W
  OBVIOUS
<1>3. /\ IsFiniteSet(X) /\ Cardinality(X) <= Cardinality(R) + 1
      /\ IsFiniteSet(Y) /\ Cardinality(Y) <= Cardinality(R \cap W) + 1
  BY <1>1, AddOne
<1>4. /\ Cardinality(R') \in Nat /\ Cardinality(R) \in Nat
      /\ Cardinality(X) \in Nat /\ Cardinality(R') <= Cardinality(X)
      /\ Cardinality(D') \in Nat /\ Cardinality(D) \in Nat /\ Cardinality(D') <= Cardinality(D)
  BY <1>1, <1>3, FS_Subset, FS_CardinalityType
<1>5. /\ Cardinality(R' \cap W) \in Nat /\ Cardinality(R \cap W) \in Nat
      /\ Cardinality(Y) \in Nat /\ Cardinality(R' \cap W) <= Cardinality(Y)
      /\ Cardinality(D' \cap W) \in Nat /\ Cardinality(D \cap W) \in Nat
      /\ Cardinality(D' \cap W) <= Cardinality(D \cap W)
  BY <1>1, <1>2, <1>3, FS_Subset, FS_CardinalityType
<1>6. Of(u)' = W
  BY DEF Of
<1> HIDE DEF R, D, W, X, Y
<1> QED
  BY <1>3, <1>4, <1>5, <1>6 DEF Uses, UsesBy, R, D, W

\* Only the commit of a reservation makes one live.
LEMMA ReservedBy ==
  ASSUME IInv, [Next]_vars, NEW o \in Orders,
         reservation[o] # "live", reservation'[o] = "live"
  PROVE  \E s \in Sessions : InsertReservation(s) /\ req[s].order = o
<1> USE DEF ledger
<1>1. \A s \in Sessions : ~ \E p \in Orders : Apply(s, p) \/ Capture(s, p) \/ Close(s, p)
  BY DEF Apply, Capture, Close
<1>2. \A s \in Sessions :
        ~(SaveAddress(s) \/ Place(s) \/ LockForReserve(s) \/ Count(s) \/ LookForRedemption(s)
          \/ LockForRedeem(s) \/ CommitRedemption(s) \/ RefuseSecondRedemption(s)
          \/ DropReservation(s) \/ VoidRedemption(s) \/ Abort(s))
  BY DEF SaveAddress, Place, LockForReserve, Count, LookForRedemption, LockForRedeem,
         CommitRedemption,
         RefuseSecondRedemption, DropReservation, VoidRedemption, Abort, IInv, TypeOK
<1>3. \A p \in Orders : ~(Expire(p) \/ ExpireOrder(p))
  BY DEF Expire, ExpireOrder, IInv, TypeOK
<1>4. reservation' # reservation
  OBVIOUS
<1>5. PICK s \in Sessions : InsertReservation(s)
  BY <1>1, <1>2, <1>3, <1>4 DEF Next, Advance, vars
<1>6. req[s].order = o
  BY <1>5 DEF InsertReservation
<1> QED
  BY <1>5, <1>6

\* The caps bind every reservation, whatever overlaps.
THEOREM CapsBindReservations == Spec => ReservedWithinCaps
<1>1. ASSUME IInv, [Next]_vars, NEW o \in Orders,
             reservation[o] # "live", reservation'[o] = "live"
      PROVE  Uses' <= GlobalMax /\ UsesBy(User[o])' <= UserMax
  <2>1. PICK s \in Sessions : InsertReservation(s) /\ req[s].order = o
    BY <1>1, ReservedBy
  <2>2. Uses < GlobalMax /\ UsesBy(User[o]) < UserMax
    BY <1>1, <2>1 DEF InsertReservation, IInv, CountStillRight, LeftFor
  <2>3. Reserved' \subseteq Reserved \cup {o} /\ Redeemed' \subseteq Redeemed
    BY <2>1 DEF InsertReservation, Reserved, Redeemed
  <2>4. /\ Uses' \in Nat /\ UsesBy(User[o])' \in Nat
        /\ Uses' <= Uses + 1 /\ UsesBy(User[o])' <= UsesBy(User[o]) + 1
    BY <2>3, OneMoreUse
  <2>5. Uses \in Nat /\ UsesBy(User[o]) \in Nat
    BY FiniteUses
  <2> QED
    BY <2>2, <2>4, <2>5, CouponAssumption
<1>2. IInv /\ [Next]_vars =>
        [\A o \in Orders : reservation[o] # "live" /\ reservation'[o] = "live"
           => Uses' <= GlobalMax /\ UsesBy(User[o])' <= UserMax]_vars
  BY <1>1
<1> QED
  BY <1>2, SpecIInv, PTL DEF Spec, ReservedWithinCaps

\* A voided redemption stays voided.
THEOREM VoidedStays == Spec => VoidedForGood
<1> USE DEF ledger
<1>1. ASSUME IInv, Next, NEW o \in Orders, redemption[o] = "voided"
      PROVE  redemption'[o] = "voided"
  BY <1>1 DEF Next, Advance, Apply, SaveAddress, Place, LockForReserve, Count,
       InsertReservation, Capture, LookForRedemption, LockForRedeem, CommitRedemption, RefuseSecondRedemption, Close,
       DropReservation, VoidRedemption, Expire, ExpireOrder, Abort, IInv, TypeOK
<1>2. IInv /\ [Next]_vars =>
        [\A o \in Orders : redemption[o] = "voided" => redemption'[o] = "voided"]_vars
  BY <1>1 DEF vars
<1> QED
  BY <1>2, SpecIInv, PTL DEF Spec, VoidedForGood

\* An element moves from one finite set to another: the sum of their sizes stays.
LEMMA MoveOne ==
  ASSUME NEW R, NEW D, IsFiniteSet(R), IsFiniteSet(D), NEW x \in R, x \notin D
  PROVE  Cardinality(D \cup {x}) + Cardinality(R \ {x}) = Cardinality(D) + Cardinality(R)
<1>1. Cardinality(D \cup {x}) = Cardinality(D) + 1
  BY FS_AddElement
<1>2. Cardinality(R \ {x}) = Cardinality(R) - 1
  BY FS_RemoveElement
<1>3. Cardinality(R) \in Nat /\ Cardinality(D) \in Nat
  BY FS_CardinalityType
<1> QED
  BY <1>1, <1>2, <1>3

\* Only the commit of a redemption makes one active.
LEMMA RedeemedBy ==
  ASSUME IInv, Next, NEW o \in Orders, redemption[o] = "none", redemption'[o] = "active"
  PROVE  /\ redemption' = [redemption EXCEPT ![o] = "active"]
         /\ reservation' = [reservation EXCEPT ![o] = "none"]
<1> USE DEF ledger
<1>1. PICK s \in Sessions : CommitRedemption(s)
  BY DEF Next, Advance, Apply, SaveAddress, Place, LockForReserve, Count,
       InsertReservation, Capture, LookForRedemption, LockForRedeem, RefuseSecondRedemption,
       Close, DropReservation, VoidRedemption, Expire, ExpireOrder, Abort, IInv, TypeOK
<1>2. req[s].order \in Orders
  BY <1>1 DEF CommitRedemption, At, IInv, TypeOK, Requests
<1>3. req[s].order = o
  BY <1>1, <1>2 DEF CommitRedemption, IInv, TypeOK
<1> QED
  BY <1>1, <1>3 DEF CommitRedemption

\* RedeemingAddsNoUse: redeem_coupon_for_order deletes the reservation in the
\* transaction that inserts the redemption, so a use that was reserved is counted once
\* before and once after, for the coupon and for its customer.
THEOREM RedeemedOnce == Spec => RedeemingAddsNoUse
<1>1. ASSUME IInv, Next, NEW o \in Orders,
             redemption[o] = "none", redemption'[o] = "active", reservation[o] = "live"
      PROVE  Uses' = Uses /\ UsesBy(User[o])' = UsesBy(User[o])
  <2> DEFINE R == Reserved
             D == Redeemed
             W == Of(User[o])
  <2>1. R' = R \ {o} /\ D' = D \cup {o} /\ W' = W
    <3>1. /\ redemption' = [redemption EXCEPT ![o] = "active"]
          /\ reservation' = [reservation EXCEPT ![o] = "none"]
      BY <1>1, RedeemedBy
    <3>2. \A p \in Orders : /\ redemption'[p] = IF p = o THEN "active" ELSE redemption[p]
                            /\ reservation'[p] = IF p = o THEN "none" ELSE reservation[p]
      BY <1>1, <3>1 DEF IInv, TypeOK
    <3> QED
      BY <1>1, <3>2 DEF Reserved, Redeemed, Of
  <2>2. o \in R /\ o \notin D /\ o \in W
    BY <1>1 DEF Reserved, Redeemed, Of
  <2>3. IsFiniteSet(R) /\ IsFiniteSet(D) /\ IsFiniteSet(D \cap W) /\ IsFiniteSet(R \cap W)
    BY FiniteUses
  <2> HIDE DEF R, D, W
  <2>4. Cardinality(D') + Cardinality(R') = Cardinality(D) + Cardinality(R)
    BY <2>1, <2>2, <2>3, MoveOne
  <2>5. D' \cap W' = (D \cap W) \cup {o} /\ R' \cap W' = (R \cap W) \ {o}
    BY <2>1, <2>2
  <2>6. Cardinality(D' \cap W') + Cardinality(R' \cap W')
          = Cardinality(D \cap W) + Cardinality(R \cap W)
    BY <2>2, <2>3, <2>5, MoveOne
  <2> QED
    BY <2>4, <2>6 DEF Uses, UsesBy, R, D, W
<1>2. IInv /\ [Next]_vars =>
        [\A o \in Orders :
           redemption[o] = "none" /\ redemption'[o] = "active" /\ reservation[o] = "live"
             => Uses' = Uses /\ UsesBy(User[o])' = UsesBy(User[o])]_vars
  BY <1>1 DEF vars
<1> QED
  BY <1>2, SpecIInv, PTL DEF Spec, RedeemingAddsNoUse
=============================================================================
