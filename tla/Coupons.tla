------------------------------ MODULE Coupons ------------------------------
(***************************************************************************)
(* The uses of one coupon: services/coupons_v2.py and the handlers of      *)
(* api/v1/orders.py and services/webhook_handlers.py that call it.         *)
(*                                                                         *)
(* Checkout reserves a use for the order it has just committed, a captured *)
(* payment (for cash on delivery: the checkout itself) turns the           *)
(* reservation into a redemption, and a cancelled or refunded order gives  *)
(* its use back.  Each of these is a transaction of its own, after the one *)
(* that wrote the order, so requests overlap and stop between them.        *)
(* Reserving and redeeming lock the coupon row; releasing does not.        *)
(*                                                                         *)
(* The order is reduced to what these handlers read of it; how its status  *)
(* moves is the subject of OrderStock.  Every order here was placed with   *)
(* the coupon's code as its promo_code.  A definition introduced as a slip *)
(* is a plausible mistake in the one that follows it, not the model.       *)
(***************************************************************************)
EXTENDS Naturals, FiniteSets

CONSTANTS
  Orders,     \* orders placed with the coupon's code
  User,       \* User[o]: the customer of order o
  Cod,        \* the orders paid on delivery: redeemed by their checkout
  Sessions,   \* requests the API serves at the same time
  None,       \* no session: the coupon row is not locked
  GlobalMax,  \* global_max_redemptions
  UserMax     \* per_customer_max_redemptions

ASSUME CouponAssumption ==
  /\ Cod \subseteq Orders
  /\ None \notin Sessions
  /\ IsFiniteSet(Orders)
  /\ GlobalMax \in Nat /\ UserMax \in Nat

VARIABLES
  order,        \* "absent", "pending", "accepted" or "closed"
  reservation,  \* the order's reservation row: "none", "live" or "expired"
  redemption,   \* the order's redemption row: "none", "active" or "voided"
  couponLock,   \* the session holding the coupon row FOR UPDATE
  req           \* the request each session is serving

vars == <<order, reservation, redemption, couponLock, req>>
ledger == <<reservation, redemption>>

Idle == [pc |-> "idle"]
Steps == {"address", "place", "reserve", "count", "insert",
          "redeem", "lock", "commit", "unreserve", "void"}
Requests == [pc : Steps, order : Orders]

\* The request has the coupon row and has not committed or rolled back since.
Holding(s) == req[s] # Idle /\ req[s].pc \in {"count", "insert", "commit"}

TypeOK ==
  /\ order \in [Orders -> {"absent", "pending", "accepted", "closed"}]
  /\ reservation \in [Orders -> {"none", "live", "expired"}]
  /\ redemption \in [Orders -> {"none", "active", "voided"}]
  /\ req \in [Sessions -> Requests \cup {Idle}]
  /\ couponLock \in {None} \cup {s \in Sessions : Holding(s)}

Init ==
  /\ order = [o \in Orders |-> "absent"]
  /\ reservation = [o \in Orders |-> "none"]
  /\ redemption = [o \in Orders |-> "none"]
  /\ couponLock = None
  /\ req = [s \in Sessions |-> Idle]

-----------------------------------------------------------------------------
(* What counts as a use: a redemption that is not voided, a reservation     *)
(* that has not expired.                                                    *)

Reserved == {o \in Orders : reservation[o] = "live"}
Redeemed == {o \in Orders : redemption[o] = "active"}
Of(u)    == {o \in Orders : User[o] = u}

Uses      == Cardinality(Redeemed) + Cardinality(Reserved)
UsesBy(u) == Cardinality(Redeemed \cap Of(u)) + Cardinality(Reserved \cap Of(u))

\* Slip: one use too many.
LeftForInclusive(o) == Uses <= GlobalMax /\ UsesBy(User[o]) < UserMax

LeftFor(o) == Uses < GlobalMax /\ UsesBy(User[o]) < UserMax

-----------------------------------------------------------------------------
(* A request goes on to its next step, or ends.                             *)

At(s, pc)    == req[s] # Idle /\ req[s].pc = pc
Begin(s, pc, o) ==
  /\ req[s] = Idle
  /\ req' = [req EXCEPT ![s] = [pc |-> pc, order |-> o]]
GoOn(s, pc)  == req' = [req EXCEPT ![s].pc = pc]
Stop(s)      == req' = [req EXCEPT ![s] = Idle]

\* Slip: the coupon row is read, not locked.
ReadCoupon(s) == UNCHANGED couponLock

LockCoupon(s) ==
  /\ couponLock = None
  /\ couponLock' = s

Unlock(s) == couponLock' = IF couponLock = s THEN None ELSE couponLock

-----------------------------------------------------------------------------
(* Checkout.                                                                *)

\* evaluate_coupon_for_cart: the customer sees the coupon as eligible.  Nothing
\* is locked.
Apply(s, o) ==
  /\ order[o] = "absent"
  /\ \A t \in Sessions : req[t] # Idle => req[t].order # o
  /\ LeftFor(o)
  /\ Begin(s, "address", o)
  /\ UNCHANGED <<order, ledger, couponLock>>

\* create_address commits, and with the address the DELETE of expired
\* reservations that evaluate_coupon_for_cart issued.
SaveAddress(s) ==
  /\ At(s, "address")
  /\ reservation' = [o \in Orders |->
       IF reservation[o] = "expired" THEN "none" ELSE reservation[o]]
  /\ GoOn(s, "place")
  /\ UNCHANGED <<order, redemption, couponLock>>

\* build_order_from_cart commits the order with its discount.
Place(s) ==
  /\ At(s, "place")
  /\ order' = [order EXCEPT ![req[s].order] =
                 IF req[s].order \in Cod THEN "accepted" ELSE "pending"]
  /\ GoOn(s, "reserve")
  /\ UNCHANGED <<ledger, couponLock>>

\* reserve_coupon_for_order: "Lock coupon row to enforce strict caps."  Its
\* look for an earlier reservation of the same order finds none: a repeated
\* checkout returns the order the first one placed and reserves nothing.
LockForReserve(s) ==
  /\ At(s, "reserve")
  /\ LockCoupon(s)
  /\ GoOn(s, "count")
  /\ UNCHANGED <<order, ledger>>

\* Slip: a refusal leaves its transaction open.
CountKeepingLock(s) ==
  /\ At(s, "count")
  /\ IF LeftFor(req[s].order) THEN GoOn(s, "insert") ELSE Stop(s)
  /\ UNCHANGED <<order, ledger, couponLock>>

Count(s) ==
  /\ At(s, "count")
  /\ IF LeftFor(req[s].order)
     THEN GoOn(s, "insert") /\ UNCHANGED couponLock
     ELSE Stop(s) /\ Unlock(s)      \* 400; the order stays, discount and all
  /\ UNCHANGED <<order, ledger>>

\* The reservation is committed, together with the clean-up of expired ones.
InsertReservation(s) ==
  /\ At(s, "insert")
  /\ reservation' = [o \in Orders |->
       CASE o = req[s].order -> "live"
         [] o # req[s].order /\ reservation[o] = "expired" -> "none"
         [] OTHER -> reservation[o]]
  /\ Unlock(s)
  /\ IF req[s].order \in Cod THEN GoOn(s, "redeem") ELSE Stop(s)
  /\ UNCHANGED <<order, redemption>>

-----------------------------------------------------------------------------
(* Payment: the capture is committed with the order, then the coupon is     *)
(* redeemed.  The provider's webhooks repeat, and the customer's return to  *)
(* the shop does the same once more.  Which statuses each of them accepts   *)
(* differs; the return to the shop accepts all.                             *)

Capture(s, o) ==
  /\ o \notin Cod
  /\ order[o] # "absent"
  /\ order' = [order EXCEPT ![o] = IF @ = "pending" THEN "accepted" ELSE @]
  /\ Begin(s, "redeem", o)
  /\ UNCHANGED <<ledger, couponLock>>

\* redeem_coupon_for_order: the first look at the redemptions is unlocked.
LookForRedemption(s) ==
  /\ At(s, "redeem")
  /\ IF redemption[req[s].order] = "none" THEN GoOn(s, "lock") ELSE Stop(s)
  /\ UNCHANGED <<order, ledger, couponLock>>

LockForRedeem(s) ==
  /\ At(s, "lock")
  /\ LockCoupon(s)
  /\ GoOn(s, "commit")
  /\ UNCHANGED <<order, ledger>>

\* Slips: no unique constraint on the order of a redemption; the reservation
\* stays behind.
CommitAnyRedemption(s) ==
  /\ At(s, "commit")
  /\ redemption' = [redemption EXCEPT ![req[s].order] = "active"]
  /\ reservation' = [reservation EXCEPT ![req[s].order] = "none"]
  /\ Unlock(s)
  /\ Stop(s)
  /\ UNCHANGED order

CommitRedemptionAlone(s) ==
  /\ At(s, "commit")
  /\ redemption[req[s].order] = "none"
  /\ redemption' = [redemption EXCEPT ![req[s].order] = "active"]
  /\ Unlock(s)
  /\ Stop(s)
  /\ UNCHANGED <<order, reservation>>

\* The reservation becomes a redemption; without one (refused, released or
\* cleaned up) the redemption is inserted all the same.
CommitRedemption(s) ==
  /\ At(s, "commit")
  /\ redemption[req[s].order] = "none"
  /\ redemption' = [redemption EXCEPT ![req[s].order] = "active"]
  /\ reservation' = [reservation EXCEPT ![req[s].order] = "none"]
  /\ Unlock(s)
  /\ Stop(s)
  /\ UNCHANGED order

\* uq_coupon_redemptions_order: someone else inserted it since the first look.
RefuseSecondRedemption(s) ==
  /\ At(s, "commit")
  /\ redemption[req[s].order] # "none"
  /\ Unlock(s)
  /\ Stop(s)
  /\ UNCHANGED <<order, ledger>>

-----------------------------------------------------------------------------
(* The use is given back: release_coupon_for_order, after a cancellation, a *)
(* refund or a voided payment was committed.  Two of them that loaded the   *)
(* same open order both get here.                                           *)

Close(s, o) ==
  /\ order[o] # "absent"
  /\ order' = [order EXCEPT ![o] = "closed"]
  /\ Begin(s, "unreserve", o)
  /\ UNCHANGED <<ledger, couponLock>>

\* The reservation is deleted in one transaction.  A DELETE that finds the row
\* gone already is no error.
DropReservation(s) ==
  /\ At(s, "unreserve")
  /\ reservation' = [reservation EXCEPT ![req[s].order] = "none"]
  /\ GoOn(s, "void")
  /\ UNCHANGED <<order, redemption, couponLock>>

\* The redemption is voided in another.
VoidRedemption(s) ==
  /\ At(s, "void")
  /\ redemption' = [redemption EXCEPT ![req[s].order] =
                      IF @ = "active" THEN "voided" ELSE @]
  /\ Stop(s)
  /\ UNCHANGED <<order, reservation, couponLock>>

-----------------------------------------------------------------------------
(* Time and failures.                                                       *)

\* expires_at passes; the row stays until someone cleans up.
Expire(o) ==
  /\ reservation[o] = "live"
  /\ reservation' = [reservation EXCEPT ![o] = "expired"]
  /\ UNCHANGED <<order, redemption, couponLock, req>>

\* The order expiry scheduler cancels an unpaid order and leaves its coupon.
ExpireOrder(o) ==
  /\ order[o] = "pending"
  /\ order' = [order EXCEPT ![o] = "closed"]
  /\ UNCHANGED <<ledger, couponLock, req>>

\* A request is cut short; what it committed stays.
Abort(s) ==
  /\ req[s] # Idle
  /\ Unlock(s)
  /\ Stop(s)
  /\ UNCHANGED <<order, ledger>>

-----------------------------------------------------------------------------
Advance(s) ==
  \/ SaveAddress(s) \/ Place(s)
  \/ LockForReserve(s) \/ Count(s) \/ InsertReservation(s)
  \/ LookForRedemption(s) \/ LockForRedeem(s)
  \/ CommitRedemption(s) \/ RefuseSecondRedemption(s)
  \/ DropReservation(s) \/ VoidRedemption(s)

Next ==
  \/ \E s \in Sessions :
       \/ \E o \in Orders : Apply(s, o) \/ Capture(s, o) \/ Close(s, o)
       \/ Advance(s) \/ Abort(s)
  \/ \E o \in Orders : Expire(o) \/ ExpireOrder(o)

Spec == Init /\ [][Next]_vars

-----------------------------------------------------------------------------
(* Properties.                                                              *)

\* The caps bind every reservation: whatever overlaps, the commit that inserts
\* one leaves the uses of the coupon, and of its customer, within the caps.
ReservedWithinCaps ==
  [][\A o \in Orders : reservation[o] # "live" /\ reservation'[o] = "live"
       => Uses' <= GlobalMax /\ UsesBy(User[o])' <= UserMax]_vars

\* An order's redemption is inserted once: after it was voided, no late or
\* repeated payment notice makes it count again.
VoidedForGood ==
  [][\A o \in Orders : redemption[o] = "voided" => redemption'[o] = "voided"]_vars

\* Redeeming a use that is reserved does not make it count twice.
RedeemingAddsNoUse ==
  [][\A o \in Orders :
       redemption[o] = "none" /\ redemption'[o] = "active" /\ reservation[o] = "live"
         => Uses' = Uses /\ UsesBy(User[o])' = UsesBy(User[o])]_vars

\* Who holds the coupon row is between its lock and its commit, and alone: the
\* count a reservation is granted on is still right when it is inserted.
CountStillRight ==
  \A s \in Sessions : At(s, "insert") => LeftFor(req[s].order)

\* "Lock coupon row to enforce strict caps": the redemptions stay within them.
RedeemedWithinCaps ==
  /\ Cardinality(Redeemed) <= GlobalMax
  /\ \A o \in Orders : Cardinality(Redeemed \cap Of(User[o])) <= UserMax
=============================================================================
