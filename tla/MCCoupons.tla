----------------------------- MODULE MCCoupons -----------------------------
(***************************************************************************)
(* Instances of Coupons for TLC: three orders of two customers, one of     *)
(* them paid on delivery, compete for the last uses of a coupon.           *)
(***************************************************************************)
EXTENDS Coupons, TLC

CONSTANTS o1, o2, o3, ann, bob

MCOrders == {o1, o2, o3}
MCUser   == (o1 :> ann @@ o2 :> ann @@ o3 :> bob)
OneCod   == {o3}

Symmetry == Permutations(Sessions)
=============================================================================
