---------------------------- MODULE MCOrderStock ----------------------------
(***************************************************************************)
(* Instances of OrderStock for TLC.  Two orders compete for the stock: a   *)
(* card order and a COD order, or two COD orders where only the stock is   *)
(* in question.                                                            *)
(***************************************************************************)
EXTENDS OrderStock, TLC

CONSTANTS o1, o2

MCOrders  == {o1, o2}
CardAndCod == (o1 :> "stripe" @@ o2 :> "cod")
BothCod    == (o1 :> "cod" @@ o2 :> "cod")

OneSKU    == {1}
TwoSKUs   == {1, 2}
OneEach   == [o \in MCOrders |-> [k \in SKUs |-> 1]]
OneAndTwo == (o1 :> [k \in SKUs |-> 1] @@ o2 :> [k \in SKUs |-> 2])
StockOne  == [k \in SKUs |-> 1]
StockTwo  == [k \in SKUs |-> 2]
DownOne   == {-1}

Symmetry  == Permutations(Sessions)
=============================================================================
