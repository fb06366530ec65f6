---------------------------- MODULE StockLedger ----------------------------
(***************************************************************************)
(* What the stock_committed and stock_restored events of services/order.py *)
(* promise, with no session, lock or status in sight: the stock of an      *)
(* order is taken once, never more of it than the order asks for, and once *)
(* it has been returned, all of it, it is never taken again.               *)
(***************************************************************************)
EXTENDS Naturals

CONSTANTS Orders, SKUs, Qty

VARIABLES
  phase,   \* "whole": not touched yet, "taken", or "returned"
  held     \* held[o][k]: units of k that order o holds

Init ==
  /\ phase = [o \in Orders |-> "whole"]
  /\ held = [o \in Orders |-> [k \in SKUs |-> 0]]

Take(o, lines) ==
  /\ phase[o] = "whole"
  /\ \A k \in SKUs : lines[k] <= Qty[o][k]
  /\ phase' = [phase EXCEPT ![o] = "taken"]
  /\ held' = [held EXCEPT ![o] = lines]

Return(o) ==
  /\ phase[o] = "taken"
  /\ phase' = [phase EXCEPT ![o] = "returned"]
  /\ held' = [held EXCEPT ![o] = [k \in SKUs |-> 0]]

Next ==
  \E o \in Orders :
    \/ Take(o, held'[o])
    \/ Return(o)

Spec == Init /\ [][Next]_<<phase, held>>
=============================================================================
