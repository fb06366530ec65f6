------------------------------ MODULE MCPages ------------------------------
(***************************************************************************)
(* The way of an order for TLC: Checkout, and Payments for the order it    *)
(* leaves with the provider.  They share no state, so each behaviour is    *)
(* one of one of them.                                                     *)
(***************************************************************************)
EXTENDS Checkout, FiniteSets

CONSTANTS
  Deliveries, Confirms, Nobody, MaxFaults

VARIABLES
  part,         \* the module whose behaviour this is
  method, money, status, captures, redeemed, record, handling, returnPage, waits,
  expiring, cancelled, overlapped, faults

Payment == INSTANCE Payments WITH req <- handling, page <- returnPage

ASSUME PaymentBounds == Payment!PaymentAssumption

paymentVars == <<method, money, status, captures, redeemed, record, handling, returnPage,
                 waits, expiring, cancelled, overlapped, faults>>
allVars == <<part, vars, paymentVars>>

In(p) == part = p /\ UNCHANGED part
OnlyCheckout == In("checkout") /\ UNCHANGED paymentVars
OnlyPayment  == In("payment") /\ UNCHANGED vars

MCInit ==
  /\ part \in {"checkout", "payment"}
  /\ Init /\ Payment!Init
  \* A part that is not looked at has one initial state.
  /\ part = "checkout" \/ co.method = "cod"
  /\ part = "payment" \/ method = "stripe"

MCNext ==
  \/ OnlyCheckout /\ Next
  \/ OnlyPayment /\ Payment!Next

\* The fairness of Checkout and of Payments.
MCFairness ==
  /\ \A i \in Calls : /\ WF_allVars(OnlyCheckout /\ CartCallEnds(i))
                      /\ WF_allVars(OnlyCheckout /\ AnswerHandled(i))
  /\ \A k \in Submits : WF_allVars(OnlyCheckout /\ TimeOut(k))
  /\ \A r \in Deliveries : /\ WF_allVars(OnlyPayment /\ Payment!Deliver(r))
                           /\ WF_allVars(OnlyPayment /\ Payment!Works(r))

MCSpec == MCInit /\ [][MCNext]_allVars /\ MCFairness

-----------------------------------------------------------------------------
\* The types of Payments.
PaymentTypeOK == Payment!TypeOK

\* The properties of Payments, where they are explained.
SuccessMeansRecorded == Payment!SuccessMeansRecorded
ProcessedMeansDone   == Payment!ProcessedMeansDone
RecordedOnce         == Payment!RecordedOnce
PaidIsRecorded       == Payment!PaidIsRecorded
=============================================================================
