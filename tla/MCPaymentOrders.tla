---------------------------- MODULE MCPaymentOrders ----------------------------
(* Instances of PaymentOrders for TLC. *)
EXTENDS PaymentOrders, TLC

CONSTANTS w1, c1, poller, u1

MCOwner == [o \in Orders |-> u1]

\* Two deposits of one customer: poll and webhook can wait for each other.
TwoDeposits == [o \in Orders |-> "DEPOSIT"]

\* The first order is a purchase, the others are deposits.
PurchaseFirst == [o \in Orders |-> IF o = 1 THEN "SUBSCRIPTION" ELSE "DEPOSIT"]

\* A state the customer can bring about: the first two orders have been placed.
PlacedInit ==
  /\ dbStatus = [o \in Orders |-> IF o <= 2 THEN "PENDING" ELSE "absent"]
  /\ gateway = [o \in Orders |-> IF o <= 2 THEN "pending" ELSE "none"]
  /\ credits = [o \in Orders |-> 0] /\ draft = {} /\ blocked = {} /\ failures = 0
  /\ orderLock = [o \in Orders |-> NoSession] /\ rowLock = [r \in Rows |-> NoSession]
  /\ pc = [s \in Sessions |-> "idle"] /\ cur = [s \in Sessions |-> NoOrder]
  /\ todo = [s \in Sessions |-> {}]
  /\ view = [s \in Sessions |-> [o \in Orders |-> "unread"]]
  /\ wrote = [s \in Sessions |-> {}] /\ flagged = [s \in Sessions |-> {}]

PlacedSpec == PlacedInit /\ [][Next]_vars /\ Fairness
===============================================================================
