---------------------------- MODULE PaymentPromise ----------------------------
(***************************************************************************)
(* What the payment service promises to a customer, whatever webhooks,     *)
(* polls, checks, crashes and deadlocks happen underneath: an order that   *)
(* becomes visible is open or void, the gateway reports its money once,    *)
(* and the order is settled and credited together, exactly once, and only  *)
(* after the gateway has taken the agreed sum.                             *)
(***************************************************************************)
EXTENDS Naturals

CONSTANTS
  Orders,       \* ids of payment orders
  Mismatched    \* orders whose captured sum differs from the order's amount

VARIABLES
  status,       \* status[o] : what the shop records for order o
  paid,         \* the orders the gateway reports as succeeded
  credits       \* credits[o] : how often o's goods were handed out

promiseVars == <<status, paid, credits>>

PromiseStatus == {"absent", "PENDING", "SUCCEEDED", "CANCELED"}

PromiseInit ==
  /\ status = [o \in Orders |-> "absent"]
  /\ paid = {}
  /\ credits = [o \in Orders |-> 0]

\* An order becomes visible, open for payment or void from the start.
Publish(o, st) ==
  /\ status[o] = "absent"
  /\ st \in {"PENDING", "CANCELED"}
  /\ status' = [status EXCEPT ![o] = st]
  /\ UNCHANGED <<paid, credits>>

\* The customer pays at the gateway.
TakeMoney(o) ==
  /\ o \notin paid
  /\ paid' = paid \cup {o}
  /\ UNCHANGED <<status, credits>>

\* Open orders whose agreed sum was taken are settled and credited, together.
SettleAll(S) ==
  /\ S # {}
  /\ S \subseteq paid \ Mismatched
  /\ \A o \in S : status[o] = "PENDING"
  /\ status' = [o \in Orders |-> IF o \in S THEN "SUCCEEDED" ELSE status[o]]
  /\ credits' = [o \in Orders |-> IF o \in S THEN credits[o] + 1 ELSE credits[o]]
  /\ UNCHANGED paid

PromiseNext ==
  \/ \E o \in Orders, st \in PromiseStatus : Publish(o, st)
  \/ \E o \in Orders : TakeMoney(o)
  \/ \E S \in SUBSET Orders : SettleAll(S)

Promise == PromiseInit /\ [][PromiseNext]_promiseVars
===============================================================================
