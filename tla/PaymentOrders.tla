----------------------------- MODULE PaymentOrders -----------------------------
(***************************************************************************)
(* Payment orders and their fulfilment: src/src/services/payment.py, the   *)
(* row lock of src/src/repositories/__init__.py, the YooKassa webhook, the *)
(* "check payment" handlers and the cron poll.                             *)
(*                                                                         *)
(* A session is one database transaction (READ COMMITTED).  What it wrote  *)
(* is visible to the others only after Commit; Rollback discards it.  The  *)
(* SQLAlchemy identity map is modelled by `view': the status under which a *)
(* session first loaded an order is the status it keeps seeing, because    *)
(* the later SELECT ... FOR UPDATE does not refresh a loaded object.       *)
(***************************************************************************)
EXTENDS Naturals, FiniteSets

\* Definitions named ...Unlocked, ...AnySum, ...Forgotten and the like are
\* deliberate mistakes: the mutants that show each property can fail.

CONSTANTS
  Orders,       \* order ids, allocated in increasing order
  Users,        \* customers
  Owner,        \* Owner[o] : the customer of order o
  Purpose,      \* Purpose[o] : "DEPOSIT" or "SUBSCRIPTION"
  Mismatched,   \* orders for which the gateway reports another amount
  Webhooks,     \* sessions that serve webhook calls
  Checkers,     \* sessions that serve a customer's "check payment"
  Poller,       \* the session of scripts/poll_pending_payments.py (flock: one)
  PollLimit,    \* list_pending(limit)
  MaxFailures,  \* bound on crashes and failed commits
  NoOrder, NoSession

Sessions == Webhooks \cup Checkers \cup {Poller}
Purposes == {"DEPOSIT", "SUBSCRIPTION"}
Rows == Purposes \X Users

ASSUME PaymentAssumption ==
  /\ Orders \subseteq Nat
  /\ Owner \in [Orders -> Users]
  /\ Purpose \in [Orders -> Purposes]
  /\ Mismatched \subseteq Orders
  /\ NoSession \notin Sessions
  /\ NoOrder \notin Orders
  /\ Poller \notin Webhooks \cup Checkers
  /\ Webhooks \cap Checkers = {}
  /\ PollLimit \in Nat \ {0}
  /\ MaxFailures \in Nat

VARIABLES
  dbStatus,     \* committed payment_orders.status
  draft,        \* orders inserted by a request that has not committed yet
  credits,      \* committed transactions that carry the order's (#id) marker
  gateway,      \* the payment at YooKassa
  blocked,      \* orders whose plan or promo no longer validates
  orderLock,    \* holder of the FOR UPDATE lock of the order row
  rowLock,      \* holder of the row that fulfilment updates
  pc, cur, todo,\* per session: control point, order at hand, orders to poll
  view,         \* per session: order status in the identity map
  wrote,        \* per session: orders with an uncommitted fulfilment
  flagged,      \* per session: orders with an uncommitted SUCCEEDED
  failures

envVars  == <<draft, gateway, blocked>>
sessVars == <<pc, cur, todo, view, wrote, flagged>>
lockVars == <<orderLock, rowLock>>
dbVars   == <<dbStatus, credits>>
vars == <<dbVars, envVars, sessVars, lockVars, failures>>

PaymentStatus == {"PENDING", "SUCCEEDED", "CANCELED"}
PC == {"idle", "next", "lock", "ask", "fulfil", "write"}

\* The row a fulfilment updates: the customer's balance or the subscription.
Row(o) == <<Purpose[o], Owner[o]>>

TypeOK ==
  /\ dbStatus \in [Orders -> PaymentStatus \cup {"absent"}]
  /\ draft \in SUBSET Orders
  /\ credits \in [Orders -> Nat]
  /\ gateway \in [Orders -> {"none", "pending", "succeeded", "failed"}]
  /\ blocked \in SUBSET Orders
  /\ orderLock \in [Orders -> Sessions \cup {NoSession}]
  /\ rowLock \in [Rows -> Sessions \cup {NoSession}]
  /\ pc \in [Sessions -> PC]
  /\ cur \in [Sessions -> Orders \cup {NoOrder}]
  /\ todo \in [Sessions -> SUBSET Orders]
  /\ view \in [Sessions -> [Orders -> PaymentStatus \cup {"unread"}]]
  /\ wrote \in [Sessions -> SUBSET Orders]
  /\ flagged \in [Sessions -> SUBSET Orders]
  /\ failures \in 0 .. MaxFailures
  /\ \A s \in Sessions : pc[s] \notin {"idle", "next"} => cur[s] \in Orders

Init ==
  /\ dbStatus = [o \in Orders |-> "absent"]
  /\ draft = {}
  /\ credits = [o \in Orders |-> 0]
  /\ gateway = [o \in Orders |-> "none"]
  /\ blocked = {}
  /\ orderLock = [o \in Orders |-> NoSession]
  /\ rowLock = [r \in Rows |-> NoSession]
  /\ pc = [s \in Sessions |-> "idle"]
  /\ cur = [s \in Sessions |-> NoOrder]
  /\ todo = [s \in Sessions |-> {}]
  /\ view = [s \in Sessions |-> [o \in Orders |-> "unread"]]
  /\ wrote = [s \in Sessions |-> {}]
  /\ flagged = [s \in Sessions |-> {}]
  /\ failures = 0

-------------------------------------------------------------------------------
(* Creating an order                                                       *)

\* Serial ids: o is the next one to be allocated.
Allocatable(o) ==
  /\ gateway[o] = "none"
  /\ \A p \in Orders : p < o => gateway[p] # "none"

\* create_deposit / create_purchase: the row is inserted and flushed, the
\* payment exists at YooKassa, and the bot has already shown its link.
CreateOrder(o) ==
  /\ Allocatable(o)
  /\ Purpose[o] = "SUBSCRIPTION" => o \notin blocked
  /\ gateway' = [gateway EXCEPT ![o] = "pending"]
  /\ draft' = draft \cup {o}
  /\ UNCHANGED <<dbVars, blocked, sessVars, lockVars, failures>>

\* YooKassaError: the bot's handler swallows the ValueError, so CANCELED is
\* committed; the API turns it into an HTTPException and rolls back.
CreateOrderFails(o) ==
  /\ Allocatable(o)
  /\ Purpose[o] = "SUBSCRIPTION" => o \notin blocked
  /\ gateway' = [gateway EXCEPT ![o] = "failed"]
  /\ \/ dbStatus' = [dbStatus EXCEPT ![o] = "CANCELED"]
     \/ UNCHANGED dbStatus
  /\ UNCHANGED <<credits, draft, blocked, sessVars, lockVars, failures>>

\* get_session / DbSessionMiddleware commit after the handler returned.
CommitCreate(o) ==
  /\ o \in draft
  /\ draft' = draft \ {o}
  /\ dbStatus' = [dbStatus EXCEPT ![o] = "PENDING"]
  /\ UNCHANGED <<credits, gateway, blocked, sessVars, lockVars, failures>>

\* ... or roll back: a failed reply, a lost connection, a restart.
RollbackCreate(o) ==
  /\ o \in draft
  /\ failures < MaxFailures
  /\ failures' = failures + 1
  /\ draft' = draft \ {o}
  /\ UNCHANGED <<dbVars, gateway, blocked, sessVars, lockVars>>

\* The customer pays at YooKassa.
Pay(o) ==
  /\ gateway[o] = "pending"
  /\ gateway' = [gateway EXCEPT ![o] = "succeeded"]
  /\ UNCHANGED <<dbVars, draft, blocked, sessVars, lockVars, failures>>

\* An admin switches the plan or promo of a purchase off or on; other buyers
\* exhaust the promo.
ToggleSale(o) ==
  /\ Purpose[o] = "SUBSCRIPTION"
  /\ blocked' = IF o \in blocked THEN blocked \ {o} ELSE blocked \cup {o}
  /\ UNCHANGED <<dbVars, draft, gateway, sessVars, lockVars, failures>>

-------------------------------------------------------------------------------
(* Sessions that fulfil orders                                             *)

Unread == [o \in Orders |-> "unread"]

\* What a transaction leaves behind in its session when it ends.
EndSession(s) ==
  /\ pc' = [pc EXCEPT ![s] = "idle"]
  /\ cur' = [cur EXCEPT ![s] = NoOrder]
  /\ todo' = [todo EXCEPT ![s] = {}]
  /\ view' = [view EXCEPT ![s] = Unread]
  /\ wrote' = [wrote EXCEPT ![s] = {}]
  /\ flagged' = [flagged EXCEPT ![s] = {}]

ReleaseRows(s) ==
  /\ rowLock' = [r \in Rows |->
       IF rowLock[r] = s THEN NoSession ELSE rowLock[r]]
  /\ UNCHANGED orderLock

\* PostgreSQL releases every row lock when the transaction ends.
ReleaseLocks(s) ==
  /\ orderLock' = [o \in Orders |->
       IF orderLock[o] = s THEN NoSession ELSE orderLock[o]]
  /\ rowLock' = [r \in Rows |->
       IF rowLock[r] = s THEN NoSession ELSE rowLock[r]]

Begin(s, o, at, seen) ==
  /\ pc[s] = "idle"
  /\ pc' = [pc EXCEPT ![s] = at]
  /\ cur' = [cur EXCEPT ![s] = o]
  /\ view' = [view EXCEPT ![s] = seen]
  /\ UNCHANGED <<dbVars, envVars, lockVars, wrote, flagged, failures>>

\* yookassa_webhook: a payment.succeeded notification, delivered any number
\* of times (YooKassa repeats it) or never (it is not configured).
WebhookStart(s, o) ==
  /\ gateway[o] = "succeeded"
  /\ Begin(s, o, "lock", Unread)
  /\ UNCHANGED todo

\* check_order: an unlocked read puts the order into the identity map.  A
\* settled deposit is returned as it is, a settled purchase is re-examined
\* without taking the row lock.
CheckStart(s, o) ==
  /\ dbStatus[o] # "absent"
  /\ \/ /\ dbStatus[o] # "SUCCEEDED"
        /\ Begin(s, o, "lock", [Unread EXCEPT ![o] = dbStatus[o]])
     \/ /\ dbStatus[o] = "SUCCEEDED"
        /\ Purpose[o] = "SUBSCRIPTION"
        /\ Begin(s, o, "fulfil", [Unread EXCEPT ![o] = "SUCCEEDED"])
  /\ UNCHANGED todo

Pending == {o \in Orders : dbStatus[o] = "PENDING"}

ListPendingTooFew ==
  {o \in Pending : Cardinality({p \in Pending : p < o}) < PollLimit - 1}

\* list_pending(limit): the oldest PENDING orders, loaded without a lock.
ListPending ==
  {o \in Pending : Cardinality({p \in Pending : p < o}) < PollLimit}

\* poll_pending_orders
PollStart(s) ==
  /\ ListPending # {}
  /\ Begin(s, NoOrder, "next",
           [o \in Orders |-> IF o \in ListPending THEN "PENDING" ELSE "unread"])
  /\ todo' = [todo EXCEPT ![s] = ListPending]

\* The poll takes its orders in the order of their ids.
PollNext(s) ==
  /\ pc[s] = "next"
  /\ \E o \in todo[s] :
       /\ \A p \in todo[s] : o <= p
       /\ cur' = [cur EXCEPT ![s] = o]
       /\ todo' = [todo EXCEPT ![s] = todo[s] \ {o}]
  /\ pc' = [pc EXCEPT ![s] = "lock"]
  /\ UNCHANGED <<dbVars, envVars, lockVars, view, wrote, flagged, failures>>

\* The status a session sees once it has selected the order: the one in its
\* identity map if it loaded the order before, else the committed one.
SeenStatus(s, o) == IF view[s][o] = "unread" THEN dbStatus[o] ELSE view[s][o]

VisibleUnchecked(o) == TRUE

\* The SELECT finds only committed rows.
Visible(o) == dbStatus[o] # "absent"

RowIsFreeUnlocked(o) == TRUE

\* FOR UPDATE waits for the transaction that holds the row.
RowIsFree(o) == orderLock[o] = NoSession

\* get_by_external_id_for_update: waits for the row lock, then decides on the
\* status the session sees.
LockOrder(s) ==
  /\ pc[s] = "lock"
  /\ LET o == cur[s] IN
     /\ Visible(o)
     /\ RowIsFree(o)
     /\ orderLock' = [orderLock EXCEPT ![o] = s]
     /\ view' = [view EXCEPT ![s][o] = SeenStatus(s, o)]
     /\ pc' = [pc EXCEPT ![s] =
                 IF SeenStatus(s, o) = "SUCCEEDED" THEN "fulfil" ELSE "ask"]
  /\ UNCHANGED <<dbVars, envVars, rowLock, cur, todo, wrote, flagged, failures>>

\* The row is not committed (yet): the webhook answers 200 "not_found", so
\* YooKassa does not send it again.
OrderNotFound(s) ==
  /\ pc[s] = "lock"
  /\ ~ Visible(cur[s])
  /\ pc' = [pc EXCEPT ![s] = "next"]
  /\ UNCHANGED <<dbVars, envVars, lockVars, cur, todo, view, wrote, flagged, failures>>

ConfirmedAnySum(o) == gateway[o] = "succeeded"

\* get_payment: succeeded, and over the amount of the order.
Confirmed(o) == gateway[o] = "succeeded" /\ o \notin Mismatched

\* get_payment answers: not succeeded, or another amount, and the order is
\* left alone; the request itself may fail with the same result.
GatewayRefuses(s) ==
  /\ pc[s] = "ask"
  /\ pc' = [pc EXCEPT ![s] = "next"]
  /\ \/ ~ Confirmed(cur[s]) /\ UNCHANGED failures
     \/ failures < MaxFailures /\ failures' = failures + 1
  /\ UNCHANGED <<dbVars, envVars, lockVars, cur, todo, view, wrote, flagged>>

GatewayConfirms(s) ==
  /\ pc[s] = "ask"
  /\ Confirmed(cur[s])
  /\ pc' = [pc EXCEPT ![s] = "fulfil"]
  /\ UNCHANGED <<dbVars, envVars, lockVars, cur, todo, view, wrote, flagged, failures>>

MarkForgotten(s, o) == UNCHANGED flagged

\* order.status = SUCCEEDED, unless the session sees an order that had
\* succeeded before.
MarkSucceeded(s, o) ==
  IF view[s][o] = "SUCCEEDED" THEN UNCHANGED flagged
  ELSE flagged' = [flagged EXCEPT ![s] = @ \cup {o}]

HasOwnMarker(s, o) == o \in wrote[s]

\* _is_deposit_fulfilled / _is_subscription_fulfilled: a transaction with the
\* marker (#id), committed or written by this very session.
HasMarker(s, o) == credits[o] > 0 \/ o \in wrote[s]

AlreadyFulfilled(s) ==
  /\ pc[s] = "fulfil"
  /\ HasMarker(s, cur[s])
  /\ pc' = [pc EXCEPT ![s] = "next"]
  /\ MarkSucceeded(s, cur[s])
  /\ UNCHANGED <<dbVars, envVars, lockVars, cur, todo, view, wrote, failures>>

NotYetFulfilled(s) ==
  /\ pc[s] = "fulfil"
  /\ ~ HasMarker(s, cur[s])
  /\ pc' = [pc EXCEPT ![s] = "write"]
  /\ UNCHANGED <<dbVars, envVars, lockVars, cur, todo, view, wrote, flagged, failures>>

\* add_balance / extend_subscription insert the marked transaction and update
\* the customer's row, which another session may have locked.
Fulfil(s) ==
  /\ pc[s] = "write"
  /\ LET o == cur[s] IN
     /\ ~ (Purpose[o] = "SUBSCRIPTION" /\ o \in blocked)
     /\ rowLock[Row(o)] \in {NoSession, s}
     /\ rowLock' = [rowLock EXCEPT ![Row(o)] = s]
     /\ wrote' = [wrote EXCEPT ![s] = @ \cup {o}]
     /\ MarkSucceeded(s, o)
  /\ pc' = [pc EXCEPT ![s] = "next"]
  /\ UNCHANGED <<dbVars, envVars, orderLock, cur, todo, view, failures>>

\* extend_subscription raises ValueError (plan inactive, promo exhausted): a
\* paid purchase stays as it was.
FulfilRefused(s) ==
  /\ pc[s] = "write"
  /\ Purpose[cur[s]] = "SUBSCRIPTION"
  /\ cur[s] \in blocked
  /\ pc' = [pc EXCEPT ![s] = "next"]
  /\ UNCHANGED <<dbVars, envVars, lockVars, cur, todo, view, wrote, flagged, failures>>

\* The request or script is through and its session commits.
Commit(s) ==
  /\ pc[s] = "next"
  /\ todo[s] = {}
  /\ dbStatus' = [o \in Orders |-> IF o \in flagged[s] THEN "SUCCEEDED" ELSE dbStatus[o]]
  /\ credits' = [o \in Orders |-> IF o \in wrote[s] THEN credits[o] + 1 ELSE credits[o]]
  /\ ReleaseLocks(s)
  /\ EndSession(s)
  /\ UNCHANGED <<envVars, failures>>

\* A crash, a failing reply to the customer, or the poll's 90 s timeout.
Rollback(s) ==
  /\ pc[s] # "idle"
  /\ failures < MaxFailures
  /\ failures' = failures + 1
  /\ ReleaseLocks(s)
  /\ EndSession(s)
  /\ UNCHANGED <<dbVars, envVars>>

WaitsFor(s, t) ==
  \/ pc[s] = "lock" /\ orderLock[cur[s]] = t
  \/ pc[s] = "write" /\ rowLock[Row(cur[s])] = t

\* PostgreSQL aborts one transaction of a wait cycle.  The request fails; the
\* poll logs the error and goes on, but its COMMIT then only rolls back.
DeadlockAbort(s) ==
  /\ \E t \in Sessions \ {s} : WaitsFor(s, t) /\ WaitsFor(t, s)
  /\ ReleaseLocks(s)
  /\ EndSession(s)
  /\ UNCHANGED <<dbVars, envVars, failures>>

-------------------------------------------------------------------------------
Process(s) ==
  \/ PollNext(s)
  \/ OrderNotFound(s)
  \/ GatewayRefuses(s)
  \/ GatewayConfirms(s)
  \/ AlreadyFulfilled(s)
  \/ NotYetFulfilled(s)
  \/ FulfilRefused(s)
  \/ Commit(s)
  \/ DeadlockAbort(s)

Next ==
  \/ \E o \in Orders :
       \/ CreateOrder(o) \/ CreateOrderFails(o)
       \/ CommitCreate(o) \/ RollbackCreate(o)
       \/ Pay(o) \/ ToggleSale(o)
  \/ \E s \in Webhooks, o \in Orders : WebhookStart(s, o)
  \/ \E s \in Checkers, o \in Orders : CheckStart(s, o)
  \/ PollStart(Poller)
  \/ \E s \in Sessions : Process(s) \/ LockOrder(s) \/ Fulfil(s) \/ Rollback(s)

Spec == Init /\ [][Next]_vars

\* A started transaction runs on, and cron starts the poll every ten minutes.
\* Row locks are granted in the order of the requests, so a session that waits
\* is not overtaken for ever: strong fairness for the two lock steps.
Fairness ==
  /\ WF_vars(PollStart(Poller))
  /\ \A o \in Orders : WF_vars(CommitCreate(o))
  /\ \A s \in Sessions :
       /\ WF_vars(Process(s))
       /\ SF_vars(LockOrder(s))
       /\ SF_vars(Fulfil(s))

FairSpec == Spec /\ Fairness

-------------------------------------------------------------------------------
(* Properties                                                              *)

\* The lock and the marker together keep a webhook, a check and the poll that
\* work on one order from handing out its goods twice.
CreditedAtMostOnce == \A o \in Orders : credits[o] <= 1

\* Status and fulfilment are committed together: no order is recorded as
\* SUCCEEDED without its goods, none hands out goods and stays open.
SettledIffCredited ==
  \A o \in Orders : dbStatus[o] = "SUCCEEDED" <=> credits[o] > 0

\* Goods are handed out only for money the gateway reports in full.
CreditedOnlyIfPaid ==
  \A o \in Orders : credits[o] > 0 => gateway[o] = "succeeded" /\ o \notin Mismatched

\* The customer-facing promise, of which this module is an implementation.
Contract == INSTANCE PaymentPromise WITH
  status <- dbStatus,
  paid <- {o \in Orders : gateway[o] = "succeeded"}

KeepsPromise == Contract!Promise

Payable(o) ==
  /\ dbStatus[o] = "PENDING"
  /\ gateway[o] = "succeeded"
  /\ o \notin Mismatched

\* The poll alone, without a single webhook, credits every paid deposit.
PaidDepositsAreCredited ==
  \A o \in Orders : Purpose[o] = "DEPOSIT" => (Payable(o) ~> credits[o] = 1)

\* No transaction waits for ever: wait cycles between the poll, which keeps
\* the locks of all its orders, and the single-order sessions are broken.
EverySessionEnds == \A s \in Sessions : pc[s] # "idle" ~> pc[s] = "idle"

\* payment.py:208 calls the poll the safety net for missing webhooks: a paid
\* order that is visible ends up as SUCCEEDED.
PollIsSafetyNet == \A o \in Orders : Payable(o) ~> dbStatus[o] = "SUCCEEDED"
===============================================================================
