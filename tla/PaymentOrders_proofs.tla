------------------------- MODULE PaymentOrders_proofs -------------------------
(***************************************************************************)
(* The safety of order fulfilment for every set of orders, sessions and    *)
(* customers: type correctness, at-most-once crediting, the agreement of   *)
(* status and credit, and the implementation of PaymentPromise.            *)
(***************************************************************************)
EXTENDS PaymentOrders, TLAPS

\* The session has loaded its order as not yet succeeded and is between the
\* row lock and the end of the order's processing.
Working(s) == pc[s] \in {"ask", "fulfil", "write"} /\ view[s][cur[s]] # "SUCCEEDED"

\* A session works on an order, or holds writes for one, only under its lock.
LockDiscipline ==
  \A s \in Sessions :
    /\ Working(s) => orderLock[cur[s]] = s
    /\ \A o \in wrote[s] \cup flagged[s] : orderLock[o] = s

\* A session writes a fulfilment only where none is committed, and marks
\* succeeded only what has one.
WritesAreFresh ==
  \A s \in Sessions :
    /\ wrote[s] \subseteq flagged[s]
    /\ \A o \in wrote[s] : credits[o] = 0
    /\ \A o \in flagged[s] \ wrote[s] : credits[o] = 1
    /\ pc[s] = "write" => credits[cur[s]] = 0 /\ cur[s] \notin wrote[s]

\* What a session takes for granted after it asked the gateway stays true.
GatewayAsked ==
  \A s \in Sessions :
    /\ pc[s] \in {"fulfil", "write"} =>
         gateway[cur[s]] = "succeeded" /\ cur[s] \notin Mismatched
    /\ \A o \in wrote[s] : gateway[o] = "succeeded" /\ o \notin Mismatched

\* An order some session selected is a committed one; a status of SUCCEEDED
\* in an identity map is never wrong, and leads to no write.
ViewsAreSound ==
  \A s \in Sessions :
    /\ \A o \in Orders : view[s][o] = "SUCCEEDED" => dbStatus[o] = "SUCCEEDED"
    /\ pc[s] \in {"ask", "fulfil", "write"} => dbStatus[cur[s]] # "absent"
    /\ pc[s] = "write" => view[s][cur[s]] # "SUCCEEDED"
    /\ \A o \in wrote[s] : dbStatus[o] # "absent"

\* The committed state of an order.
OrderState ==
  \A o \in Orders :
    /\ dbStatus[o] = "SUCCEEDED" => credits[o] = 1
    /\ dbStatus[o] # "SUCCEEDED" => credits[o] = 0
    /\ dbStatus[o] = "CANCELED" => gateway[o] = "failed"
    /\ dbStatus[o] = "SUCCEEDED" => gateway[o] = "succeeded" /\ o \notin Mismatched
    /\ o \in draft => dbStatus[o] = "absent" /\ gateway[o] \in {"pending", "succeeded"}
    /\ gateway[o] = "none" => dbStatus[o] = "absent"

Safe == LockDiscipline /\ WritesAreFresh /\ GatewayAsked /\ ViewsAreSound /\ OrderState
IInv == TypeOK /\ Safe

-------------------------------------------------------------------------------
LEMMA TypeInit == Init => TypeOK
  BY PaymentAssumption DEF PaymentAssumption, Init, TypeOK, PC, PaymentStatus, Rows, Sessions

LEMMA TypeEnv ==
  ASSUME TypeOK, NEW o \in Orders,
         \/ CreateOrder(o) \/ CreateOrderFails(o) \/ CommitCreate(o)
         \/ RollbackCreate(o) \/ Pay(o) \/ ToggleSale(o)
  PROVE  TypeOK'
  <1> USE PaymentAssumption DEF PaymentAssumption, TypeOK, dbVars, envVars, sessVars, lockVars, PaymentStatus
  <1>1. CASE CreateOrder(o)
    BY <1>1 DEF CreateOrder
  <1>2. CASE CreateOrderFails(o)
    BY <1>2 DEF CreateOrderFails
  <1>3. CASE CommitCreate(o)
    BY <1>3 DEF CommitCreate
  <1>4. CASE RollbackCreate(o)
    BY <1>4 DEF RollbackCreate
  <1>5. CASE Pay(o)
    BY <1>5 DEF Pay
  <1>6. CASE ToggleSale(o)
    BY <1>6 DEF ToggleSale
  <1>7. QED
    BY <1>1, <1>2, <1>3, <1>4, <1>5, <1>6

\* What check_order puts into the identity map before it takes the lock.
LEMMA CheckBegins ==
  ASSUME TypeOK, NEW s \in Sessions, NEW o \in Orders, CheckStart(s, o)
  PROVE  \E at \in {"lock", "fulfil"}, seen \in [Orders -> PaymentStatus \cup {"unread"}] :
           /\ Begin(s, o, at, seen) /\ UNCHANGED todo
           /\ seen[o] = dbStatus[o]
           /\ \A p \in Orders \ {o} : seen[p] = "unread"
           /\ at = "fulfil" => dbStatus[o] = "SUCCEEDED"
  <1> DEFINE sn == [Unread EXCEPT ![o] = dbStatus[o]]
  <1>1. dbStatus[o] \in PaymentStatus
    BY DEF TypeOK, CheckStart, PaymentStatus
  <1>2. /\ sn \in [Orders -> PaymentStatus \cup {"unread"}]
        /\ sn[o] = dbStatus[o]
        /\ \A p \in Orders \ {o} : sn[p] = "unread"
    BY <1>1 DEF Unread
  <1>3. CASE dbStatus[o] # "SUCCEEDED"
    <2>1. Begin(s, o, "lock", sn) /\ UNCHANGED todo
      BY <1>3 DEF CheckStart
    <2> HIDE DEF sn
    <2>2. QED
      BY <1>2, <2>1
  <1>4. CASE dbStatus[o] = "SUCCEEDED"
    <2>1. Begin(s, o, "fulfil", sn) /\ UNCHANGED todo
      BY <1>4 DEF CheckStart
    <2> HIDE DEF sn
    <2>2. QED
      BY <1>2, <1>4, <2>1
  <1>5. QED
    BY <1>3, <1>4

LEMMA TypeStart ==
  ASSUME TypeOK, NEW s \in Sessions, NEW o \in Orders,
         WebhookStart(s, o) \/ CheckStart(s, o) \/ PollStart(s)
  PROVE  TypeOK'
  <1> USE PaymentAssumption DEF PaymentAssumption, TypeOK, dbVars, envVars, lockVars, PaymentStatus, PC, Begin
  <1>1. CASE WebhookStart(s, o)
    BY <1>1 DEF WebhookStart, Unread
  <1>2. CASE CheckStart(s, o)
    <2>1. PICK at \in {"lock", "fulfil"}, seen \in [Orders -> PaymentStatus \cup {"unread"}] :
            Begin(s, o, at, seen) /\ UNCHANGED todo
      BY <1>2, CheckBegins
    <2>2. QED
      BY <2>1
  <1>3. CASE PollStart(s)
    BY <1>3 DEF PollStart, ListPending, Pending
  <1>4. QED
    BY <1>1, <1>2, <1>3

LEMMA TypeEnd ==
  ASSUME TypeOK, NEW s \in Sessions,
         Commit(s) \/ Rollback(s) \/ DeadlockAbort(s)
  PROVE  TypeOK'
  <1>1. pc' \in [Sessions -> PC] /\ todo' \in [Sessions -> SUBSET Orders]
        /\ cur' \in [Sessions -> Orders \cup {NoOrder}]
        /\ view' \in [Sessions -> [Orders -> PaymentStatus \cup {"unread"}]]
        /\ wrote' \in [Sessions -> SUBSET Orders] /\ flagged' \in [Sessions -> SUBSET Orders]
        /\ \A t \in Sessions : pc'[t] \notin {"idle", "next"} => cur'[t] \in Orders
    <2>1. EndSession(s)
      BY DEF Commit, Rollback, DeadlockAbort
    <2>2. Unread \in [Orders -> PaymentStatus \cup {"unread"}]
      BY DEF Unread
    <2>3. QED
      BY <2>1, <2>2 DEF TypeOK, EndSession, PC
  <1>2. orderLock' \in [Orders -> Sessions \cup {NoSession}]
        /\ rowLock' \in [Rows -> Sessions \cup {NoSession}]
    BY DEF TypeOK, Commit, Rollback, DeadlockAbort, ReleaseLocks
  <1>3. dbStatus' \in [Orders -> PaymentStatus \cup {"absent"}]
        /\ credits' \in [Orders -> Nat] /\ failures' \in 0 .. MaxFailures
    BY PaymentAssumption
    DEF PaymentAssumption, TypeOK, Commit, Rollback, DeadlockAbort, PaymentStatus, dbVars
  <1>4. QED
    BY <1>1, <1>2, <1>3 DEF TypeOK, Commit, Rollback, DeadlockAbort, envVars

LEMMA MarkType ==
  ASSUME TypeOK, NEW s \in Sessions, NEW o \in Orders, MarkSucceeded(s, o)
  PROVE  flagged' \in [Sessions -> SUBSET Orders]
  BY SMTT(20) DEF TypeOK, MarkSucceeded

LEMMA TypeProcess ==
  ASSUME TypeOK, NEW s \in Sessions, Process(s) \/ LockOrder(s) \/ Fulfil(s)
  PROVE  TypeOK'
  <1> USE PaymentAssumption DEF PaymentAssumption, TypeOK, dbVars, envVars, lockVars, PC
  <1>1. CASE PollNext(s)
    BY <1>1 DEF PollNext
  <1>2. CASE LockOrder(s)
    <2> USE <1>2 DEF LockOrder
    <2>1. SeenStatus(s, cur[s]) \in PaymentStatus \cup {"unread"}
      <3>1. cur[s] \in Orders /\ dbStatus[cur[s]] \in PaymentStatus
        BY DEF PaymentStatus, Visible
      <3>2. view[s] \in [Orders -> PaymentStatus \cup {"unread"}]
        OBVIOUS
      <3>3. QED
        BY <3>1, <3>2 DEF SeenStatus
    <2>2. view' \in [Sessions -> [Orders -> PaymentStatus \cup {"unread"}]]
      BY <2>1
    <2>3. orderLock' \in [Orders -> Sessions \cup {NoSession}] /\ pc' \in [Sessions -> PC]
      OBVIOUS
    <2>4. \A t \in Sessions : pc'[t] \notin {"idle", "next"} => cur'[t] \in Orders
      OBVIOUS
    <2>5. QED
      BY <2>2, <2>3, <2>4
  <1>3. CASE OrderNotFound(s)
    BY <1>3 DEF OrderNotFound
  <1>4. CASE GatewayRefuses(s)
    BY <1>4 DEF GatewayRefuses
  <1>5. CASE GatewayConfirms(s)
    BY <1>5 DEF GatewayConfirms
  <1>6. CASE AlreadyFulfilled(s)
    BY <1>6, MarkType DEF AlreadyFulfilled
  <1>7. CASE NotYetFulfilled(s)
    BY <1>7 DEF NotYetFulfilled
  <1>8. CASE Fulfil(s)
    <2> USE <1>8 DEF Fulfil
    <2>1. rowLock' \in [Rows -> Sessions \cup {NoSession}]
      OBVIOUS
    <2>2. wrote' \in [Sessions -> SUBSET Orders] /\ pc' \in [Sessions -> PC]
      OBVIOUS
    <2>3. flagged' \in [Sessions -> SUBSET Orders]
      BY MarkType
    <2>4. \A t \in Sessions : pc'[t] \notin {"idle", "next"} => cur'[t] \in Orders
      OBVIOUS
    <2>5. QED
      BY <2>1, <2>2, <2>3, <2>4
  <1>9. CASE FulfilRefused(s)
    BY <1>9 DEF FulfilRefused
  <1>10. CASE Commit(s) \/ DeadlockAbort(s)
    BY <1>10, TypeEnd
  <1>11. QED
    BY <1>1, <1>2, <1>3, <1>4, <1>5, <1>6, <1>7, <1>8, <1>9, <1>10 DEF Process

\* Every variable keeps its type: a step never leaves the status machine, the
\* lock tables or the control points.
THEOREM TypeCorrect == Spec => []TypeOK
  <1>1. TypeOK /\ [Next]_vars => TypeOK'
    <2> SUFFICES ASSUME TypeOK, [Next]_vars PROVE TypeOK'
      OBVIOUS
    <2>1. CASE UNCHANGED vars
      BY <2>1 DEF TypeOK, vars, dbVars, envVars, sessVars, lockVars
    <2>2. ASSUME NEW o \in Orders,
                 \/ CreateOrder(o) \/ CreateOrderFails(o) \/ CommitCreate(o)
                 \/ RollbackCreate(o) \/ Pay(o) \/ ToggleSale(o)
          PROVE  TypeOK'
      BY <2>2, TypeEnv
    <2>3. ASSUME NEW s \in Sessions, NEW o \in Orders,
                 WebhookStart(s, o) \/ CheckStart(s, o)
          PROVE  TypeOK'
      BY <2>3, TypeStart
    <2>4. CASE PollStart(Poller)
      <3>1. PICK o \in Orders : TRUE
        BY <2>4 DEF PollStart, ListPending, Pending
      <3>2. QED
        BY <2>4, <3>1, TypeStart DEF Sessions
    <2>5. ASSUME NEW s \in Sessions, Process(s) \/ LockOrder(s) \/ Fulfil(s)
          PROVE  TypeOK'
      BY <2>5, TypeProcess
    <2>6. ASSUME NEW s \in Sessions, Rollback(s) PROVE TypeOK'
      BY <2>6, TypeEnd
    <2>7. QED
      BY <2>1, <2>2, <2>3, <2>4, <2>5, <2>6 DEF Next, Sessions
  <1>2. QED
    BY TypeInit, <1>1, PTL DEF Spec

-------------------------------------------------------------------------------
LEMMA SafeInit == Init => Safe
  BY PaymentAssumption
  DEF PaymentAssumption, Init, Safe, LockDiscipline, WritesAreFresh, GatewayAsked,
      ViewsAreSound, OrderState, Working

\* Creating, paying for and withdrawing orders does not touch what sessions
\* rely on: they hold only orders that are committed.
LEMMA SafeEnv ==
  ASSUME IInv, NEW o \in Orders,
         \/ CreateOrder(o) \/ CreateOrderFails(o) \/ CommitCreate(o)
         \/ RollbackCreate(o) \/ Pay(o) \/ ToggleSale(o)
  PROVE  Safe'
  <1> USE PaymentAssumption
      DEF PaymentAssumption, IInv, TypeOK, Safe, LockDiscipline, WritesAreFresh,
          GatewayAsked, ViewsAreSound, OrderState, Working, Allocatable,
          dbVars, envVars, sessVars, lockVars
  <1>1. CASE CreateOrder(o)
    BY <1>1 DEF CreateOrder
  <1>2. CASE CreateOrderFails(o)
    <2>1. gateway[o] = "none" /\ dbStatus[o] = "absent" /\ credits[o] = 0
      BY <1>2 DEF CreateOrderFails
    <2>2. CASE dbStatus' = [dbStatus EXCEPT ![o] = "CANCELED"]
      BY <1>2, <2>1, <2>2 DEF CreateOrderFails
    <2>3. CASE UNCHANGED dbStatus
      BY <1>2, <2>1, <2>3 DEF CreateOrderFails
    <2>4. QED
      BY <1>2, <2>2, <2>3 DEF CreateOrderFails
  <1>3. CASE CommitCreate(o)
    BY <1>3 DEF CommitCreate
  <1>4. CASE RollbackCreate(o)
    BY <1>4 DEF RollbackCreate
  <1>5. CASE Pay(o)
    BY <1>5 DEF Pay
  <1>6. CASE ToggleSale(o)
    BY <1>6 DEF ToggleSale
  <1>7. QED
    BY <1>1, <1>2, <1>3, <1>4, <1>5, <1>6

LEMMA SafeStart ==
  ASSUME IInv, NEW s \in Sessions, NEW o \in Orders,
         WebhookStart(s, o) \/ CheckStart(s, o) \/ PollStart(s)
  PROVE  Safe'
  <1> USE PaymentAssumption
      DEF PaymentAssumption, IInv, TypeOK, Safe, LockDiscipline, WritesAreFresh,
          GatewayAsked, ViewsAreSound, OrderState, Working,
          dbVars, envVars, lockVars, Begin, PaymentStatus
  <1>1. CASE WebhookStart(s, o)
    BY <1>1 DEF WebhookStart, Unread
  <1>2. CASE CheckStart(s, o)
    <2>1. PICK at \in {"lock", "fulfil"}, seen \in [Orders -> PaymentStatus \cup {"unread"}] :
            /\ Begin(s, o, at, seen)
            /\ seen[o] = dbStatus[o]
            /\ \A p \in Orders \ {o} : seen[p] = "unread"
            /\ at = "fulfil" => dbStatus[o] = "SUCCEEDED"
      BY <1>2, CheckBegins DEF IInv
    <2>2. LockDiscipline' /\ WritesAreFresh'
      BY <2>1
    <2>3. GatewayAsked' /\ ViewsAreSound'
      BY <2>1, SMTT(20)
    <2>4. OrderState'
      BY <2>1
    <2>5. QED
      BY <2>2, <2>3, <2>4
  <1>3. CASE PollStart(s)
    BY <1>3 DEF PollStart
  <1>4. QED
    BY <1>1, <1>2, <1>3

\* No marker means that nothing is committed, hence that the order has not
\* succeeded, whatever the identity map says.
LEMMA NothingTwice ==
  ASSUME IInv, NEW s \in Sessions, NotYetFulfilled(s)
  PROVE  /\ cur[s] \in Orders /\ credits[cur[s]] = 0
         /\ cur[s] \notin wrote[s] /\ view[s][cur[s]] # "SUCCEEDED"
  <1>1. cur[s] \in Orders /\ credits[cur[s]] \in Nat
    BY DEF IInv, TypeOK, NotYetFulfilled
  <1>2. credits[cur[s]] = 0 /\ cur[s] \notin wrote[s]
    BY <1>1 DEF NotYetFulfilled, HasMarker
  <1>3. dbStatus[cur[s]] # "SUCCEEDED"
    BY <1>1, <1>2 DEF IInv, Safe, OrderState
  <1>4. QED
    BY <1>1, <1>2, <1>3 DEF IInv, Safe, ViewsAreSound

LEMMA SafeToWrite ==
  ASSUME IInv, NEW s \in Sessions, NotYetFulfilled(s)
  PROVE  Safe'
  <1>1. /\ cur[s] \in Orders /\ credits[cur[s]] = 0
        /\ cur[s] \notin wrote[s] /\ view[s][cur[s]] # "SUCCEEDED"
    BY NothingTwice
  <1>2. /\ pc[s] = "fulfil" /\ pc' = [pc EXCEPT ![s] = "write"]
        /\ UNCHANGED <<dbStatus, credits, draft, gateway, orderLock, cur, view, wrote, flagged>>
    BY DEF NotYetFulfilled, dbVars, envVars, lockVars
  <1>3. pc \in [Sessions -> PC]
    BY DEF IInv, TypeOK
  <1>4. LockDiscipline'
    BY <1>1, <1>2, <1>3 DEF IInv, Safe, LockDiscipline, Working
  <1>5. WritesAreFresh'
    BY <1>1, <1>2, <1>3 DEF IInv, Safe, WritesAreFresh
  <1>6. GatewayAsked'
    BY <1>1, <1>2, <1>3 DEF IInv, Safe, GatewayAsked
  <1>7. ViewsAreSound'
    BY <1>1, <1>2, <1>3 DEF IInv, Safe, ViewsAreSound
  <1>8. OrderState'
    BY <1>2 DEF IInv, Safe, OrderState
  <1>9. QED
    BY <1>4, <1>5, <1>6, <1>7, <1>8 DEF Safe

\* Steps that only move a session on.
LEMMA SafeMove ==
  ASSUME IInv, NEW s \in Sessions,
         \/ PollNext(s) \/ OrderNotFound(s) \/ GatewayRefuses(s)
         \/ GatewayConfirms(s) \/ NotYetFulfilled(s) \/ FulfilRefused(s)
  PROVE  Safe'
  <1> USE PaymentAssumption
      DEF PaymentAssumption, IInv, TypeOK, Safe, LockDiscipline, WritesAreFresh,
          GatewayAsked, ViewsAreSound, OrderState, Working,
          dbVars, envVars, lockVars, HasMarker
  <1>1. CASE PollNext(s)
    BY <1>1 DEF PollNext
  <1>2. CASE OrderNotFound(s)
    BY <1>2 DEF OrderNotFound
  <1>3. CASE GatewayRefuses(s)
    BY <1>3 DEF GatewayRefuses
  <1>4. CASE GatewayConfirms(s)
    BY <1>4 DEF GatewayConfirms, Confirmed
  <1>5. CASE NotYetFulfilled(s)
    BY <1>5, SafeToWrite
  <1>6. CASE FulfilRefused(s)
    BY <1>6 DEF FulfilRefused
  <1>7. QED
    BY <1>1, <1>2, <1>3, <1>4, <1>5, <1>6

\* Taking the row lock: no other session can be working on the order.
LEMMA SafeLock ==
  ASSUME IInv, NEW s \in Sessions, LockOrder(s)
  PROVE  Safe'
  <1> DEFINE o == cur[s]
  <1>1. /\ pc[s] = "lock" /\ o \in Orders /\ dbStatus[o] # "absent"
        /\ orderLock[o] = NoSession
        /\ orderLock' = [orderLock EXCEPT ![o] = s]
        /\ view' = [view EXCEPT ![s][o] = SeenStatus(s, o)]
        /\ pc' = [pc EXCEPT ![s] =
                    IF SeenStatus(s, o) = "SUCCEEDED" THEN "fulfil" ELSE "ask"]
        /\ UNCHANGED <<dbStatus, credits, draft, gateway, cur, wrote, flagged>>
    BY DEF LockOrder, Visible, RowIsFree, dbVars, envVars, IInv, TypeOK
  <1>2. /\ pc \in [Sessions -> PC] /\ NoSession \notin Sessions
        /\ orderLock \in [Orders -> Sessions \cup {NoSession}]
        /\ view \in [Sessions -> [Orders -> PaymentStatus \cup {"unread"}]]
        /\ wrote \in [Sessions -> SUBSET Orders] /\ flagged \in [Sessions -> SUBSET Orders]
        /\ \A t \in Sessions : pc[t] \notin {"idle", "next"} => cur[t] \in Orders
    BY PaymentAssumption DEF IInv, TypeOK, PaymentAssumption
  <1>3. SeenStatus(s, o) = "SUCCEEDED" => dbStatus[o] = "SUCCEEDED"
    BY <1>1 DEF SeenStatus, IInv, Safe, ViewsAreSound
  <1>4. /\ view'[s][o] = SeenStatus(s, o)
        /\ \A t \in Sessions, p \in Orders :
             t # s \/ p # o => view'[t][p] = view[t][p]
    BY <1>1, <1>2
  <1> HIDE DEF o
  <1>5. LockDiscipline'
    <2>1. ASSUME NEW t \in Sessions, NEW p \in wrote[t] \cup flagged[t]
          PROVE  orderLock'[p] = t
      <3>1. orderLock[p] = t /\ p \in Orders
        BY <1>2 DEF IInv, Safe, LockDiscipline
      <3>2. QED
        BY <1>1, <1>2, <3>1
    <2>2. ASSUME NEW t \in Sessions, t # s, Working(t)'
          PROVE  orderLock'[cur[t]] = t
      <3>1. pc[t] \in {"ask", "fulfil", "write"} /\ cur[t] \in Orders
        BY <1>1, <1>2, <2>2 DEF Working
      <3>2. Working(t)
        BY <1>1, <1>4, <2>2, <3>1 DEF Working
      <3>3. orderLock[cur[t]] = t
        BY <3>2 DEF IInv, Safe, LockDiscipline
      <3>4. QED
        BY <1>1, <1>2, <3>1, <3>3
    <2>3. orderLock'[cur[s]] = s
      BY <1>1, <1>2 DEF o
    <2>4. QED
      BY <1>1, <2>1, <2>2, <2>3 DEF LockDiscipline
  <1>6. WritesAreFresh'
    BY <1>1, <1>2 DEF IInv, Safe, WritesAreFresh
  <1>7. GatewayAsked'
    BY <1>1, <1>2, <1>3 DEF IInv, Safe, GatewayAsked, OrderState, o
  <1>8. ViewsAreSound'
    <2>1. ASSUME NEW t \in Sessions
          PROVE  /\ \A p \in Orders : view'[t][p] = "SUCCEEDED" => dbStatus'[p] = "SUCCEEDED"
                 /\ pc'[t] \in {"ask", "fulfil", "write"} => dbStatus'[cur'[t]] # "absent"
                 /\ pc'[t] = "write" => view'[t][cur'[t]] # "SUCCEEDED"
                 /\ \A p \in wrote'[t] : dbStatus'[p] # "absent"
      <3>1. \A p \in Orders : view'[t][p] = "SUCCEEDED" => dbStatus[p] = "SUCCEEDED"
        BY <1>1, <1>3, <1>4 DEF IInv, Safe, ViewsAreSound
      <3>2. pc'[t] \in {"ask", "fulfil", "write"} => dbStatus[cur[t]] # "absent"
        BY <1>1, <1>2 DEF IInv, Safe, ViewsAreSound, o
      <3>3. pc'[t] = "write" => t # s /\ pc[t] = "write" /\ cur[t] \in Orders
        BY <1>1, <1>2
      <3>4. pc'[t] = "write" => view'[t][cur[t]] # "SUCCEEDED"
        BY <1>4, <3>3 DEF IInv, Safe, ViewsAreSound
      <3>5. QED
        BY <1>1, <3>1, <3>2, <3>4 DEF IInv, Safe, ViewsAreSound
    <2>2. QED
      BY <2>1 DEF ViewsAreSound
  <1>9. OrderState'
    BY <1>1 DEF IInv, Safe, OrderState
  <1>10. QED
    BY <1>5, <1>6, <1>7, <1>8, <1>9 DEF Safe

\* Marking an order succeeded, with its fulfilment committed or in hand.
LEMMA SafeMark ==
  ASSUME IInv, NEW s \in Sessions, AlreadyFulfilled(s) \/ Fulfil(s)
  PROVE  Safe'
  <1> DEFINE o == cur[s]
  <1>1. /\ pc[s] \in {"fulfil", "write"} /\ o \in Orders
        /\ pc' = [pc EXCEPT ![s] = "next"]
        /\ UNCHANGED <<dbStatus, credits, draft, gateway, orderLock, cur, view>>
    BY DEF AlreadyFulfilled, Fulfil, dbVars, envVars, lockVars, IInv, TypeOK
  <1>2. /\ pc \in [Sessions -> PC] /\ credits \in [Orders -> Nat]
        /\ wrote \in [Sessions -> SUBSET Orders] /\ flagged \in [Sessions -> SUBSET Orders]
    BY DEF IInv, TypeOK
  <1>3. \/ flagged' = flagged /\ view[s][o] = "SUCCEEDED"
        \/ flagged' = [flagged EXCEPT ![s] = flagged[s] \cup {o}] /\ view[s][o] # "SUCCEEDED"
    BY DEF AlreadyFulfilled, Fulfil, MarkSucceeded
  <1>4. \/ pc[s] = "fulfil" /\ HasMarker(s, o) /\ wrote' = wrote
        \/ /\ pc[s] = "write"
           /\ wrote' = [wrote EXCEPT ![s] = wrote[s] \cup {o}]
    BY DEF AlreadyFulfilled, Fulfil
  <1>5. view[s][o] # "SUCCEEDED" => orderLock[o] = s
    BY <1>1 DEF IInv, Safe, LockDiscipline, Working
  <1>6. pc[s] = "write" => view[s][o] # "SUCCEEDED" /\ credits[o] = 0 /\ o \notin wrote[s]
    BY DEF IInv, Safe, ViewsAreSound, WritesAreFresh
  <1>7. gateway[o] = "succeeded" /\ o \notin Mismatched /\ dbStatus[o] # "absent"
    BY <1>1 DEF IInv, Safe, GatewayAsked, ViewsAreSound
  <1>8. HasMarker(s, o) => credits[o] = 1 \/ o \in wrote[s]
    BY <1>1, <1>2 DEF HasMarker, IInv, Safe, OrderState
  <1> HIDE DEF o
  <1>9. LockDiscipline'
    BY <1>1, <1>2, <1>3, <1>4, <1>5, <1>6 DEF IInv, Safe, LockDiscipline, Working
  <1>10. WritesAreFresh'
    BY <1>1, <1>2, <1>3, <1>4, <1>6, <1>8 DEF IInv, Safe, WritesAreFresh
  <1>11. GatewayAsked'
    BY <1>1, <1>2, <1>4, <1>7 DEF IInv, Safe, GatewayAsked
  <1>12. ViewsAreSound'
    BY <1>1, <1>2, <1>4, <1>7 DEF IInv, Safe, ViewsAreSound
  <1>13. OrderState'
    BY <1>1 DEF IInv, Safe, OrderState
  <1>14. QED
    BY <1>9, <1>10, <1>11, <1>12, <1>13 DEF Safe

\* What the end of a transaction leaves of the sessions and the order locks.
LEMMA Ended ==
  ASSUME IInv, NEW s \in Sessions, EndSession(s), ReleaseLocks(s)
  PROVE  /\ pc'[s] = "idle" /\ wrote'[s] = {} /\ flagged'[s] = {}
         /\ \A o \in Orders : view'[s][o] = "unread"
         /\ \A t \in Sessions \ {s} :
              /\ pc'[t] = pc[t] /\ cur'[t] = cur[t] /\ view'[t] = view[t]
              /\ wrote'[t] = wrote[t] /\ flagged'[t] = flagged[t]
         /\ \A o \in Orders : orderLock[o] # s => orderLock'[o] = orderLock[o]
  BY DEF EndSession, ReleaseLocks, IInv, TypeOK, Unread

\* Rolling back: the committed state stays, and nothing is left in hand.
LEMMA SafeAbort ==
  ASSUME IInv, NEW s \in Sessions, EndSession(s), ReleaseLocks(s),
         UNCHANGED <<dbStatus, credits, draft, gateway>>
  PROVE  Safe'
  <1>1. \A t \in Sessions : pc[t] \in {"ask", "fulfil", "write"} => cur[t] \in Orders
    BY DEF IInv, TypeOK
  <1>2. \A t \in Sessions : wrote[t] \subseteq Orders /\ flagged[t] \subseteq Orders
    BY DEF IInv, TypeOK
  <1>3. LockDiscipline'
    BY <1>1, <1>2, Ended DEF IInv, Safe, LockDiscipline, Working
  <1>4. WritesAreFresh'
    BY Ended DEF IInv, Safe, WritesAreFresh
  <1>5. GatewayAsked'
    BY Ended DEF IInv, Safe, GatewayAsked
  <1>6. ViewsAreSound'
    BY Ended DEF IInv, Safe, ViewsAreSound
  <1>7. OrderState'
    BY DEF IInv, Safe, OrderState
  <1>8. QED
    BY <1>3, <1>4, <1>5, <1>6, <1>7 DEF Safe

\* The orders a commit settles: exactly those it fulfilled change.
LEMMA Committed ==
  ASSUME IInv, NEW s \in Sessions, Commit(s)
  PROVE  /\ \A o \in wrote[s] :
              /\ o \in Orders /\ dbStatus[o] = "PENDING" /\ credits[o] = 0
              /\ dbStatus'[o] = "SUCCEEDED" /\ credits'[o] = 1
              /\ gateway[o] = "succeeded" /\ o \notin Mismatched /\ o \notin draft
              /\ orderLock[o] = s
         /\ \A o \in Orders \ wrote[s] :
              dbStatus'[o] = dbStatus[o] /\ credits'[o] = credits[o]
         /\ UNCHANGED <<draft, gateway>>
  <1>1. /\ dbStatus' = [o \in Orders |-> IF o \in flagged[s] THEN "SUCCEEDED" ELSE dbStatus[o]]
        /\ credits' = [o \in Orders |-> IF o \in wrote[s] THEN credits[o] + 1 ELSE credits[o]]
        /\ UNCHANGED <<draft, gateway>>
    BY DEF Commit, envVars
  <1>2. wrote[s] \subseteq flagged[s] /\ flagged[s] \subseteq Orders
    BY DEF IInv, TypeOK, Safe, WritesAreFresh
  <1>3. ASSUME NEW o \in wrote[s]
        PROVE  /\ dbStatus[o] = "PENDING" /\ credits[o] = 0
               /\ gateway[o] = "succeeded" /\ o \notin Mismatched /\ o \notin draft
               /\ orderLock[o] = s
    <2>1. /\ credits[o] = 0 /\ gateway[o] = "succeeded" /\ o \notin Mismatched
          /\ dbStatus[o] # "absent" /\ orderLock[o] = s /\ o \in Orders
      BY <1>2 DEF IInv, Safe, WritesAreFresh, GatewayAsked, ViewsAreSound, LockDiscipline
    <2>2. dbStatus[o] # "SUCCEEDED" /\ dbStatus[o] # "CANCELED" /\ o \notin draft
      BY <2>1 DEF IInv, Safe, OrderState
    <2>3. QED
      BY <2>1, <2>2 DEF IInv, TypeOK, PaymentStatus
  <1>4. ASSUME NEW o \in flagged[s] \ wrote[s] PROVE dbStatus[o] = "SUCCEEDED"
    BY <1>2 DEF IInv, Safe, WritesAreFresh, OrderState
  <1>5. QED
    BY <1>1, <1>2, <1>3, <1>4

LEMMA SafeCommit ==
  ASSUME IInv, NEW s \in Sessions, Commit(s)
  PROVE  Safe'
  <1>1. EndSession(s) /\ ReleaseLocks(s)
    BY DEF Commit
  <1>2. \A t \in Sessions : pc[t] \in {"ask", "fulfil", "write"} => cur[t] \in Orders
    BY DEF IInv, TypeOK
  <1>3. \A t \in Sessions : wrote[t] \subseteq Orders /\ flagged[t] \subseteq Orders
    BY DEF IInv, TypeOK
  <1>4. \A t \in Sessions \ {s} : wrote[t] \cap wrote[s] = {} /\ flagged[t] \cap wrote[s] = {}
    BY Committed, <1>3 DEF IInv, Safe, LockDiscipline
  <1>5. \A t \in Sessions \ {s} : pc[t] = "write" => cur[t] \notin wrote[s]
    BY Committed DEF IInv, Safe, LockDiscipline, Working, ViewsAreSound
  <1>6. LockDiscipline'
    BY <1>1, <1>2, <1>3, Ended DEF IInv, Safe, LockDiscipline, Working
  <1>7. WritesAreFresh'
    BY <1>1, <1>2, <1>3, <1>4, <1>5, Ended, Committed DEF IInv, Safe, WritesAreFresh
  <1>8. GatewayAsked'
    BY <1>1, Ended, Committed DEF IInv, Safe, GatewayAsked
  <1>9. ViewsAreSound'
    BY <1>1, <1>2, <1>3, Ended, Committed DEF IInv, Safe, ViewsAreSound
  <1>10. OrderState'
    BY Committed DEF IInv, Safe, OrderState
  <1>11. QED
    BY <1>6, <1>7, <1>8, <1>9, <1>10 DEF Safe

\* The inductive invariant: who holds which lock with which writes in hand.
THEOREM Invariance == Spec => []IInv
  <1>1. Init => IInv
    BY TypeInit, SafeInit DEF IInv
  <1>2. IInv /\ [Next]_vars => Safe'
    <2> SUFFICES ASSUME IInv, [Next]_vars PROVE Safe'
      OBVIOUS
    <2>1. CASE UNCHANGED vars
      BY <2>1 DEF IInv, Safe, LockDiscipline, WritesAreFresh, GatewayAsked, ViewsAreSound,
                  OrderState, Working, vars, dbVars, envVars, sessVars, lockVars
    <2>2. ASSUME NEW o \in Orders,
                 \/ CreateOrder(o) \/ CreateOrderFails(o) \/ CommitCreate(o)
                 \/ RollbackCreate(o) \/ Pay(o) \/ ToggleSale(o)
          PROVE  Safe'
      BY <2>2, SafeEnv
    <2>3. ASSUME NEW s \in Sessions, NEW o \in Orders,
                 WebhookStart(s, o) \/ CheckStart(s, o)
          PROVE  Safe'
      BY <2>3, SafeStart
    <2>4. CASE PollStart(Poller)
      <3>1. PICK o \in Orders : TRUE
        BY <2>4 DEF PollStart, ListPending, Pending
      <3>2. QED
        BY <2>4, <3>1, SafeStart DEF Sessions
    <2>5. ASSUME NEW s \in Sessions, Process(s) PROVE Safe'
      <3>1. CASE AlreadyFulfilled(s)
        BY <3>1, SafeMark
      <3>2. CASE Commit(s)
        BY <3>2, SafeCommit
      <3>3. CASE DeadlockAbort(s)
        BY <3>3, SafeAbort DEF DeadlockAbort, dbVars, envVars
      <3>4. QED
        BY <2>5, <3>1, <3>2, <3>3, SafeMove DEF Process
    <2>6. ASSUME NEW s \in Sessions, LockOrder(s) PROVE Safe'
      BY <2>6, SafeLock
    <2>7. ASSUME NEW s \in Sessions, Fulfil(s) PROVE Safe'
      BY <2>7, SafeMark
    <2>8. ASSUME NEW s \in Sessions, Rollback(s) PROVE Safe'
      BY <2>8, SafeAbort DEF Rollback, dbVars, envVars
    <2>9. QED
      BY <2>1, <2>2, <2>3, <2>4, <2>5, <2>6, <2>7, <2>8 DEF Next, Sessions
  <1>3. QED
    BY <1>1, <1>2, TypeCorrect, PTL DEF Spec, IInv

\* No interleaving of webhooks, checks, polls, crashes and deadlocks hands out
\* the goods of an order twice.
THEOREM AtMostOnce == Spec => []CreditedAtMostOnce
  <1>1. IInv => CreditedAtMostOnce
    BY DEF IInv, Safe, OrderState, CreditedAtMostOnce
  <1>2. QED
    BY <1>1, Invariance, PTL

\* An order is recorded as SUCCEEDED exactly when its goods were handed out.
THEOREM StatusAgreesWithCredit == Spec => []SettledIffCredited
  <1>1. IInv => SettledIffCredited
    BY DEF IInv, Safe, OrderState, SettledIffCredited
  <1>2. QED
    BY <1>1, Invariance, PTL

\* Goods go out only for money the gateway reports in full.
THEOREM OnlyIfPaid == Spec => []CreditedOnlyIfPaid
  <1>1. IInv => CreditedOnlyIfPaid
    BY DEF IInv, Safe, OrderState, CreditedOnlyIfPaid
  <1>2. QED
    BY <1>1, Invariance, PTL

-------------------------------------------------------------------------------
(* The implementation of the promise                                       *)

MoneyTaken == {o \in Orders : gateway[o] = "succeeded"}

LEMMA MapsCreation ==
  ASSUME IInv, NEW o \in Orders,
         \/ CreateOrder(o) \/ CreateOrderFails(o) \/ CommitCreate(o)
         \/ RollbackCreate(o) \/ Pay(o) \/ ToggleSale(o)
  PROVE  [Contract!PromiseNext]_(Contract!promiseVars)
  <1> USE DEF Contract!promiseVars, dbVars
  <1>1. /\ gateway \in [Orders -> {"none", "pending", "succeeded", "failed"}]
        /\ gateway[o] = "none" => dbStatus[o] = "absent"
        /\ o \in draft => dbStatus[o] = "absent"
    BY DEF IInv, TypeOK, Safe, OrderState
  <1>2. CASE CreateOrder(o) \/ RollbackCreate(o) \/ ToggleSale(o)
    <2>1. UNCHANGED <<dbStatus, credits>> /\ MoneyTaken' = MoneyTaken
      BY <1>1, <1>2 DEF CreateOrder, RollbackCreate, ToggleSale, Allocatable, MoneyTaken
    <2>2. QED
      BY <2>1 DEF MoneyTaken
  <1>3. CASE CreateOrderFails(o)
    <2>1. UNCHANGED credits /\ MoneyTaken' = MoneyTaken
      BY <1>1, <1>3 DEF CreateOrderFails, Allocatable, MoneyTaken
    <2>2. CASE UNCHANGED dbStatus
      BY <2>1, <2>2 DEF MoneyTaken
    <2>3. CASE dbStatus' = [dbStatus EXCEPT ![o] = "CANCELED"]
      <3>1. dbStatus[o] = "absent"
        BY <1>1, <1>3 DEF CreateOrderFails, Allocatable
      <3>2. Contract!Publish(o, "CANCELED")
        BY <2>1, <2>3, <3>1 DEF Contract!Publish, MoneyTaken
      <3>3. QED
        BY <3>2 DEF Contract!PromiseNext, Contract!PromiseStatus
    <2>4. QED
      BY <1>3, <2>2, <2>3 DEF CreateOrderFails
  <1>4. CASE CommitCreate(o)
    <2>1. Contract!Publish(o, "PENDING")
      BY <1>1, <1>4 DEF CommitCreate, Contract!Publish
    <2>2. QED
      BY <2>1 DEF Contract!PromiseNext, Contract!PromiseStatus
  <1>5. CASE Pay(o)
    <2>1. o \notin MoneyTaken /\ MoneyTaken' = MoneyTaken \cup {o} /\ UNCHANGED <<dbStatus, credits>>
      BY <1>1, <1>5 DEF Pay, MoneyTaken
    <2>2. Contract!TakeMoney(o)
      BY <2>1 DEF Contract!TakeMoney, MoneyTaken
    <2>3. QED
      BY <2>2 DEF Contract!PromiseNext
  <1>6. QED
    BY <1>2, <1>3, <1>4, <1>5

LEMMA MapsCommit ==
  ASSUME IInv, NEW s \in Sessions, Commit(s)
  PROVE  [Contract!PromiseNext]_(Contract!promiseVars)
  <1>1. /\ dbStatus \in [Orders -> PaymentStatus \cup {"absent"}] /\ credits \in [Orders -> Nat]
        /\ wrote[s] \in SUBSET Orders
        /\ dbStatus' = [o \in Orders |-> IF o \in flagged[s] THEN "SUCCEEDED" ELSE dbStatus[o]]
        /\ credits' = [o \in Orders |-> IF o \in wrote[s] THEN credits[o] + 1 ELSE credits[o]]
    BY DEF IInv, TypeOK, Commit
  <1>2. dbStatus' = [o \in Orders |-> IF o \in wrote[s] THEN "SUCCEEDED" ELSE dbStatus[o]]
    BY <1>1, Committed
  <1>3. MoneyTaken' = MoneyTaken
    BY Committed DEF MoneyTaken
  <1>4. CASE wrote[s] = {}
    <2>1. dbStatus' = dbStatus /\ credits' = credits
      BY <1>1, <1>2, <1>4
    <2>2. QED
      BY <1>3, <2>1 DEF Contract!promiseVars, MoneyTaken
  <1>5. CASE wrote[s] # {}
    <2>1. /\ wrote[s] \subseteq MoneyTaken \ Mismatched
          /\ \A o \in wrote[s] : dbStatus[o] = "PENDING"
      BY <1>1, Committed DEF MoneyTaken
    <2>2. Contract!SettleAll(wrote[s])
      BY <1>1, <1>2, <1>3, <1>5, <2>1 DEF Contract!SettleAll, MoneyTaken
    <2>3. QED
      BY <1>1, <2>2 DEF Contract!PromiseNext
  <1>6. QED
    BY <1>4, <1>5

\* Whatever happens between sessions, a customer sees the promise kept: money
\* taken once, goods handed out at most once, together with the status.
THEOREM Implementation == Spec => KeepsPromise
  <1>1. Init => Contract!PromiseInit
    BY DEF Init, Contract!PromiseInit
  <1>2. IInv /\ [Next]_vars => [Contract!PromiseNext]_(Contract!promiseVars)
    <2> SUFFICES ASSUME IInv, [Next]_vars
                 PROVE  [Contract!PromiseNext]_(Contract!promiseVars)
      OBVIOUS
    <2>1. ASSUME UNCHANGED <<dbStatus, credits, gateway>>
          PROVE  [Contract!PromiseNext]_(Contract!promiseVars)
      BY <2>1 DEF Contract!promiseVars
    <2>2. CASE UNCHANGED vars
      BY <2>1, <2>2 DEF vars, dbVars, envVars
    <2>3. ASSUME NEW o \in Orders,
                 \/ CreateOrder(o) \/ CreateOrderFails(o) \/ CommitCreate(o)
                 \/ RollbackCreate(o) \/ Pay(o) \/ ToggleSale(o)
          PROVE  [Contract!PromiseNext]_(Contract!promiseVars)
      BY <2>3, MapsCreation
    <2>4. ASSUME NEW s \in Sessions, Commit(s)
          PROVE  [Contract!PromiseNext]_(Contract!promiseVars)
      BY <2>4, MapsCommit
    <2>5. CASE PollStart(Poller) \/ \E s \in Sessions, o \in Orders : WebhookStart(s, o) \/ CheckStart(s, o)
      BY <2>1, <2>5 DEF PollStart, WebhookStart, CheckStart, Begin, dbVars, envVars
    <2>6. ASSUME NEW s \in Sessions,
                 (Process(s) /\ ~ Commit(s)) \/ LockOrder(s) \/ Fulfil(s) \/ Rollback(s)
          PROVE  [Contract!PromiseNext]_(Contract!promiseVars)
      BY <2>1, <2>6
      DEF Process, PollNext, OrderNotFound, GatewayRefuses, GatewayConfirms, AlreadyFulfilled,
          NotYetFulfilled, FulfilRefused, DeadlockAbort, LockOrder, Fulfil, Rollback,
          dbVars, envVars
    <2>7. QED
      BY <2>2, <2>3, <2>4, <2>5, <2>6 DEF Next, Sessions
  <1>3. QED
    BY <1>1, <1>2, Invariance, PTL DEF Spec, KeepsPromise, Contract!Promise
===============================================================================
