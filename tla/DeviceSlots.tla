------------------------------ MODULE DeviceSlots ------------------------------
(***************************************************************************)
(* The device slots of one subscription (src/src/services/device_limit.py  *)
(* and its callers): every VPN client that fetches the feed with a         *)
(* hardware id gets a row, the first Slots rows by first_seen_at are       *)
(* served, the others are refused and the customer is told once.  Rows go  *)
(* when they look like old browser fingerprints, when they were not seen   *)
(* for thirty days, and when the customer or an admin removes them.        *)
(*                                                                         *)
(* first_seen_at is PostgreSQL's now(), the start of the transaction that  *)
(* inserts the row: rows may be committed in another order.  A row is its  *)
(* first_seen_at here, unique because a transaction inserts one row.       *)
(***************************************************************************)
EXTENDS Naturals, FiniteSets

CONSTANTS
  Devices,      \* hardware ids
  Phantoms,     \* those that look like sha256(ip:ua)[:32]
  Old,          \* devices that have a row from the start
  Sessions,     \* concurrent requests
  Slots,        \* settings.max_devices_per_subscription
  MaxOps        \* bound: requests

ASSUME DeviceSlotsAssumption ==
  /\ IsFiniteSet(Devices) /\ Devices # {}
  /\ Phantoms \subseteq Devices /\ Old \subseteq Devices
  /\ Slots \in Nat /\ MaxOps \in Nat

VARIABLES
  rows,      \* committed subscription_hwids: first_seen_at, 0 for no row
  idle,      \* devices whose row was not seen for thirty days
  frozen,    \* SUSPENDED/device_limit, by the former rule for the whole subscription
  notified,  \* device_limit_notified_at is set
  served,    \* history: devices whose last request was answered with links
  overtaken, \* history: an earlier row was committed after this one was answered
  told,      \* history: overflow messages sent
  again,     \* history: a reason to send it again, see OverflowToldOnce
  pc, kind, dev, stamp, seenFrozen, seenNotified,  \* per session
  gone,      \* per session: rows it has deleted
  found,     \* per session: it has seen a row of its device
  added, touched,  \* per session: it has inserted or updated that row
  subRow,    \* per session: what it has written into the subscription's row
  answer,    \* per session
  clock      \* the number of requests so far, and the time

dbVars == <<rows, idle, frozen, notified>>
histVars == <<served, overtaken, told, again>>
loaded == <<kind, dev, stamp, seenFrozen, seenNotified>>
writes == <<gone, found, added, touched, subRow, answer>>
vars == <<dbVars, histVars, pc, loaded, writes, clock>>

Kinds == {"feed", "browser", "page", "renew", "remove", "clear", "restore"}
Steps == {"idle", "renew", "remove", "purge", "prune", "clear", "lift", "lookup",
          "record", "decide", "tell", "mark", "done", "reject"}

AnyDevice == CHOOSE d \in Devices : TRUE

TypeOK ==
  /\ rows \in [Devices -> Nat] /\ idle \in SUBSET Devices
  /\ frozen \in BOOLEAN /\ notified \in BOOLEAN
  /\ served \in SUBSET Devices /\ overtaken \in SUBSET Devices
  /\ told \in Nat /\ again \in BOOLEAN
  /\ pc \in [Sessions -> Steps] /\ kind \in [Sessions -> Kinds]
  /\ dev \in [Sessions -> Devices] /\ stamp \in [Sessions -> Nat]
  /\ seenFrozen \in [Sessions -> BOOLEAN]
  /\ seenNotified \in [Sessions -> BOOLEAN]
  /\ gone \in [Sessions -> SUBSET Devices] /\ found \in [Sessions -> BOOLEAN]
  /\ added \in [Sessions -> BOOLEAN] /\ touched \in [Sessions -> BOOLEAN]
  /\ subRow \in [Sessions -> {"keep", "thawed", "notified"}]
  /\ answer \in [Sessions -> {"none", "serve", "refuse"}]
  /\ clock \in Nat
  /\ \A s \in Sessions : pc[s] = "idle" =>
       gone[s] = {} /\ ~ added[s] /\ ~ touched[s] /\ subRow[s] = "keep"

Init ==
  /\ rows = [d \in Devices |-> IF d \in Old THEN 1 ELSE 0] /\ idle = {}
  /\ frozen \in BOOLEAN /\ notified = FALSE
  /\ served = {} /\ overtaken = {} /\ told = 0 /\ again = FALSE
  /\ pc = [s \in Sessions |-> "idle"] /\ kind = [s \in Sessions |-> "page"]
  /\ dev = [s \in Sessions |-> AnyDevice]
  /\ stamp = [s \in Sessions |-> 0]
  /\ seenFrozen = [s \in Sessions |-> FALSE]
  /\ seenNotified = [s \in Sessions |-> FALSE]
  /\ gone = [s \in Sessions |-> {}] /\ found = [s \in Sessions |-> FALSE]
  /\ added = [s \in Sessions |-> FALSE] /\ touched = [s \in Sessions |-> FALSE]
  /\ subRow = [s \in Sessions |-> "keep"] /\ answer = [s \in Sessions |-> "none"]
  /\ clock = 1

-------------------------------------------------------------------------------
(* Locks and views                                                         *)

Others(s) == Sessions \ {s}

RowFree(s, d) ==
  \A t \in Others(s) : d \notin gone[t] /\ ~ (touched[t] /\ dev[t] = d)

\* The unique index: an insert waits for another session's insert of the same id.
KeyFree(s, d) == \A t \in Others(s) : ~ (added[t] /\ dev[t] = d)

SubscriptionFree(s) == \A t \in Others(s) : subRow[t] = "keep"

\* What a session sees: committed rows and its own writes.
View(s) ==
  [d \in Devices |-> IF added[s] /\ d = dev[s] THEN stamp[s]
                     ELSE IF d \in gone[s] THEN 0 ELSE rows[d]]

Seen(s) == {d \in Devices : View(s)[d] # 0}

\* The devices that come before d.
Before(rs, d) == {e \in Devices : rs[e] # 0 /\ rs[e] < rs[d]}

AllowedOneMore(rs, d) == Cardinality(Before(rs, d)) <= Slots

\* allowed_hwid_set: the first Slots rows by first_seen_at.
Allowed(rs, d) == Cardinality(Before(rs, d)) < Slots

-------------------------------------------------------------------------------
(* The order of the steps in each handler                                  *)

Thaws(s) == seenFrozen[s]

First(k) ==
  CASE k \in {"renew", "remove", "clear"} -> k
    [] OTHER -> "purge"

\* A browser sends no hardware id and takes no slot.
AfterLift(s) ==
  CASE kind[s] = "feed" -> "lookup"
    [] kind[s] = "remove" -> "purge"
    [] OTHER -> "done"

LiftIfFrozen(s) == IF Thaws(s) THEN "lift" ELSE AfterLift(s)

\* The panel and the Mini App restore a frozen subscription; the Mini App raises
\* for one that is not, and for one with too many rows, which is a Rollback.
AfterPurge(s) ==
  CASE kind[s] \in {"feed", "browser"} -> "prune"
    [] kind[s] = "page" -> LiftIfFrozen(s)
    [] kind[s] = "restore" ->
         IF Thaws(s) THEN "prune" ELSE "reject"
    [] OTHER -> "done"

AfterPrune(s) == IF kind[s] = "restore" THEN "clear" ELSE LiftIfFrozen(s)

Goto(s, at) == pc' = [pc EXCEPT ![s] = at]

\* get_by_token or get_current_by_user: the transaction starts.
Begin(s, k, d) ==
  /\ pc[s] = "idle"
  /\ clock <= MaxOps
  /\ k \notin {"feed", "remove"} => d = AnyDevice
  /\ k = "remove" => rows[d] # 0
  /\ clock' = clock + 1
  /\ kind' = [kind EXCEPT ![s] = k] /\ dev' = [dev EXCEPT ![s] = d]
  /\ stamp' = [stamp EXCEPT ![s] = clock + 1]
  /\ seenFrozen' = [seenFrozen EXCEPT ![s] = frozen]
  /\ seenNotified' = [seenNotified EXCEPT ![s] = notified]
  /\ Goto(s, First(k))
  /\ UNCHANGED <<dbVars, histVars, writes>>

Delete(s, D) ==
  /\ \A d \in D : RowFree(s, d)
  /\ gone' = [gone EXCEPT ![s] = @ \cup D]
  /\ UNCHANGED <<dbVars, histVars, loaded, found, added, touched, subRow, answer, clock>>

\* purge_phantom_hwids
Purge(s) ==
  /\ pc[s] = "purge"
  /\ Delete(s, Seen(s) \cap Phantoms)
  /\ Goto(s, AfterPurge(s))

\* prune_stale_hwids
Prune(s) ==
  /\ pc[s] = "prune"
  /\ Delete(s, Seen(s) \cap idle)
  /\ Goto(s, AfterPrune(s))

\* delete_hwid, by the button of the devices page
Remove(s) ==
  /\ pc[s] = "remove"
  /\ dev[s] \in Seen(s)
  /\ Delete(s, {dev[s]})
  /\ Goto(s, LiftIfFrozen(s))

RemoveUnknown(s) ==
  /\ pc[s] = "remove"
  /\ dev[s] \notin Seen(s)
  /\ Goto(s, "done")
  /\ UNCHANGED <<dbVars, histVars, loaded, writes, clock>>

\* clear_hwids: reset_subscription_link, the panel, the Mini App's restore
Clear(s) ==
  /\ pc[s] = "clear"
  /\ Delete(s, Seen(s))
  /\ Goto(s, IF kind[s] = "restore" THEN "lift" ELSE "done")

WriteSubscription(s, what) ==
  /\ SubscriptionFree(s)
  /\ subRow' = [subRow EXCEPT ![s] = what]
  /\ UNCHANGED <<dbVars, histVars, loaded, gone, found, added, touched, answer, clock>>

\* lift_legacy_device_limit_suspend
Lift(s) ==
  /\ pc[s] = "lift"
  /\ WriteSubscription(s, "thawed")
  /\ Goto(s, AfterLift(s))

\* extend_subscription: the renewal clears the suspension and the notice
Renew(s) ==
  /\ pc[s] = "renew"
  /\ WriteSubscription(s, "thawed")
  /\ Goto(s, "purge")

\* record_hwid: the SELECT
Lookup(s) ==
  /\ pc[s] = "lookup"
  /\ found' = [found EXCEPT ![s] = dev[s] \in Seen(s)]
  /\ Goto(s, "record")
  /\ UNCHANGED <<dbVars, histVars, loaded, gone, added, touched, subRow, answer, clock>>

\* record_hwid: UPDATE of the row found; one that has vanished fails the request.
Touch(s) ==
  /\ pc[s] = "record" /\ found[s]
  /\ RowFree(s, dev[s])
  /\ rows[dev[s]] # 0
  /\ touched' = [touched EXCEPT ![s] = TRUE]
  /\ Goto(s, "decide")
  /\ UNCHANGED <<dbVars, histVars, loaded, gone, found, added, subRow, answer, clock>>

\* record_hwid: INSERT
Insert(s) ==
  /\ pc[s] = "record" /\ ~ found[s]
  /\ KeyFree(s, dev[s])
  /\ dev[s] \notin Seen(s) /\ RowFree(s, dev[s])
  /\ added' = [added EXCEPT ![s] = TRUE]
  /\ Goto(s, "decide")
  /\ UNCHANGED <<dbVars, histVars, loaded, gone, found, touched, subRow, answer, clock>>

\* is_hwid_allowed, and the early return of _notify_overflow_once.  A renewal or
\* a thaw in this session has reset the notice.
Decide(s) ==
  LET allowed == Allowed(View(s), dev[s])
      silent == seenNotified[s] /\ subRow[s] # "thawed"
  IN /\ pc[s] = "decide"
     /\ answer' = [answer EXCEPT ![s] = IF allowed THEN "serve" ELSE "refuse"]
     /\ Goto(s, IF allowed \/ silent THEN "done" ELSE "tell")
     /\ UNCHANGED <<dbVars, histVars, loaded, gone, found, added, touched, subRow, clock>>

Telling(t) == pc[t] = "mark" \/ (pc[t] = "done" /\ subRow[t] = "notified")

\* send_telegram_message; Telegram may refuse it.
Tell(s) ==
  /\ pc[s] = "tell"
  /\ \/ /\ told' = told + 1
        /\ again' = (again \/ notified \/ \E t \in Others(s) : Telling(t))
        /\ Goto(s, "mark")
     \/ /\ UNCHANGED <<told, again>>
        /\ Goto(s, "done")
  /\ UNCHANGED <<dbVars, served, overtaken, loaded, writes, clock>>

Forgotten == "keep"

\* device_limit_notified_at = utcnow()
Mark == "notified"

MarkTold(s) ==
  /\ pc[s] = "mark"
  /\ WriteSubscription(s, Mark)
  /\ Goto(s, "done")

EndSessionKeepingRows(s) == Goto(s, "idle") /\ UNCHANGED <<loaded, writes>>

\* The transaction ends, its locks with it.
EndSession(s) ==
  /\ Goto(s, "idle")
  /\ kind' = [kind EXCEPT ![s] = "page"] /\ dev' = [dev EXCEPT ![s] = AnyDevice]
  /\ stamp' = [stamp EXCEPT ![s] = 0]
  /\ seenFrozen' = [seenFrozen EXCEPT ![s] = FALSE]
  /\ seenNotified' = [seenNotified EXCEPT ![s] = FALSE]
  /\ gone' = [gone EXCEPT ![s] = {}] /\ found' = [found EXCEPT ![s] = FALSE]
  /\ added' = [added EXCEPT ![s] = FALSE] /\ touched' = [touched EXCEPT ![s] = FALSE]
  /\ subRow' = [subRow EXCEPT ![s] = "keep"] /\ answer' = [answer EXCEPT ![s] = "none"]

\* The devices whose answer did not know the row that s commits now.
Overtakes(s) ==
  {d \in Devices : rows[d] > stamp[s]}
    \cup {dev[t] : t \in {u \in Others(s) :
            added[u] /\ answer[u] # "none" /\ stamp[u] > stamp[s]}}

Commit(s) ==
  /\ pc[s] = "done"
  /\ rows' = View(s)
  /\ idle' = (idle \ gone[s]) \ (IF added[s] \/ touched[s] THEN {dev[s]} ELSE {})
  /\ frozen' = (frozen /\ subRow[s] # "thawed")
  /\ notified' = IF subRow[s] = "keep" THEN notified ELSE subRow[s] = "notified"
  /\ served' = CASE answer[s] = "serve" -> served \cup {dev[s]}
                 [] answer[s] = "refuse" -> served \ {dev[s]}
                 [] OTHER -> served
  /\ overtaken' = (overtaken \ {d \in gone[s] : View(s)[d] = 0})
                     \cup (IF added[s] THEN Overtakes(s) ELSE {})
  /\ again' = (again \/ subRow[s] = "thawed")
  /\ EndSession(s)
  /\ UNCHANGED <<told, clock>>

\* What a rollback leaves: the message that was sent.
Forget(s) ==
  /\ overtaken' = IF added[s] /\ rows[dev[s]] = 0 THEN overtaken \ {dev[s]} ELSE overtaken
  /\ again' = (again \/ Telling(s))
  /\ EndSession(s)
  /\ UNCHANGED <<dbVars, served, told, clock>>

\* StaleDataError, or IntegrityError: another request of this device was faster,
\* or its row has been removed since.
Conflict(s) ==
  /\ pc[s] = "record"
  /\ \/ found[s] /\ RowFree(s, dev[s]) /\ rows[dev[s]] = 0
     \/ ~ found[s] /\ KeyFree(s, dev[s]) /\ RowFree(s, dev[s]) /\ dev[s] \in Seen(s)
  /\ Forget(s)

\* Credentials, the sync or the connection may fail in any step.
Rollback(s) ==
  /\ pc[s] # "idle"
  /\ Forget(s)

\* Thirty days pass without a request of d.
GoIdle(d) ==
  /\ rows[d] # 0
  /\ idle' = idle \cup {d}
  /\ UNCHANGED <<rows, frozen, notified, histVars, pc, loaded, writes, clock>>

-------------------------------------------------------------------------------
(* Waiting                                                                 *)

Wants(s) ==
  CASE pc[s] = "purge" -> Seen(s) \cap Phantoms
    [] pc[s] = "prune" -> Seen(s) \cap idle
    [] pc[s] = "clear" -> Seen(s)
    [] pc[s] \in {"remove", "record"} -> {dev[s]}
    [] OTHER -> {}

WantsSubscription(s) ==
  pc[s] \in {"renew", "lift", "mark"}

WaitsFor(s, t) ==
  /\ s # t
  /\ \/ \E d \in Wants(s) : d \in gone[t] \/ (touched[t] /\ dev[t] = d)
     \/ pc[s] = "record" /\ ~ found[s] /\ added[t] /\ dev[t] = dev[s]
     \/ WantsSubscription(s) /\ subRow[t] # "keep"

\* PostgreSQL aborts a transaction of a wait cycle.
DeadlockAbort(s) ==
  /\ \E C \in SUBSET Sessions :
       /\ s \in C
       /\ \A t \in C : /\ \E v \in C : WaitsFor(t, v)
                       /\ \E v \in C : WaitsFor(v, t)
  /\ Forget(s)

Waiting(s) ==
  \/ Purge(s) \/ Prune(s) \/ Remove(s) \/ Clear(s) \/ Lift(s) \/ Renew(s)
  \/ Touch(s) \/ Insert(s) \/ MarkTold(s) \/ Conflict(s)

Step(s) ==
  RemoveUnknown(s) \/ Lookup(s) \/ Decide(s) \/ Tell(s) \/ Commit(s) \/ DeadlockAbort(s)

Next ==
  \/ \E s \in Sessions :
       \/ \E k \in Kinds, d \in Devices : Begin(s, k, d)
       \/ Waiting(s) \/ Step(s) \/ Rollback(s)
  \/ \E d \in Devices : GoIdle(d)

Spec == Init /\ [][Next]_vars

-------------------------------------------------------------------------------
(* Properties                                                              *)

\* "The first devices go on working" (device_limit.py:24): a device that was
\* served and still has its row is among the first Slots, whatever rows have
\* come and gone since, unless a request that started before its own committed
\* its row after the answer.
KeepsSlot ==
  \A d \in served :
    rows[d] # 0 /\ d \notin overtaken =>
      Cardinality({e \in Devices : 0 < rows[e] /\ rows[e] < rows[d]}) < Slots

\* _notify_overflow_once: a second message needs a renewal or a thaw, a
\* request that failed after sending, or two requests that overlapped.
OverflowToldOnce == told > 1 => again
===============================================================================
