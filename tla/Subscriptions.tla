----------------------------- MODULE Subscriptions -----------------------------
(***************************************************************************)
(* The life of one customer's subscriptions: trial, purchase and renewal,  *)
(* the admin's gift and deactivation, and expiry, which three different    *)
(* places bring about: the cron sweep, the subscription feed, and any page *)
(* that looks at an expired row (src/src/services/__init__.py,             *)
(* repositories/__init__.py, config_credentials.py, admin/services.py).    *)
(*                                                                         *)
(* Every operation is one READ COMMITTED transaction: it loads the row,    *)
(* decides, and later updates the columns it changed.  SQLAlchemy writes   *)
(* only those: a renewal of a row loaded as ACTIVE does not write status.  *)
(* Credentials are rows of their own: here a subscription has keys or not. *)
(***************************************************************************)
EXTENDS Naturals, FiniteSets

\* Definitions named ...Anyone, ...Later and the like are deliberate
\* mistakes: the mutants that show each property can fail.

CONSTANTS
  Requests,     \* concurrent requests of the customer and the admins
  Cron,         \* scripts/sync_xray_users.py (flock: one at a time)
  App,          \* the customer's VPN client refreshing its feed
  Kinds,        \* the operations requests may ask for
  Days,         \* lengths of the plans on sale and of gifts
  TrialDays,
  MaxRows,      \* bound: subscription rows
  MaxTime,      \* bound: days the clock runs
  MaxOps,       \* bound: requests
  MaxFailures   \* bound: failed sessions

Purchase == {"balance", "gateway"}
Renewal == Purchase \cup {"gift"}
AllKinds == Renewal \cup {"trial", "suspend", "look", "hub"}

ASSUME SubscriptionAssumption ==
  /\ Cron \notin Requests /\ App \notin Requests /\ App # Cron
  /\ Kinds \subseteq AllKinds
  /\ Days \subseteq Nat \ {0} /\ Days # {} /\ TrialDays \in Nat \ {0}
  /\ MaxRows \in Nat \ {0} /\ MaxTime \in Nat
  /\ MaxOps \in Nat /\ MaxFailures \in Nat

Sessions == Requests \cup {Cron, App}
RowIds == 1 .. MaxRows

VARIABLES
  now,
  status, expires,  \* committed subscriptions rows
  keys,             \* committed: rows with credentials that are not revoked
  next,             \* the next row id
  trialUsed,        \* committed users.trial_used
  bought,           \* history: the days each row has had, counted from day 0
  raced,            \* history: rows written while another session worked on them
  pc, kind, days,   \* per session: control point and operation
  target,           \* per session: rows it loaded in order to write them
  wrote,            \* per session: rows it has updated
  cur,              \* per session: the row whose credentials it handles
  setStatus,        \* per session: the status it writes, or "keep"
  setExpires,       \* per session: the expiry it writes, or 0
  setKeys,          \* per session: "ensure", "revoke" or "keep" the credentials
  keyed,            \* per session: rows whose credentials it has written
  held,             \* per session: database rows it has locked
  started, failures

dbVars == <<status, expires, keys, trialUsed>>
histVars == <<bought, raced>>
workVars == <<target, wrote, cur, setStatus, setExpires, setKeys, keyed>>
vars == <<now, dbVars, next, histVars, pc, kind, days, workVars, held, started, failures>>

Running == {"TRIAL", "ACTIVE"}
Manageable == Running \cup {"SUSPENDED"}
Status == Manageable \cup {"EXPIRED"}
PC == {"idle", "user", "load", "write", "insert", "keys", "keywrite", "done"}
UserRow == <<"user", 0>>
SubRow(r) == <<"subscription", r>>
KeyRow(r) == <<"credentials", r>>
Rows == {UserRow} \cup {SubRow(r) : r \in RowIds} \cup {KeyRow(r) : r \in RowIds}

\* A session locks the customer's row and the rows it updates.
LocksAreOwn ==
  \A s \in Sessions : \A x \in held[s] :
    \/ x = UserRow
    \/ \E r \in wrote[s] : x = SubRow(r)
    \/ \E r \in keyed[s] : x = KeyRow(r)

TypeOK ==
  /\ now \in 0 .. MaxTime
  /\ status \in [RowIds -> Status \cup {"none"}] /\ expires \in [RowIds -> Nat]
  /\ keys \in SUBSET RowIds /\ next \in 1 .. MaxRows + 1 /\ trialUsed \in BOOLEAN
  /\ bought \in [RowIds -> Nat] /\ raced \in SUBSET RowIds
  /\ pc \in [Sessions -> PC]
  /\ kind \in [Sessions -> AllKinds \cup {"sweep", "feed"}]
  /\ days \in [Sessions -> Nat]
  /\ target \in [Sessions -> SUBSET RowIds] /\ wrote \in [Sessions -> SUBSET RowIds]
  /\ cur \in [Sessions -> RowIds] /\ keyed \in [Sessions -> SUBSET RowIds]
  /\ setStatus \in [Sessions -> Status \cup {"keep"}]
  /\ setExpires \in [Sessions -> Nat]
  /\ setKeys \in [Sessions -> {"keep", "ensure", "revoke"}]
  /\ held \in [Sessions -> SUBSET Rows] /\ LocksAreOwn
  /\ started \in 0 .. MaxOps /\ failures \in 0 .. MaxFailures

\* Nothing yet, or one subscription that has a day left.
Init ==
  /\ now = 0
  /\ \E old \in {"none", "TRIAL", "ACTIVE"} :
       LET has(r) == r = 1 /\ old # "none" IN
       /\ status = [r \in RowIds |-> IF has(r) THEN old ELSE "none"]
       /\ expires = [r \in RowIds |-> IF has(r) THEN 1 ELSE 0]
       /\ keys = {r \in RowIds : has(r)}
       /\ next = (IF old = "none" THEN 1 ELSE 2)
       /\ trialUsed = (old = "TRIAL")
  /\ bought = expires
  /\ raced = {}
  /\ pc = [s \in Sessions |-> "idle"]
  /\ kind = [s \in Sessions |-> "look"]
  /\ days = [s \in Sessions |-> 0]
  /\ target = [s \in Sessions |-> {}] /\ wrote = [s \in Sessions |-> {}]
  /\ cur = [s \in Sessions |-> 1] /\ keyed = [s \in Sessions |-> {}]
  /\ setStatus = [s \in Sessions |-> "keep"]
  /\ setExpires = [s \in Sessions |-> 0]
  /\ setKeys = [s \in Sessions |-> "keep"]
  /\ held = [s \in Sessions |-> {}]
  /\ started = 0 /\ failures = 0

Tick ==
  /\ now < MaxTime
  /\ now' = now + 1
  /\ UNCHANGED <<dbVars, next, histVars, pc, kind, days, workVars, held, started, failures>>

-------------------------------------------------------------------------------
(* Queries of SubscriptionRepository, on committed rows                    *)

Having(S) == {r \in RowIds : status[r] \in S}

\* ORDER BY expires_at DESC LIMIT 1: any of the latest.
LatestOf(R) == {r \in R : \A q \in R : expires[q] <= expires[r]}

\* get_manageable_by_user
ManageableRow == LatestOf(Having(Manageable))

RenewableUnexpired == ManageableRow

\* get_renewable_by_user falls back on the latest expired row, the younger
\* one of equals.
Renewable ==
  IF ManageableRow # {} THEN ManageableRow
  ELSE LET R == LatestOf(Having({"EXPIRED"})) IN {r \in R : \A q \in R : q <= r}

Lapsed(r) == expires[r] <= now

ExtendedRoundedUp(r, d) == (IF Lapsed(r) THEN now ELSE expires[r]) + d + 1

\* extend_expiry: on top of what is left, or from now.
Extended(r, d) == (IF Lapsed(r) THEN now ELSE expires[r]) + d

-------------------------------------------------------------------------------
(* Sessions                                                                *)

Goto(s, at) == pc' = [pc EXCEPT ![s] = at]

Lock(s, x) ==
  /\ \A t \in Sessions \ {s} : x \notin held[t]
  /\ held' = [held EXCEPT ![s] = @ \cup {x}]

PaysLater(k) == FALSE

\* extend_subscription charges the balance before it reads the subscription.
PaysFirst(k) == k = "balance"

Start(s, k, d) ==
  /\ pc[s] = "idle"
  /\ kind' = [kind EXCEPT ![s] = k]
  /\ days' = [days EXCEPT ![s] = d]
  /\ Goto(s, IF PaysFirst(k) THEN "user" ELSE "load")
  /\ UNCHANGED <<now, dbVars, next, histVars, workVars, held, failures>>

\* activate_trial: "if user.trial_used: raise".
TrialAllowed == ~ trialUsed

Request(s, k) ==
  /\ s \in Requests
  /\ started < MaxOps
  /\ started' = started + 1
  /\ k = "trial" => TrialAllowed
  /\ \E d \in (IF k \in Renewal THEN Days ELSE IF k = "trial" THEN {TrialDays} ELSE {0}) :
       Start(s, k, d)

Background(s, k) == Start(s, k, 0) /\ UNCHANGED started

\* UPDATE users: the balance of a purchase, trial_used of a trial.
UpdateUser(s) ==
  /\ pc[s] = "user"
  /\ Lock(s, UserRow)
  /\ Goto(s, IF kind[s] = "trial" THEN "insert" ELSE "load")
  /\ UNCHANGED <<now, dbVars, next, histVars, kind, days, workVars, started, failures>>

EndSessionKeepingRows(s) ==
  /\ Goto(s, "idle")
  /\ kind' = [kind EXCEPT ![s] = "look"] /\ days' = [days EXCEPT ![s] = 0]
  /\ target' = [target EXCEPT ![s] = {}] /\ wrote' = [wrote EXCEPT ![s] = {}]
  /\ cur' = [cur EXCEPT ![s] = 1] /\ keyed' = [keyed EXCEPT ![s] = {}]
  /\ setStatus' = [setStatus EXCEPT ![s] = "keep"]
  /\ setExpires' = [setExpires EXCEPT ![s] = 0]
  /\ setKeys' = [setKeys EXCEPT ![s] = "keep"]
  /\ UNCHANGED held

\* The session object and its row locks end with the transaction.
EndSession(s) ==
  /\ Goto(s, "idle")
  /\ kind' = [kind EXCEPT ![s] = "look"] /\ days' = [days EXCEPT ![s] = 0]
  /\ target' = [target EXCEPT ![s] = {}] /\ wrote' = [wrote EXCEPT ![s] = {}]
  /\ cur' = [cur EXCEPT ![s] = 1] /\ keyed' = [keyed EXCEPT ![s] = {}]
  /\ setStatus' = [setStatus EXCEPT ![s] = "keep"]
  /\ setExpires' = [setExpires EXCEPT ![s] = 0]
  /\ setKeys' = [setKeys EXCEPT ![s] = "keep"]
  /\ held' = [held EXCEPT ![s] = {}]

\* What a loaded session means to write: status st (or "keep"), expiry e (or
\* 0) to the rows R, then k to their credentials.
Plan(s, R, st, e, k) ==
  /\ target' = [target EXCEPT ![s] = R]
  /\ setStatus' = [setStatus EXCEPT ![s] = st]
  /\ setExpires' = [setExpires EXCEPT ![s] = e]
  /\ setKeys' = [setKeys EXCEPT ![s] = k]
  /\ UNCHANGED <<now, dbVars, next, histVars, kind, days, wrote, keyed, held, started, failures>>

\* The row itself changes, then its credentials.
PlanRows(s, R, st, e, k) == Plan(s, R, st, e, k) /\ Goto(s, "write") /\ UNCHANGED cur

\* Only the credentials change.
PlanKeys(s, r, k) ==
  /\ Plan(s, {}, "keep", 0, k)
  /\ Goto(s, "keys")
  /\ cur' = [cur EXCEPT ![s] = r]

Unless(r, st) == IF status[r] = st THEN "keep" ELSE st

\* Nothing to do: no row, or nothing to write.
LeaveEarly(s) ==
  /\ EndSession(s)
  /\ UNCHANGED <<now, dbVars, next, histVars, started, failures>>

\* extend_subscription and, for a gift, extend_user_subscription.
LoadRenewal(s) ==
  /\ kind[s] \in Renewal
  /\ \/ \E r \in Renewable :
          PlanRows(s, {r}, Unless(r, "ACTIVE"), Extended(r, days[s]),
                   IF kind[s] = "gift" /\ status[r] # "EXPIRED" /\ ~ Lapsed(r)
                     THEN "keep" ELSE "ensure")
     \/ /\ Renewable = {} /\ kind[s] \in Purchase
        /\ Plan(s, {}, "ACTIVE", now + days[s], "ensure")
        /\ Goto(s, "insert") /\ UNCHANGED cur
     \/ Renewable = {} /\ kind[s] = "gift" /\ LeaveEarly(s)

\* activate_trial
LoadTrial(s) ==
  /\ kind[s] = "trial"
  /\ Plan(s, {}, "TRIAL", now + days[s], "ensure")
  /\ Goto(s, "user") /\ UNCHANGED cur

\* deactivate_user_subscription
LoadSuspend(s) ==
  /\ kind[s] = "suspend"
  /\ \/ \E r \in ManageableRow :
          IF status[r] = "SUSPENDED" THEN PlanKeys(s, r, "revoke")
          ELSE PlanRows(s, {r}, "SUSPENDED", 0, "revoke")
     \/ ManageableRow = {} /\ LeaveEarly(s)

\* get_active_by_user and get_current_by_user: whoever looks at a lapsed row
\* marks it, and leaves its credentials alone.
LoadLook(s) ==
  /\ kind[s] = "look"
  /\ \E R \in {LatestOf(Having(Running)), ManageableRow} :
       \/ \E r \in R : /\ Lapsed(r) /\ status[r] # "SUSPENDED"
                       /\ PlanRows(s, {r}, "EXPIRED", 0, "keep")
       \/ /\ R = {} \/ \E r \in R : ~ Lapsed(r) \/ status[r] = "SUSPENDED"
          /\ LeaveEarly(s)

\* build_hub_data: a page that is shown as active has credentials.
LoadHub(s) ==
  /\ kind[s] = "hub"
  /\ \/ \E r \in Having(Manageable) : ~ Lapsed(r) /\ PlanKeys(s, r, "ensure")
     \/ /\ \/ Having(Status) = {}
           \/ \E r \in Having(Status) : status[r] = "EXPIRED" \/ Lapsed(r)
        /\ LeaveEarly(s)

\* sub_feed: _resolve_inactive_reason and _get_subscription_share_links.
LoadFeed(s) ==
  /\ kind[s] = "feed"
  /\ \/ \E r \in Having(Status) :
          IF status[r] # "EXPIRED" /\ Lapsed(r) THEN PlanRows(s, {r}, "EXPIRED", 0, "revoke")
          ELSE PlanKeys(s, r, IF status[r] \in Running THEN "ensure" ELSE "revoke")
     \/ Having(Status) = {} /\ LeaveEarly(s)

DueForSweepAnyone == Having(Running)
DueForSweepTrials == {r \in Having({"TRIAL"}) : Lapsed(r)}

\* get_expired_active
DueForSweep == {r \in Having(Running) : Lapsed(r)}

\* suspend_expired
LoadSweep(s) ==
  /\ kind[s] = "sweep"
  /\ IF DueForSweep = {} THEN LeaveEarly(s)
     ELSE PlanRows(s, DueForSweep, "EXPIRED", 0, "revoke")

Load(s) ==
  /\ pc[s] = "load"
  /\ \/ LoadRenewal(s) \/ LoadTrial(s) \/ LoadSuspend(s) \/ LoadLook(s)
     \/ LoadHub(s) \/ LoadFeed(s) \/ LoadSweep(s)

\* flush: UPDATE subscriptions, which waits for the row.
Write(s) ==
  /\ pc[s] = "write"
  /\ \E r \in target[s] \ wrote[s] :
       /\ Lock(s, SubRow(r))
       /\ wrote' = [wrote EXCEPT ![s] = @ \cup {r}]
       /\ cur' = [cur EXCEPT ![s] = r]
  /\ Goto(s, "keys")
  /\ UNCHANGED <<now, dbVars, next, histVars, kind, days, target, setStatus, setExpires,
                 setKeys, keyed, started, failures>>

\* A row of this session's own: nobody else can see or lock it.
Insert(s) ==
  /\ pc[s] = "insert"
  /\ next <= MaxRows
  /\ next' = next + 1
  /\ wrote' = [wrote EXCEPT ![s] = @ \cup {next}]
  /\ keyed' = [keyed EXCEPT ![s] = @ \cup {next}]
  /\ Goto(s, "done")
  /\ UNCHANGED <<now, dbVars, histVars, kind, days, target, cur, setStatus, setExpires,
                 setKeys, held, started, failures>>

KeysDifferWhenRevoked(s) == setKeys[s] = "revoke" /\ cur[s] \in keys

KeysDiffer(s) ==
  \/ setKeys[s] = "ensure" /\ cur[s] \notin keys
  \/ setKeys[s] = "revoke" /\ cur[s] \in keys

NextRow(s) == IF target[s] \subseteq wrote[s] THEN "done" ELSE "write"

\* ensure_credentials and revoke_subscription read the credentials first ...
ReadKeys(s) ==
  /\ pc[s] = "keys"
  /\ Goto(s, IF KeysDiffer(s) THEN "keywrite" ELSE NextRow(s))
  /\ UNCHANGED <<now, dbVars, next, histVars, kind, days, workVars, held, started, failures>>

\* ... and write those that differ.
WriteKeys(s) ==
  /\ pc[s] = "keywrite"
  /\ Lock(s, KeyRow(cur[s]))
  /\ keyed' = [keyed EXCEPT ![s] = @ \cup {cur[s]}]
  /\ Goto(s, NextRow(s))
  /\ UNCHANGED <<now, dbVars, next, histVars, kind, days, target, wrote, cur, setStatus,
                 setExpires, setKeys, started, failures>>

Commit(s) ==
  /\ pc[s] = "done"
  /\ status' = [r \in RowIds |->
       IF r \in wrote[s] /\ setStatus[s] # "keep" THEN setStatus[s] ELSE status[r]]
  /\ expires' = [r \in RowIds |->
       IF r \in wrote[s] /\ setExpires[s] # 0 THEN setExpires[s] ELSE expires[r]]
  /\ keys' = (IF setKeys[s] = "ensure" THEN keys \cup keyed[s] ELSE keys \ keyed[s])
  /\ trialUsed' = (trialUsed \/ kind[s] = "trial")
  /\ bought' = [r \in RowIds |-> bought[r] + (IF r \in wrote[s] THEN days[s] ELSE 0)]
  /\ raced' = raced \cup {r \in wrote[s] : \E t \in Sessions \ {s} : r \in target[t]}
  /\ EndSession(s)
  /\ UNCHANGED <<now, next, started, failures>>

\* An exception, a crash, a deploy.
Rollback(s) ==
  /\ pc[s] # "idle"
  /\ failures < MaxFailures
  /\ failures' = failures + 1
  /\ EndSession(s)
  /\ UNCHANGED <<now, dbVars, next, histVars, started>>

Step(s) == Load(s) \/ Insert(s) \/ ReadKeys(s) \/ Commit(s)
Wait(s) == UpdateUser(s) \/ Write(s) \/ WriteKeys(s)
Sweep == Background(Cron, "sweep")
Refresh == Background(App, "feed")

Next ==
  \/ Tick \/ Sweep \/ Refresh
  \/ \E s \in Sessions :
       \/ \E k \in Kinds : Request(s, k)
       \/ Step(s) \/ Wait(s) \/ Rollback(s)

Spec == Init /\ [][Next]_vars

\* Cron runs every five minutes, a started session runs on, and PostgreSQL
\* gives a row to the waiting in turn.
CronFairness ==
  /\ WF_vars(Sweep)
  /\ \A s \in Sessions : WF_vars(Step(s)) /\ SF_vars(Wait(s))

CronSpec == Spec /\ CronFairness

-------------------------------------------------------------------------------
(* Properties                                                              *)

\* Every renewal pays from the balance.
Serialised == Kinds \cap (Renewal \cup {"trial"}) \subseteq {"balance"}

DaysNotLost == \A r \in RowIds : expires[r] >= bought[r]

\* Renewals that pay from the balance queue on the customer's row before they
\* read the subscription, so no overlap costs a day that was paid for.
DaysKept == Serialised => DaysNotLost

Account == INSTANCE PaidTime WITH
  Rows <- RowIds, Plans <- Days, until <- expires, paid <- bought

\* With renewals from the balance a purchase is one step on the account, however
\* long its transaction takes and whatever looks at the row meanwhile: no day is
\* lost, none is given away, and nothing but a purchase moves the end.
RenewalsAddUp == Account!PaidTimeSpec

\* Nor do two first purchases from the balance make two subscriptions.
OneSubscription == Serialised => Cardinality(Having(Status)) <= 1

\* A row marked EXPIRED before its time was written by two sessions at once.
EarlyExpiryNeedsOverlap ==
  \A r \in RowIds \ raced : status[r] = "EXPIRED" => Lapsed(r)

\* A lapsed subscription does not stay TRIAL or ACTIVE, though the customer
\* never opens the bot or the client again (CronSpec).
LapsedIsMarked ==
  \A r \in RowIds :
    (status[r] \in Running /\ Lapsed(r)) ~> ~ (status[r] \in Running /\ Lapsed(r))

\* A running subscription whose credentials were revoked, by a gift to a
\* deactivated customer or by a race, gets them back if the client refreshes
\* its feed now and then.
KeysComeBack ==
  WF_vars(Refresh) =>
    \A r \in RowIds :
      (status[r] \in Running /\ ~ Lapsed(r) /\ r \notin keys)
        ~> (status[r] \notin Running \/ Lapsed(r) \/ r \in keys)

\* Nobody waits for ever, whatever rows a sweep collects.
EverySessionEnds == \A s \in Requests : pc[s] # "idle" ~> pc[s] = "idle"

\* README.md:248: EXPIRED is what happens at the end of the paid time.
ExpiredMeansOver == \A r \in Having({"EXPIRED"}) : Lapsed(r)
===============================================================================
