------------------------------ MODULE Credentials ------------------------------
(***************************************************************************)
(* The devices of one subscription and its credentials: one Xray uuid for  *)
(* each device and VPN configuration (src/src/services/devices.py,         *)
(* config_credentials.py and their callers).  A feed refresh completes the *)
(* credentials and hands them out as links; an expiry revokes them, a      *)
(* renewal restores them under new uuids, a reset of the link replaces     *)
(* them all.  A request is one transaction: it lists devices,              *)
(* configurations and credentials in three SELECTs, writes what is missing *)
(* in a flush that takes the row locks, and answers from the instances it  *)
(* has loaded, which SQLAlchemy does not refresh.                          *)
(*                                                                         *)
(* A key is a device and a configuration; the uuids of a key are numbered  *)
(* in the order uuid4() makes them.                                        *)
(***************************************************************************)
EXTENDS Naturals, FiniteSets

CONSTANTS
  Ids,       \* subscription_devices.id: naturals from 1, in the order of creation
  Configs,   \* vpn_configs.id, finitely many
  Sessions,  \* concurrent requests, finitely many
  Limit,     \* settings.max_devices_per_subscription
  MaxOps     \* bound: operations other than the refreshes of a client

\* What TLC's instance satisfies and the proofs assume.
CredentialsAssumption ==
  /\ Ids \subseteq Nat \ {0} /\ 1 \in Ids /\ IsFiniteSet(Ids)
  /\ IsFiniteSet(Sessions) /\ Sessions # {} /\ Limit \in Nat \ {0} /\ MaxOps \in Nat

VARIABLES
  devices,    \* committed subscription_devices
  uuid,       \* committed client_uuid of a key, 0 for no row
  live,       \* the keys of rows whose revoked_at is null
  active,     \* configurations with is_active
  paid,       \* the subscription is neither suspended nor over
  token,      \* subscription_token, numbered
  lastId,     \* the highest id a committed device has had
  made,       \* the number of uuids made for a key
  handed,     \* history: links of refreshes that no other request overlapped
  withdrawn,  \* history: those whose uuid was revoked or removed since
  sess,       \* per session: its request
  ops

db == <<devices, uuid, live, active, paid, token, lastId>>
history == <<handed, withdrawn>>
vars == <<db, made, history, sess, ops>>

Keys == Ids \X Configs
NoRow == [k \in Keys |-> 0]

\* A session without a request.
Idle == [pc |-> "idle", kind |-> "feed", token |-> 0, quiet |-> TRUE, target |-> 0,
         listed |-> {}, configs |-> {}, seen |-> NoRow, plan |-> NoRow, dying |-> {},
         cut |-> {}, writes |-> FALSE, answer |-> {}]

Links == [token : Nat, key : Keys, uuid : Nat]

Requests ==
  [pc : {"idle", "count", "insert", "revoke", "remove", "devices", "configs",
         "load", "flush", "answer", "done"},
   kind : {"feed", "renew", "reset", "expire", "add", "delete"},
   token : Nat, quiet : BOOLEAN, target : Ids \cup {0},
   listed : SUBSET Ids, configs : SUBSET Configs, seen : [Keys -> Nat],
   plan : [Keys -> Nat], dying : SUBSET Keys, cut : SUBSET Keys, writes : BOOLEAN,
   answer : SUBSET Links]

TypeOK ==
  /\ devices \in SUBSET Ids /\ uuid \in [Keys -> Nat] /\ made \in [Keys -> Nat]
  /\ live \in SUBSET Keys /\ active \in SUBSET Configs /\ paid \in BOOLEAN
  /\ \A k \in Keys : uuid[k] # 0 => k[1] \in devices
  /\ \A k \in live : uuid[k] # 0
  /\ token \in Nat /\ lastId \in Ids \cup {0} /\ ops \in 0 .. MaxOps
  /\ handed \in SUBSET Links /\ withdrawn \in SUBSET Links
  /\ sess \in [Sessions -> Requests]

\* A customer who has removed every device, or one with a device whose credentials
\* are complete.
Init ==
  /\ devices \in SUBSET {1} /\ active = Configs /\ paid = TRUE /\ token = 1 /\ lastId = Cardinality(devices)
  /\ uuid = [k \in Keys |-> IF k[1] \in devices THEN 1 ELSE 0] /\ made = uuid
  /\ live = {k \in Keys : k[1] \in devices}
  /\ handed = {} /\ withdrawn = {} /\ ops = 0
  /\ sess = [s \in Sessions |-> Idle]

-------------------------------------------------------------------------------
(* Views and locks                                                         *)

Others(s) == Sessions \ {s}
Running(s) == sess[s].pc # "idle"

\* The keys that get a new uuid.
Planned(s) == {k \in Keys : sess[s].plan[k] # 0}

\* What a session has written: new uuids, a device it removed, one it inserted.
Renewed(s) == IF sess[s].pc \in {"answer", "done"} THEN Planned(s) ELSE {}
Removed(s) == IF sess[s].kind = "delete" /\ sess[s].writes THEN {sess[s].target} ELSE {}
Added(s) == IF sess[s].kind # "delete" THEN {sess[s].target} \ {0} ELSE {}

\* The rows whose locks it holds: revoked, inserted or updated, or deleted.
Held(s) == sess[s].cut \cup Renewed(s) \cup (Removed(s) \X Configs)

DevicesSeen(s) == (devices \cup Added(s)) \ Removed(s)
LiveSeen(s) == (live \ sess[s].cut) \cup Renewed(s)

RevokingAll(s) == LiveSeen(s)

ToRevoke(s) == {k \in LiveSeen(s) : sess[s].kind = "delete" => k[1] = sess[s].target}

\* The rows the next step of s writes, and whether it writes the subscription.
Wants(s) ==
  CASE sess[s].pc = "revoke" -> ToRevoke(s)
    [] sess[s].pc = "remove" -> {sess[s].target} \X Configs
    [] sess[s].pc = "flush" -> Planned(s) \cup sess[s].dying
    [] OTHER -> {}

WantsSubscription(s) ==
  \/ sess[s].pc = "revoke" /\ sess[s].kind \in {"reset", "expire"}
  \/ sess[s].pc \in {"remove", "insert"}
  \/ sess[s].pc = "flush" /\ sess[s].kind = "renew"

WantsDefault(s) == sess[s].pc = "devices" /\ DevicesSeen(s) = {}

\* Those that hold a row s wants, its subscription, the device its rows refer to,
\* or the client_uuid its default device takes.
Blockers(s) ==
  {t \in Others(s) :
     \/ Wants(s) \cap Held(t) # {}
     \/ WantsSubscription(s) /\ sess[t].kind # "feed" /\ sess[t].writes
     \/ WantsDefault(s) /\ Added(t) \cup Removed(t) # {}}

\* Session s takes the step that pc names and goes on as r.
Step(s, at, r) ==
  /\ sess[s].pc = at /\ Blockers(s) = {}
  /\ sess' = [sess EXCEPT ![s] = r]

-------------------------------------------------------------------------------
(* The requests                                                            *)

First(k) ==
  CASE k = "feed" -> IF paid THEN "devices" ELSE "revoke"
    [] k = "renew" -> "devices"
    [] k = "add" -> "count"
    [] OTHER -> "revoke"

\* The customer or the admin opens a page, the client fetches the feed.  What has
\* ended is no bar: an admin adds devices to it, and one that is suspended can be
\* reset or deactivated again.
Begin(s, k, d) ==
  /\ sess[s].pc = "idle"
  /\ k = "feed" \/ ops < MaxOps
  /\ IF k = "delete" THEN d \in devices ELSE d = 0
  /\ ops' = IF k = "feed" THEN ops ELSE ops + 1
  /\ sess' = [t \in Sessions |->
       IF t = s THEN [Idle EXCEPT !.pc = First(k), !.kind = k, !.token = token,
                                  !.target = d, !.quiet = \A u \in Others(s) : ~ Running(u)]
       ELSE IF Running(t) THEN [sess[t] EXCEPT !.quiet = FALSE] ELSE sess[t]]
  /\ UNCHANGED <<db, made, history>>

AfterRevoke(r) ==
  CASE r.kind = "reset" -> "devices"
    [] r.kind = "delete" -> "remove"
    [] OTHER -> "done"

\* revoke_subscription, revoke_device: the live rows, with the token or the status.
Revoke(s) ==
  LET r == sess[s]
  IN /\ Step(s, "revoke", [r EXCEPT !.pc = AfterRevoke(r), !.cut = ToRevoke(s),
                                    !.writes = r.kind # "delete"])
     /\ UNCHANGED <<db, made, history, ops>>

\* delete_device: DELETE of the device with its credentials, UPDATE of client_uuid
Remove(s) ==
  /\ sess[s].target \in devices
  /\ Step(s, "remove", [sess[s] EXCEPT !.pc = "done", !.writes = TRUE])
  /\ UNCHANGED <<db, made, history, ops>>

CountOffByOne(n) == n <= Limit

\* add_device: the number of devices is below the limit
BelowLimit(n) == n < Limit

CountDevices(s) ==
  /\ Step(s, "count", IF BelowLimit(Cardinality(devices))
                        THEN [sess[s] EXCEPT !.pc = "insert"] ELSE Idle)
  /\ UNCHANGED <<db, made, history, ops>>

\* subscription_devices.id of a new row: the next of the sequence
FreeIds(s) == {d \in Ids : d > lastId /\ \A t \in Others(s) : d \notin Added(t)}
NewId(s) == {d \in FreeIds(s) : \A e \in FreeIds(s) : d <= e}

\* add_device: INSERT of the device, UPDATE of client_uuid
AddDevice(s) ==
  /\ \E d \in NewId(s) :
       Step(s, "insert", [sess[s] EXCEPT !.pc = "devices", !.target = d, !.writes = TRUE])
  /\ UNCHANGED <<db, made, history, ops>>

\* ensure_credentials: the devices
ListDevices(s) ==
  /\ DevicesSeen(s) # {}
  /\ Step(s, "devices", [sess[s] EXCEPT !.pc = "configs", !.listed = DevicesSeen(s)])
  /\ UNCHANGED <<db, made, history, ops>>

\* ensure_default_device
DefaultDevice(s) ==
  /\ DevicesSeen(s) = {}
  /\ \E d \in NewId(s) :
       Step(s, "devices", [sess[s] EXCEPT !.pc = "configs", !.target = d, !.listed = {d}])
  /\ UNCHANGED <<db, made, history, ops>>

\* ensure_credentials: list_all_active_configs, with an early return
ListConfigs(s) ==
  /\ Step(s, "configs", [sess[s] EXCEPT !.configs = active,
       !.pc = IF active # {} THEN "load" ELSE IF sess[s].kind = "feed" THEN "answer" ELSE "done"])
  /\ UNCHANGED <<db, made, history, ops>>

ReplacingLive(wanted, alive) == wanted

CompleteIfAny(wanted, alive) == {k \in wanted : \A j \in alive : j[1] # k[1]}

\* What ensure_credentials gives a new uuid: no row, or a revoked one.
Missing(wanted, alive) == wanted \ alive

\* ensure_credentials: the existing rows; the live ones of other configurations
\* are revoked.
Load(s) ==
  LET r == sess[s]
      K == Missing(r.listed \X r.configs, LiveSeen(s))
  IN /\ made' = [k \in Keys |-> IF k \in K THEN made[k] + 1 ELSE made[k]]
     /\ Step(s, "load", [r EXCEPT !.pc = "flush", !.seen = uuid,
                                  !.plan = [k \in Keys |-> IF k \in K THEN made[k] + 1 ELSE 0],
                                  !.dying = {k \in LiveSeen(s) : k[2] \notin r.configs},
                                  !.listed = {}, !.configs = {}])
     /\ UNCHANGED <<db, history, ops>>

\* uq_subscription_config_credential, the foreign key, and StaleDataError
Collides(s) ==
  \/ \E k \in Planned(s) : (sess[s].seen[k] = 0) # (uuid[k] = 0)
  \/ \E k \in Planned(s) : k[1] \notin DevicesSeen(s)
  \/ \E k \in sess[s].dying : uuid[k] = 0

Flush(s) ==
  /\ ~ Collides(s)
  /\ Step(s, "flush", [sess[s] EXCEPT !.pc = IF sess[s].kind = "feed" THEN "answer" ELSE "done",
                                      !.cut = @ \cup sess[s].dying, !.dying = {},
                                      !.writes = TRUE])
  /\ UNCHANGED <<db, made, history, ops>>

\* list_active: rows as the database has them, uuids as first loaded
Answer(s) ==
  LET r == sess[s]
      link(k) == IF r.plan[k] # 0 THEN r.plan[k]
                 ELSE IF r.seen[k] # 0 THEN r.seen[k] ELSE uuid[k]
  IN /\ Step(s, "answer", [r EXCEPT !.pc = "done", !.seen = NoRow,
          !.answer = {[token |-> r.token, key |-> k, uuid |-> link(k)] :
                        k \in {j \in LiveSeen(s) : j[2] \in active}}])
     /\ UNCHANGED <<db, made, history, ops>>

KeepingRows(s, gone) == live

\* The committed rows that stay live.
StayingLive(s, gone) == live \ (sess[s].cut \cup gone)

Commit(s) ==
  LET r == sess[s]
      gone == Removed(s) \X Configs
      lost == {h \in handed : h.key \in r.cut \cup gone /\ h.uuid = uuid[h.key]}
  IN /\ Step(s, "done", Idle)
     /\ devices' = DevicesSeen(s)
     /\ lastId' = IF Added(s) # {} /\ r.target > lastId THEN r.target ELSE lastId
     /\ uuid' = [k \in Keys |-> IF k \in gone THEN 0
                               ELSE IF k \in Renewed(s) THEN r.plan[k] ELSE uuid[k]]
     /\ live' = StayingLive(s, gone) \cup Renewed(s)
     /\ paid' = (r.kind = "renew" \/ (paid /\ r.kind # "expire"))
     /\ token' = IF r.kind = "reset" THEN token + 1 ELSE token
     /\ handed' = (handed \ lost) \cup (IF r.quiet THEN r.answer ELSE {})
     /\ withdrawn' = withdrawn \cup lost
     /\ UNCHANGED <<active, made, ops>>

\* IntegrityError or StaleDataError: the request fails, the client comes again.
Conflict(s) ==
  /\ \/ Collides(s) /\ Step(s, "flush", Idle)
     \/ sess[s].target \notin devices /\ Step(s, "remove", Idle)
  /\ UNCHANGED <<db, made, history, ops>>

\* PostgreSQL aborts a transaction of a wait cycle.
DeadlockAbort(s) ==
  /\ \E C \in SUBSET Sessions : s \in C /\ \A t \in C : Blockers(t) \cap C # {}
  /\ sess' = [sess EXCEPT ![s] = Idle]
  /\ UNCHANGED <<db, made, history, ops>>

\* The sync, Telegram or the connection fails in any step.
Rollback(s) ==
  /\ Running(s) /\ ops < MaxOps
  /\ ops' = ops + 1
  /\ sess' = [sess EXCEPT ![s] = Idle]
  /\ UNCHANGED <<db, made, history>>

\* An admin switches a configuration on or off.
Toggle(c) ==
  /\ ops < MaxOps
  /\ ops' = ops + 1
  /\ active' = IF c \in active THEN active \ {c} ELSE active \cup {c}
  /\ UNCHANGED <<devices, uuid, live, paid, token, lastId, made, history, sess>>

-------------------------------------------------------------------------------
Locking(s) ==
  Revoke(s) \/ Remove(s) \/ AddDevice(s) \/ DefaultDevice(s) \/ Flush(s) \/ Conflict(s)

Reading(s) ==
  \/ CountDevices(s) \/ ListDevices(s) \/ ListConfigs(s) \/ Load(s) \/ Answer(s)
  \/ Commit(s) \/ DeadlockAbort(s)

Next ==
  \/ \E s \in Sessions :
       \/ \E k \in {"feed", "renew", "reset", "expire", "add", "delete"}, d \in Ids \cup {0} :
            Begin(s, k, d)
       \/ Locking(s) \/ Reading(s) \/ Rollback(s)
  \/ \E c \in Configs : Toggle(c)

Spec == Init /\ [][Next]_vars

\* A started request runs on, a row lock goes round, and the client comes back.
Fairness ==
  \A s \in Sessions : WF_vars(Reading(s)) /\ SF_vars(Locking(s)) /\ SF_vars(Begin(s, "feed", 0))

FairSpec == Spec /\ Fairness

-------------------------------------------------------------------------------
(* Properties                                                              *)

Works(h) == h.key \in live /\ uuid[h.key] = h.uuid

\* "All devices connected earlier lose access" (messages.py:168): after a reset,
\* and after an expiry, no link handed out before works again.  A refresh that
\* another request overlapped is left out: its links may outlive the reset.
OldLinksDie ==
  \A h \in handed \cup withdrawn : Works(h) => h.token = token /\ h \notin withdrawn

\* A link goes on working until its uuid is revoked or its device removed: no
\* later refresh, renewal or pair of concurrent requests changes a live uuid.
LinksLast == \A h \in handed : Works(h)

\* The links ever handed out, and those of them that work.
Given == handed \cup withdrawn
Working == {h \in Given : Works(h)}

Customer == INSTANCE LinkPromise WITH
  Devices <- Ids, Configurations <- Configs, given <- Given, working <- Working

\* What three SELECTs, a flush and a commit make of the links is one step of
\* LinkPromise: whatever runs beside it, a request withdraws the links of whole
\* configurations, of its device or all of them, and gives none for a second time.
KeepsLinks == Customer!LinkPromiseSpec

\* add_device checks the limit before it inserts: each session may exceed it by one.
DeviceLimit == Cardinality(devices) + 1 <= Limit + Cardinality(Sessions)

\* Once the operations stop, the refreshes bring the credentials in line: every
\* device has every configuration, or none if the subscription is over.  With no
\* configuration left ensure_credentials returns before it revokes anything.
InLineAtLast == <>[](live = IF paid THEN devices \X active ELSE {}) \/ <>[](active = {})
===============================================================================
