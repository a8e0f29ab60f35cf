------------------------------ MODULE TrafficSync ------------------------------
(***************************************************************************)
(* The traffic of a subscription's devices (src/src/services/              *)
(* traffic_sync.py, sync_user_traffic, sync_all_traffic and                *)
(* reset_user_traffic in src/src/admin/services.py).  Xray counts the      *)
(* bytes of each credential since it was started; a sync adds to each      *)
(* device what its credentials' counters have grown by since the sync      *)
(* before, whose sum it keeps as the baseline.  The cron job fetches the   *)
(* counters first and loads the rows afterwards; the panel, which syncs    *)
(* whenever a customer's page is opened, loads first.                      *)
(*                                                                         *)
(* One direction stands for upload and download.  The sums kept with the   *)
(* subscription and the counters under the older e-mail formats are left   *)
(* out.  A counter of zero is one that Xray does not report.               *)
(***************************************************************************)
EXTENDS Naturals, Sequences, FiniteSets

CONSTANTS
  Devices,      \* subscription_devices.id, finitely many
  Configs,      \* vpn_configs.id, finitely many
  Syncs,        \* concurrent transactions
  MaxTraffic,   \* bound: bytes sent through Xray
  MaxRestarts,  \* bound: restarts of Xray
  MaxChanges    \* bound: resets, deletions, revoked and restored credentials

TrafficAssumption ==
  /\ IsFiniteSet(Devices) /\ IsFiniteSet(Configs)
  /\ MaxTraffic \in Nat /\ MaxRestarts \in Nat /\ MaxChanges \in Nat

VARIABLES
  bytes, baseline,  \* committed columns of a device
  devices,          \* the rows that exist
  live,             \* credentials that are not revoked
  raw,              \* Xray's counter of a credential
  served,           \* the credentials Xray knows
  used,             \* history: what a device has used with credentials not revoked
  disturbed,        \* history: see CountedWasUsed
  sent, restarts, changes,
  sync              \* per transaction

Credentials == Devices \X Configs
vars == <<bytes, baseline, devices, live, raw, served, used, disturbed,
          sent, restarts, changes, sync>>
world == <<live, raw, served, used, sent, restarts>>

None == [d \in Devices |-> 0]
NoCounters == [k \in Credentials |-> 0]
Idle == [kind |-> "none", todo |-> <<>>, fetched |-> NoCounters, sum |-> None,
         listed |-> {}, bytes |-> None, baseline |-> None]

\* The order of the handlers' steps.
Program ==
  [cron  |-> <<"fetch", "map", "load", "save">>,
   page  |-> <<"load", "fetch", "map", "save">>,
   reset |-> <<"load", "save">>]

TypeOK ==
  /\ bytes \in [Devices -> Nat] /\ baseline \in [Devices -> Nat]
  /\ devices \in SUBSET Devices /\ live \in SUBSET Credentials
  /\ raw \in [Credentials -> Nat] /\ served \in SUBSET Credentials
  /\ used \in [Devices -> Nat] /\ disturbed \in BOOLEAN
  /\ sent \in 0 .. MaxTraffic /\ restarts \in 0 .. MaxRestarts /\ changes \in 0 .. MaxChanges
  /\ \A s \in Syncs : sync[s].todo = <<>> => sync[s] = Idle

Init ==
  /\ bytes = None /\ baseline = None /\ devices = Devices
  /\ live = Credentials /\ raw = NoCounters /\ served = Credentials
  /\ used = None /\ disturbed = FALSE /\ sent = 0 /\ restarts = 0 /\ changes = 0
  /\ sync = [s \in Syncs |-> Idle]

Running == {s \in Syncs : sync[s].todo # <<>>}

\* The sum over the credentials of a device in a set: the number of the bytes that
\* they have counted, each named by its credential and its number.
Units(counters, creds, d) ==
  {u \in Credentials \X (1 .. MaxTraffic) : u[1] \in creds /\ u[1][1] = d /\ u[2] <= counters[u[1]]}
SumOf(counters, creds, d) == Cardinality(Units(counters, creds, d))

-------------------------------------------------------------------------------
(* Xray                                                                    *)

Use(k) ==
  /\ k \in served /\ sent < MaxTraffic
  /\ sent' = sent + 1
  /\ raw' = [raw EXCEPT ![k] = @ + 1]
  /\ used' = IF k \in live THEN [used EXCEPT ![k[1]] = @ + 1] ELSE used
  /\ UNCHANGED <<bytes, baseline, devices, live, served, disturbed, restarts, changes, sync>>

\* A restart, by a sync of the client list or by itself: the counters begin again.
Restart ==
  /\ restarts < MaxRestarts
  /\ restarts' = restarts + 1
  /\ raw' = NoCounters /\ served' = live
  /\ UNCHANGED <<bytes, baseline, devices, live, used, disturbed, sent, changes, sync>>

-------------------------------------------------------------------------------
(* Transactions                                                            *)

Begin(s, kind) ==
  /\ sync[s].todo = <<>>
  /\ kind = "reset" => changes < MaxChanges
  /\ changes' = IF kind = "reset" THEN changes + 1 ELSE changes
  /\ sync' = [sync EXCEPT ![s] = [Idle EXCEPT !.kind = kind, !.todo = Program[kind]]]
  /\ disturbed' = (disturbed \/ kind = "reset")
  /\ UNCHANGED <<bytes, baseline, devices, world>>

Step(s, at, r) ==
  /\ sync[s].todo # <<>> /\ Head(sync[s].todo) = at
  /\ sync' = [sync EXCEPT ![s] = [r EXCEPT !.todo = Tail(sync[s].todo)]]

EndKeepingRows(s, at) ==
  /\ sync[s].todo # <<>> /\ Head(sync[s].todo) = at
  /\ sync' = [sync EXCEPT ![s].todo = <<>>]

End(s, at) ==
  /\ sync[s].todo # <<>> /\ Head(sync[s].todo) = at
  /\ sync' = [sync EXCEPT ![s] = Idle]

\* fetch_all_traffic
Fetch(s) ==
  /\ Step(s, "fetch", [sync[s] EXCEPT !.fetched = raw])
  /\ UNCHANGED <<bytes, baseline, devices, world, disturbed, changes>>

\* The SSH command fails: no counters; sync_all_traffic returns early.
FetchNothing(s) ==
  /\ IF sync[s].kind = "cron"
       THEN End(s, "fetch")
       ELSE Step(s, "fetch", sync[s])
  /\ UNCHANGED <<bytes, baseline, devices, world, disturbed, changes>>

\* credential_device_map, and the sums of the counters by device
ReadMap(s) ==
  /\ Step(s, "map", [sync[s] EXCEPT !.fetched = NoCounters,
                       !.sum = [d \in Devices |-> SumOf(sync[s].fetched, live, d)]])
  /\ UNCHANGED <<bytes, baseline, devices, world, disturbed, changes>>

\* get_by_subscription
Load(s) ==
  /\ Step(s, "load", [sync[s] EXCEPT !.listed = devices, !.bytes = bytes, !.baseline = baseline])
  /\ UNCHANGED <<bytes, baseline, devices, world, disturbed, changes>>

AlwaysGrowth(current, base) == current

\* _calc_delta: a counter below the baseline has begun again.
CalcDelta(current, base) == IF current >= base THEN current - base ELSE current

\* apply_traffic_to_subscription: devices without a counter are passed over.
Counted(r) == {d \in r.listed : r.sum[d] > 0}

NewBytes(r, d) ==
  IF r.kind = "reset" THEN 0
  ELSE r.bytes[d] + CalcDelta(r.sum[d], r.baseline[d])

NewBaseline(r, d) == IF r.kind = "reset" THEN 0 ELSE r.sum[d]

\* An UPDATE holds the columns that differ from what was loaded.
Unless(new, asLoaded, stored) == IF new = asLoaded THEN stored ELSE new

Written(r) == {d \in (IF r.kind = "reset" THEN r.listed ELSE Counted(r)) :
                 NewBytes(r, d) # r.bytes[d] \/ NewBaseline(r, d) # r.baseline[d]}

\* Counters that were fetched before the rows they will be compared with.
Outdated(t) == sync[t].kind = "cron" /\ Head(sync[t].todo) \in {"map", "load"}

\* Flush and commit; nobody sees a row between them.
Save(s) ==
  LET r == sync[s]
  IN /\ Written(r) \subseteq devices
     /\ End(s, "save")
     /\ bytes' = [d \in Devices |-> IF d \in Written(r)
                    THEN Unless(NewBytes(r, d), r.bytes[d], bytes[d]) ELSE bytes[d]]
     /\ baseline' = [d \in Devices |-> IF d \in Written(r)
                       THEN Unless(NewBaseline(r, d), r.baseline[d], baseline[d]) ELSE baseline[d]]
     /\ disturbed' = (disturbed \/ \E t \in Running \ {s} : Outdated(t))
     /\ UNCHANGED <<devices, world, changes>>

\* StaleDataError: a device it has loaded is gone, and nothing is written.
SaveFails(s) ==
  /\ ~ (Written(sync[s]) \subseteq devices)
  /\ End(s, "save")
  /\ UNCHANGED <<bytes, baseline, devices, world, disturbed, changes>>

\* delete_device, with its credentials
DeleteDevice(d) ==
  /\ d \in devices /\ changes < MaxChanges
  /\ devices' = devices \ {d} /\ live' = {k \in live : k[1] # d}
  /\ changes' = changes + 1
  /\ UNCHANGED <<bytes, baseline, raw, served, used, disturbed, sent, restarts, sync>>

\* A credential is revoked or restored: Xray may count it, or not yet.
ChangeCredential(k) ==
  /\ k[1] \in devices /\ changes < MaxChanges
  /\ live' = IF k \in live THEN live \ {k} ELSE live \cup {k}
  /\ changes' = changes + 1
  /\ disturbed' = (disturbed \/ raw[k] > 0 \/ Running # {})
  /\ UNCHANGED <<bytes, baseline, devices, raw, served, used, sent, restarts, sync>>

Next ==
  \/ \E k \in Credentials : Use(k) \/ ChangeCredential(k)
  \/ Restart
  \/ \E d \in Devices : DeleteDevice(d)
  \/ \E s \in Syncs :
       \/ \E kind \in DOMAIN Program : Begin(s, kind)
       \/ Fetch(s) \/ FetchNothing(s) \/ ReadMap(s) \/ Load(s) \/ Save(s) \/ SaveFails(s)

Spec == Init /\ [][Next]_vars

-------------------------------------------------------------------------------
(* Properties                                                              *)

\* No traffic is counted twice, and none is missed but by a restart of Xray, by any
\* number of overlapping syncs, unless somebody resets the traffic, a credential is
\* revoked or restored that Xray has a counter of or a sync is reading, or another
\* transaction writes the devices after cron has fetched and before it loads them.
CountedWasUsed ==
  ~ disturbed => \A d \in devices :
    /\ bytes[d] <= used[d]
    /\ Running = {} /\ restarts = 0 =>
         bytes[d] + SumOf(raw, live, d) = used[d] + baseline[d]
===============================================================================
