------------------------- MODULE MCWithTraffic_proofs --------------------------
(***************************************************************************)
(* What the run of MCWithTraffic checks of the traffic counters holds for  *)
(* any number of devices, configurations, overlapping syncs and restarts   *)
(* of Xray.  What a device had, what its counters had and what they have   *)
(* now must fit, in the committed rows and in what every sync holds,       *)
(* whichever of the two it read first.                                     *)
(***************************************************************************)
EXTENDS MCWithTraffic, Subscriptions_proofs, FiniteSetTheorems, TLAPS


Todo ==
  [cron  |-> {<<"fetch", "map", "load", "save">>, <<"map", "load", "save">>, <<"load", "save">>, <<"save">>},
   page  |-> {<<"load", "fetch", "map", "save">>, <<"fetch", "map", "save">>, <<"map", "save">>, <<"save">>},
   reset |-> {<<"load", "save">>, <<"save">>}]
Counters == [T!Credentials -> Nat]
Sums == [Devices -> Nat]
Plans == Todo["cron"] \cup Todo["page"] \cup Todo["reset"] \cup {<<>>}
SyncRecords ==
  [kind : {"none", "cron", "page", "reset"}, todo : Plans, fetched : Counters, sum : Sums,
   listed : SUBSET Devices, bytes : Sums, baseline : Sums]

\* The steps left are the last ones of the handler; what it has fetched it keeps
\* until it has the sums.
WellFormed(r) ==
  /\ r \in SyncRecords
  /\ IF r.todo = <<>> THEN r = T!Idle ELSE r.kind \in {"cron", "page", "reset"} /\ r.todo \in Todo[r.kind]
  /\ r.todo \notin {<<"map", "load", "save">>, <<"map", "save">>} => r.fetched = T!NoCounters

TrafficTypes ==
  /\ bytes \in Sums /\ baseline \in Sums /\ devices \subseteq Devices
  /\ live \subseteq T!Credentials /\ raw \in Counters /\ served \subseteq T!Credentials
  /\ used \in Sums /\ disturbed \in BOOLEAN
  /\ sent \in 0 .. MaxTraffic /\ restarts \in 0 .. MaxRestarts /\ changes \in 0 .. MaxChanges
  /\ \A k \in T!Credentials : raw[k] <= sent
  /\ sync \in [Syncs -> SyncRecords] /\ \A s \in Syncs : WellFormed(sync[s])

Now(d) == T!SumOf(raw, live, d)

\* A device that had b bytes at the baseline base, and whose counters had the sum
\* "sum" some time since, and have the sum "now": it has used at least what has been
\* counted, and as long as Xray has not been restarted exactly that.
Fits(b, base, sum, present, total, restarted) ==
  /\ b + T!CalcDelta(sum, base) + T!CalcDelta(present, sum) <= total
  /\ restarted = 0 => base <= sum /\ sum <= present /\ b + present = total + base

\* The rows fit, and so does what each sync has loaded and what it has fetched.
RowFits == \A d \in devices : Fits(bytes[d], baseline[d], Now(d), Now(d), used[d], restarts)

Fetched(r, d) == T!SumOf(r.fetched, live, d)

LoadedFirst(r, d) ==
  /\ r.kind = "page" /\ r.todo = <<"fetch", "map", "save">> =>
       Fits(r.bytes[d], r.baseline[d], Now(d), Now(d), used[d], restarts)
  /\ r.kind = "page" /\ r.todo = <<"map", "save">> /\ Fetched(r, d) > 0 =>
       Fits(r.bytes[d], r.baseline[d], Fetched(r, d), Now(d), used[d], restarts)

FetchedFirst(r, d) ==
  /\ r.kind = "cron" /\ r.todo = <<"map", "load", "save">> /\ Fetched(r, d) > 0 =>
       Fits(bytes[d], baseline[d], Fetched(r, d), Now(d), used[d], restarts)
  /\ r.kind = "cron" /\ r.todo = <<"load", "save">> /\ r.sum[d] > 0 =>
       Fits(bytes[d], baseline[d], r.sum[d], Now(d), used[d], restarts)

ReadyToSave(r, d) ==
  r.todo = <<"save">> /\ r.sum[d] > 0 =>
    Fits(r.bytes[d], r.baseline[d], r.sum[d], Now(d), used[d], restarts)

SyncFits(r) ==
  /\ r.kind # "reset"
  /\ \A d \in devices : LoadedFirst(r, d) /\ FetchedFirst(r, d) /\ ReadyToSave(r, d)

Undisturbed == ~ disturbed => RowFits /\ \A s \in Syncs : SyncFits(sync[s])

TrafficInv == TrafficTypes /\ Undisturbed

-----------------------------------------------------------------------------
(* Sums                                                                    *)

\* The instance counts as the library's facts do.
LEMMA SameCount ==
  ASSUME NEW S
  PROVE  T!Cardinality(S) = Cardinality(S) /\ (T!IsFiniteSet(S) <=> IsFiniteSet(S))
<1>1. T!Cardinality(S) = Cardinality(S)
  BY DEF T!Cardinality, Cardinality
<1>2. T!IsFiniteSet(S) <=> IsFiniteSet(S)
  BY DEF T!IsFiniteSet, IsFiniteSet
<1> QED BY <1>1, <1>2

LEMMA UnitsFinite ==
  ASSUME T!TrafficAssumption, NEW counters, NEW creds, NEW d
  PROVE  IsFiniteSet(T!Units(counters, creds, d)) /\ T!SumOf(counters, creds, d) \in Nat
<1>1. IsFiniteSet(T!Credentials)
  BY SameCount, FS_Product DEF T!TrafficAssumption, T!Credentials
<1>2. IsFiniteSet(1 .. MaxTraffic)
  BY SameCount, FS_Interval DEF T!TrafficAssumption
<1>3. IsFiniteSet(T!Credentials \X (1 .. MaxTraffic))
  BY <1>1, <1>2, FS_Product
<1>4. T!Units(counters, creds, d) \subseteq T!Credentials \X (1 .. MaxTraffic)
  BY DEF T!Units
<1>5. IsFiniteSet(T!Units(counters, creds, d))
  BY <1>3, <1>4, FS_Subset
<1> QED BY <1>5, SameCount, FS_CardinalityType DEF T!SumOf

LEMMA NothingCounted ==
  ASSUME T!TrafficAssumption, NEW creds, NEW d PROVE T!SumOf(T!NoCounters, creds, d) = 0
<1>1. T!Units(T!NoCounters, creds, d) = {}
  BY DEF T!Units, T!NoCounters
<1> QED BY <1>1, SameCount, FS_EmptySet DEF T!SumOf

\* One byte more: the sum of its device grows by one, and no other.
LEMMA OneMore ==
  ASSUME T!TrafficAssumption, TrafficTypes, NEW k \in T!Credentials, raw[k] < MaxTraffic, NEW d,
         raw' = [raw EXCEPT ![k] = @ + 1]
  PROVE  T!SumOf(raw', live, d) = IF k \in live /\ k[1] = d THEN Now(d) + 1 ELSE Now(d)
<1> DEFINE u == <<k, raw[k] + 1>>
<1>1. raw[k] \in Nat /\ raw[k] + 1 \in 1 .. MaxTraffic /\ MaxTraffic \in Nat /\ raw \in Counters
  BY DEF TrafficTypes, Counters, T!TrafficAssumption
<1>2. raw'[k] = raw[k] + 1 /\ \A x \in T!Credentials : x # k => raw'[x] = raw[x]
  BY <1>1 DEF Counters
<1>3. CASE k \in live /\ k[1] = d
  <2>1. u \in T!Credentials \X (1 .. MaxTraffic)
    BY <1>1
  <2>2. u \notin T!Units(raw, live, d)
    BY <1>1 DEF T!Units
  <2>3. ASSUME NEW x \in T!Credentials \X (1 .. MaxTraffic)
        PROVE  x[2] <= raw'[x[1]] <=> x[2] <= raw[x[1]] \/ x = u
    <3>1. x[1] \in T!Credentials /\ x[2] \in 1 .. MaxTraffic /\ x = <<x[1], x[2]>>
      BY <2>3
    <3>2. CASE x[1] = k
      BY <1>1, <1>2, <3>1, <3>2
    <3>3. CASE x[1] # k
      BY <1>2, <3>1, <3>3
    <3> QED BY <3>2, <3>3
  <2>4. u[1] \in live /\ u[1][1] = d
    BY <1>3
  <2> HIDE DEF u
  <2>5. T!Units(raw', live, d) = T!Units(raw, live, d) \cup {u}
    BY <2>1, <2>3, <2>4 DEF T!Units
  <2>6. Cardinality(T!Units(raw', live, d)) = Cardinality(T!Units(raw, live, d)) + 1
    BY <2>2, <2>5, UnitsFinite, FS_AddElement
  <2>7. T!SumOf(raw', live, d) = Cardinality(T!Units(raw', live, d)) /\ Now(d) = Cardinality(T!Units(raw, live, d))
    BY SameCount DEF T!SumOf, Now
  <2> QED BY <1>3, <2>6, <2>7
<1>4. CASE ~ (k \in live /\ k[1] = d)
  <2>1. T!Units(raw', live, d) = T!Units(raw, live, d)
    BY <1>2, <1>4 DEF T!Units
  <2> QED BY <1>4, <2>1 DEF T!SumOf, Now
<1> QED BY <1>3, <1>4

\* A credential without a counter, or of another device, adds nothing.
LEMMA SameSum ==
  ASSUME T!TrafficAssumption, NEW counters \in Counters, NEW one, NEW other, NEW d,
         \A k \in T!Credentials : k[1] = d /\ counters[k] # 0 => (k \in one <=> k \in other)
  PROVE  T!SumOf(counters, one, d) = T!SumOf(counters, other, d)
<1>1. ASSUME NEW u \in T!Credentials \X (1 .. MaxTraffic), u[1][1] = d, u[2] <= counters[u[1]]
      PROVE  u[1] \in one <=> u[1] \in other
  <2>1. u[1] \in T!Credentials /\ u[2] \in 1 .. MaxTraffic /\ counters[u[1]] \in Nat
    BY DEF Counters
  <2>2. counters[u[1]] # 0
    BY <1>1, <2>1 DEF T!TrafficAssumption
  <2> QED BY <1>1, <2>1, <2>2
<1>2. T!Units(counters, one, d) = T!Units(counters, other, d)
  BY <1>1 DEF T!Units
<1> QED BY <1>2 DEF T!SumOf

-----------------------------------------------------------------------------
(* What fits                                                               *)

LEMMA FitsMore ==
  ASSUME NEW b \in Nat, NEW base \in Nat, NEW sum \in Nat, NEW present \in Nat, NEW total \in Nat,
         NEW restarted \in Nat, Fits(b, base, sum, present, total, restarted)
  PROVE  Fits(b, base, sum, present + 1, total + 1, restarted)
BY DEF Fits, T!CalcDelta

LEMMA FitsNow ==
  ASSUME NEW b \in Nat, NEW base \in Nat, NEW present \in Nat, NEW total \in Nat,
         NEW restarted \in Nat, Fits(b, base, present, present, total, restarted)
  PROVE  Fits(b, base, present + 1, present + 1, total + 1, restarted)
BY DEF Fits, T!CalcDelta

LEMMA FitsRestart ==
  ASSUME NEW b \in Nat, NEW base \in Nat, NEW sum \in Nat, NEW present \in Nat, NEW total \in Nat,
         NEW restarted \in Nat, Fits(b, base, sum, present, total, restarted)
  PROVE  /\ Fits(b, base, sum, 0, total, restarted + 1)
         /\ Fits(b, base, 0, 0, total, restarted + 1)
BY DEF Fits, T!CalcDelta

LEMMA FitsSaved ==
  ASSUME NEW b \in Nat, NEW base \in Nat, NEW sum \in Nat, NEW present \in Nat, NEW total \in Nat,
         NEW restarted \in Nat, Fits(b, base, sum, present, total, restarted)
  PROVE  Fits(b + T!CalcDelta(sum, base), sum, present, present, total, restarted)
BY DEF Fits, T!CalcDelta

LEMMA GrowthType ==
  ASSUME NEW sum \in Nat, NEW base \in Nat
  PROVE  T!CalcDelta(sum, base) \in Nat /\ (sum > 0 /\ sum # base => T!CalcDelta(sum, base) > 0)
BY DEF T!CalcDelta

-----------------------------------------------------------------------------
(* The handlers' steps                                                     *)

LEMMA NextSteps ==
  ASSUME NEW r, WellFormed(r), r.todo # <<>>
  PROVE  /\ T!Head(r.todo) = "fetch" =>
              \/ r.kind = "cron" /\ T!Tail(r.todo) = <<"map", "load", "save">>
              \/ r.kind = "page" /\ r.todo = <<"fetch", "map", "save">> /\ T!Tail(r.todo) = <<"map", "save">>
         /\ T!Head(r.todo) = "map" =>
              \/ r.kind = "cron" /\ r.todo = <<"map", "load", "save">> /\ T!Tail(r.todo) = <<"load", "save">>
              \/ r.kind = "page" /\ r.todo = <<"map", "save">> /\ T!Tail(r.todo) = <<"save">>
         /\ T!Head(r.todo) = "load" =>
              \/ r.kind = "cron" /\ r.todo = <<"load", "save">> /\ T!Tail(r.todo) = <<"save">>
              \/ r.kind = "page" /\ T!Tail(r.todo) = <<"fetch", "map", "save">>
              \/ r.kind = "reset" /\ T!Tail(r.todo) = <<"save">>
         /\ T!Head(r.todo) = "save" => r.todo = <<"save">>
         /\ r.kind \in {"cron", "page", "reset"}
         /\ T!Head(r.todo) # "save" => T!Tail(r.todo) \in Todo[r.kind]
         /\ T!Head(r.todo) \in {"fetch", "map", "load", "save"}
<1>1. r.kind \in {"cron", "page", "reset"} /\ r.todo \in Todo[r.kind]
  BY DEF WellFormed
<1>2. CASE r.kind = "cron"
  <2>1. r.todo \in Todo["cron"]
    BY <1>1, <1>2
  <2>2. CASE r.todo = <<"fetch", "map", "load", "save">>
    BY <1>2, <2>2 DEF Todo
  <2>3. CASE r.todo = <<"map", "load", "save">>
    BY <1>2, <2>3 DEF Todo
  <2>4. CASE r.todo = <<"load", "save">>
    BY <1>2, <2>4 DEF Todo
  <2>5. CASE r.todo = <<"save">>
    BY <1>2, <2>5 DEF Todo
  <2> QED BY <2>1, <2>2, <2>3, <2>4, <2>5 DEF Todo
<1>3. CASE r.kind = "page"
  <2>1. r.todo \in Todo["page"]
    BY <1>1, <1>3
  <2>2. CASE r.todo = <<"load", "fetch", "map", "save">>
    BY <1>3, <2>2 DEF Todo
  <2>3. CASE r.todo = <<"fetch", "map", "save">>
    BY <1>3, <2>3 DEF Todo
  <2>4. CASE r.todo = <<"map", "save">>
    BY <1>3, <2>4 DEF Todo
  <2>5. CASE r.todo = <<"save">>
    BY <1>3, <2>5 DEF Todo
  <2> QED BY <2>1, <2>2, <2>3, <2>4, <2>5 DEF Todo
<1>4. CASE r.kind = "reset"
  <2>1. r.todo \in Todo["reset"]
    BY <1>1, <1>4
  <2>2. CASE r.todo = <<"load", "save">>
    BY <1>4, <2>2 DEF Todo
  <2>3. CASE r.todo = <<"save">>
    BY <1>4, <2>3 DEF Todo
  <2> QED BY <2>1, <2>2, <2>3 DEF Todo
<1> QED BY <1>1, <1>2, <1>3, <1>4

LEMMA Later ==
  ASSUME NEW mode \in {"cron", "page", "reset"}, NEW todo \in Todo[mode]
  PROVE  todo \in Plans /\ todo # <<>>
<1>1. todo \in Plans
  BY DEF Plans
<1>2. CASE mode = "cron"
  BY <1>1, <1>2 DEF Todo
<1>3. CASE mode = "page"
  BY <1>1, <1>3 DEF Todo
<1>4. CASE mode = "reset"
  BY <1>1, <1>4 DEF Todo
<1> QED BY <1>1, <1>2, <1>3, <1>4

LEMMA IdleType ==
  /\ T!None \in Sums /\ T!NoCounters \in Counters
  /\ T!Idle \in SyncRecords /\ WellFormed(T!Idle) /\ T!Idle.kind = "none" /\ T!Idle.todo = <<>>
<1>1. T!None \in Sums /\ T!NoCounters \in Counters
  BY DEF T!None, T!NoCounters, Sums, Counters
<1>2. <<>> \in Plans
  BY DEF Plans
<1>3. T!Idle \in SyncRecords
  BY <1>1, <1>2 DEF T!Idle, SyncRecords
<1>4. T!Idle.kind = "none" /\ T!Idle.todo = <<>> /\ T!Idle.fetched = T!NoCounters
  BY DEF T!Idle
<1> QED BY <1>1, <1>3, <1>4 DEF WellFormed

LEMMA IdleFits == SyncFits(T!Idle) /\ SyncFits(T!Idle)'
<1>1. T!Idle.kind = "none" /\ T!Idle.todo = <<>>
  BY IdleType
<1>2. T!Idle.todo # <<"save">>
  BY <1>1
<1> QED BY <1>1, <1>2 DEF SyncFits, LoadedFirst, FetchedFirst, ReadyToSave, T!Idle

LEMMA InitInv == T!TrafficAssumption /\ T!Init => TrafficInv
<1> SUFFICES ASSUME T!TrafficAssumption, T!Init PROVE TrafficInv
  OBVIOUS
<1>1. TrafficTypes
  <2>1. bytes \in Sums /\ baseline \in Sums /\ raw \in Counters /\ used \in Sums
    BY IdleType DEF T!Init
  <2>2. devices \subseteq Devices /\ live \subseteq T!Credentials /\ served \subseteq T!Credentials
    BY DEF T!Init
  <2>3. disturbed \in BOOLEAN
    BY DEF T!Init
  <2>4. /\ sent \in 0 .. MaxTraffic /\ restarts \in 0 .. MaxRestarts /\ changes \in 0 .. MaxChanges
        /\ \A k \in T!Credentials : raw[k] <= sent
    BY DEF T!Init, T!TrafficAssumption, T!NoCounters
  <2>5. sync \in [Syncs -> SyncRecords] /\ \A s \in Syncs : WellFormed(sync[s])
    BY IdleType DEF T!Init
  <2> QED BY <2>1, <2>2, <2>3, <2>4, <2>5 DEF TrafficTypes
<1>2. RowFits
  <2> SUFFICES ASSUME NEW d \in Devices PROVE Fits(0, 0, 0, 0, 0, 0)
    <3>1. ASSUME NEW d \in Devices PROVE Now(d) = 0
      BY NothingCounted DEF Now, T!Init
    <3> QED BY <3>1 DEF RowFits, T!Init, T!None
  <2> QED BY DEF Fits, T!CalcDelta
<1>3. \A s \in Syncs : SyncFits(sync[s])
  BY IdleFits DEF T!Init
<1> QED BY <1>1, <1>2, <1>3 DEF TrafficInv, Undisturbed

-----------------------------------------------------------------------------
(* Steps of Xray, and of the devices and their credentials                 *)

\* Whatever the step does to the counters, what fitted still fits.
LEMMA WorldStep ==
  ASSUME T!TrafficAssumption, TrafficInv, TrafficTypes', disturbed' = disturbed,
         UNCHANGED <<bytes, baseline, sync>>, devices' \subseteq devices,
         \A d \in devices' : \A x \in Counters : T!SumOf(x, live', d) = T!SumOf(x, live, d),
         \A d \in devices' : \A b \in Nat : \A base \in Nat : \A sum \in Nat :
           Fits(b, base, sum, Now(d), used[d], restarts) =>
             Fits(b, base, sum, T!SumOf(raw', live', d), used'[d], restarts'),
         \A d \in devices' : \A b \in Nat : \A base \in Nat :
           Fits(b, base, Now(d), Now(d), used[d], restarts) =>
             Fits(b, base, T!SumOf(raw', live', d), T!SumOf(raw', live', d), used'[d], restarts')
  PROVE  Undisturbed'
<1> SUFFICES ASSUME ~ disturbed' PROVE RowFits' /\ \A s \in Syncs : SyncFits(sync[s])'
  BY DEF Undisturbed
<1>1. RowFits /\ \A s \in Syncs : SyncFits(sync[s])
  BY DEF TrafficInv, Undisturbed
<1>2. bytes \in Sums /\ baseline \in Sums /\ devices \subseteq Devices /\ devices' \subseteq devices
  BY DEF TrafficInv, TrafficTypes
<1>3. RowFits'
  <2> SUFFICES ASSUME NEW d \in devices'
               PROVE  Fits(bytes[d], baseline[d], T!SumOf(raw', live', d), T!SumOf(raw', live', d), used'[d], restarts')
    BY DEF RowFits, Now
  <2>1. bytes[d] \in Nat /\ baseline[d] \in Nat /\ d \in devices
    BY <1>2 DEF Sums
  <2>2. Fits(bytes[d], baseline[d], Now(d), Now(d), used[d], restarts)
    BY <1>1, <2>1 DEF RowFits
  <2> QED BY <2>1, <2>2
<1>4. ASSUME NEW s \in Syncs PROVE SyncFits(sync[s])'
  <2> DEFINE r == sync[s]
  <2>1. r \in SyncRecords /\ SyncFits(r) /\ sync' = sync
    BY <1>1 DEF TrafficInv, TrafficTypes
  <2>2. r.kind # "reset"
    BY <2>1 DEF SyncFits
  <2>3. ASSUME NEW d \in devices'
        PROVE  /\ r.kind = "page" /\ r.todo = <<"fetch", "map", "save">> =>
                    Fits(r.bytes[d], r.baseline[d], T!SumOf(raw', live', d), T!SumOf(raw', live', d), used'[d], restarts')
               /\ r.kind = "page" /\ r.todo = <<"map", "save">> /\ Fetched(r, d) > 0 =>
                    Fits(r.bytes[d], r.baseline[d], Fetched(r, d), T!SumOf(raw', live', d), used'[d], restarts')
               /\ r.kind = "cron" /\ r.todo = <<"map", "load", "save">> /\ Fetched(r, d) > 0 =>
                    Fits(bytes[d], baseline[d], Fetched(r, d), T!SumOf(raw', live', d), used'[d], restarts')
               /\ r.kind = "cron" /\ r.todo = <<"load", "save">> /\ r.sum[d] > 0 =>
                    Fits(bytes[d], baseline[d], r.sum[d], T!SumOf(raw', live', d), used'[d], restarts')
               /\ r.todo = <<"save">> /\ r.sum[d] > 0 =>
                    Fits(r.bytes[d], r.baseline[d], r.sum[d], T!SumOf(raw', live', d), used'[d], restarts')
    <3>1. d \in devices /\ d \in Devices
      BY <1>2
    <3>2. bytes[d] \in Nat /\ baseline[d] \in Nat /\ r.bytes[d] \in Nat /\ r.baseline[d] \in Nat /\ r.sum[d] \in Nat
      BY <1>2, <2>1, <3>1 DEF Sums, SyncRecords
    <3>3. Fetched(r, d) \in Nat
      BY UnitsFinite DEF Fetched
    <3>4. LoadedFirst(r, d) /\ FetchedFirst(r, d) /\ ReadyToSave(r, d)
      BY <2>1, <3>1 DEF SyncFits
    <3>5. r.kind = "page" /\ r.todo = <<"fetch", "map", "save">> =>
            Fits(r.bytes[d], r.baseline[d], T!SumOf(raw', live', d), T!SumOf(raw', live', d), used'[d], restarts')
      BY <3>2, <3>4 DEF LoadedFirst
    <3>6. r.kind = "page" /\ r.todo = <<"map", "save">> /\ Fetched(r, d) > 0 =>
            Fits(r.bytes[d], r.baseline[d], Fetched(r, d), T!SumOf(raw', live', d), used'[d], restarts')
      BY <3>2, <3>3, <3>4 DEF LoadedFirst
    <3>7. r.kind = "cron" /\ r.todo = <<"map", "load", "save">> /\ Fetched(r, d) > 0 =>
            Fits(bytes[d], baseline[d], Fetched(r, d), T!SumOf(raw', live', d), used'[d], restarts')
      BY <3>2, <3>3, <3>4 DEF FetchedFirst
    <3>8. r.kind = "cron" /\ r.todo = <<"load", "save">> /\ r.sum[d] > 0 =>
            Fits(bytes[d], baseline[d], r.sum[d], T!SumOf(raw', live', d), used'[d], restarts')
      BY <3>2, <3>4 DEF FetchedFirst
    <3>9. r.todo = <<"save">> /\ r.sum[d] > 0 =>
            Fits(r.bytes[d], r.baseline[d], r.sum[d], T!SumOf(raw', live', d), used'[d], restarts')
      BY <3>2, <3>4 DEF ReadyToSave
    <3> QED BY <3>5, <3>6, <3>7, <3>8, <3>9
  <2>4. ASSUME NEW d \in devices' PROVE T!SumOf(r.fetched, live', d) = Fetched(r, d)
    <3>1. r.fetched \in Counters
      BY <2>1 DEF SyncRecords
    <3> QED BY <3>1 DEF Fetched
  <2>5. ASSUME NEW d \in devices'
        PROVE  /\ LoadedFirst(sync[s], d)' <=>
                    /\ r.kind = "page" /\ r.todo = <<"fetch", "map", "save">> =>
                         Fits(r.bytes[d], r.baseline[d], T!SumOf(raw', live', d), T!SumOf(raw', live', d), used'[d], restarts')
                    /\ r.kind = "page" /\ r.todo = <<"map", "save">> /\ T!SumOf(r.fetched, live', d) > 0 =>
                         Fits(r.bytes[d], r.baseline[d], T!SumOf(r.fetched, live', d), T!SumOf(raw', live', d), used'[d], restarts')
               /\ FetchedFirst(sync[s], d)' <=>
                    /\ r.kind = "cron" /\ r.todo = <<"map", "load", "save">> /\ T!SumOf(r.fetched, live', d) > 0 =>
                         Fits(bytes[d], baseline[d], T!SumOf(r.fetched, live', d), T!SumOf(raw', live', d), used'[d], restarts')
                    /\ r.kind = "cron" /\ r.todo = <<"load", "save">> /\ r.sum[d] > 0 =>
                         Fits(bytes[d], baseline[d], r.sum[d], T!SumOf(raw', live', d), used'[d], restarts')
               /\ ReadyToSave(sync[s], d)' <=>
                    (r.todo = <<"save">> /\ r.sum[d] > 0 =>
                       Fits(r.bytes[d], r.baseline[d], r.sum[d], T!SumOf(raw', live', d), used'[d], restarts'))
    BY <2>1 DEF LoadedFirst, FetchedFirst, ReadyToSave, Now, Fetched
  <2>6. sync'[s].kind # "reset"
    BY <2>1, <2>2
  <2> QED BY <2>3, <2>4, <2>5, <2>6 DEF SyncFits
<1> QED BY <1>3, <1>4

LEMMA UseInv == ASSUME T!TrafficAssumption, TrafficInv, NEW k \in T!Credentials, T!Use(k) PROVE TrafficInv'
<1>1. /\ raw \in Counters /\ used \in Sums /\ sent \in 0 .. MaxTraffic /\ restarts \in Nat
      /\ \A c \in T!Credentials : raw[c] <= sent
  BY DEF TrafficInv, TrafficTypes, T!TrafficAssumption
<1>2. k[1] \in Devices
  BY DEF T!Credentials
<1>3. raw' \in Counters /\ used' \in Sums
  BY <1>1, <1>2 DEF T!Use, Counters, Sums
<1>4. sent' \in 0 .. MaxTraffic /\ \A c \in T!Credentials : raw'[c] <= sent'
  BY <1>1 DEF T!Use, Counters, T!TrafficAssumption
<1>5. TrafficTypes'
  BY <1>3, <1>4 DEF TrafficInv, TrafficTypes, T!Use
<1>6. raw[k] < MaxTraffic /\ raw' = [raw EXCEPT ![k] = @ + 1] /\ live' = live /\ TrafficTypes
  BY <1>1 DEF T!Use, Counters, T!TrafficAssumption, TrafficInv
<1>7. ASSUME NEW d \in Devices
      PROVE  /\ Now(d) \in Nat /\ used[d] \in Nat
             /\ \/ T!SumOf(raw', live', d) = Now(d) + 1 /\ used'[d] = used[d] + 1
                \/ T!SumOf(raw', live', d) = Now(d) /\ used'[d] = used[d]
  <2>1. T!SumOf(raw', live', d) = IF k \in live /\ k[1] = d THEN Now(d) + 1 ELSE Now(d)
    BY <1>6, OneMore
  <2>2. used'[d] = IF k \in live /\ k[1] = d THEN used[d] + 1 ELSE used[d]
    BY <1>1, <1>2 DEF T!Use, Sums
  <2>3. Now(d) \in Nat /\ used[d] \in Nat
    BY <1>1, UnitsFinite DEF Now, Sums
  <2> QED BY <2>1, <2>2, <2>3
<1>8. restarts' = restarts /\ devices' = devices /\ devices \subseteq Devices
  BY DEF T!Use, TrafficInv, TrafficTypes
<1>9. \A d \in devices' : \A b \in Nat : \A base \in Nat : \A sum \in Nat :
        Fits(b, base, sum, Now(d), used[d], restarts) =>
          Fits(b, base, sum, T!SumOf(raw', live', d), used'[d], restarts')
  <2> SUFFICES ASSUME NEW d \in devices', NEW b \in Nat, NEW base \in Nat, NEW sum \in Nat,
                      Fits(b, base, sum, Now(d), used[d], restarts)
               PROVE  Fits(b, base, sum, T!SumOf(raw', live', d), used'[d], restarts')
    OBVIOUS
  <2>1. d \in Devices
    BY <1>8
  <2>2. Fits(b, base, sum, Now(d) + 1, used[d] + 1, restarts)
    BY <1>1, <1>7, <2>1, FitsMore
  <2> QED BY <1>7, <1>8, <2>1, <2>2
<1>10. \A d \in devices' : \A b \in Nat : \A base \in Nat :
        Fits(b, base, Now(d), Now(d), used[d], restarts) =>
          Fits(b, base, T!SumOf(raw', live', d), T!SumOf(raw', live', d), used'[d], restarts')
  <2> SUFFICES ASSUME NEW d \in devices', NEW b \in Nat, NEW base \in Nat,
                      Fits(b, base, Now(d), Now(d), used[d], restarts)
               PROVE  Fits(b, base, T!SumOf(raw', live', d), T!SumOf(raw', live', d), used'[d], restarts')
    OBVIOUS
  <2>1. d \in Devices
    BY <1>8
  <2>2. Fits(b, base, Now(d) + 1, Now(d) + 1, used[d] + 1, restarts)
    BY <1>1, <1>7, <2>1, FitsNow
  <2> QED BY <1>7, <1>8, <2>1, <2>2
<1>11. UNCHANGED <<bytes, baseline, sync>> /\ disturbed' = disturbed
  BY DEF T!Use
<1>12. Undisturbed'
  BY <1>5, <1>6, <1>8, <1>9, <1>10, <1>11, WorldStep
<1> QED BY <1>5, <1>12 DEF TrafficInv

LEMMA RestartInv == ASSUME T!TrafficAssumption, TrafficInv, T!Restart PROVE TrafficInv'
<1>1. /\ restarts \in 0 .. MaxRestarts /\ restarts \in Nat /\ sent \in 0 .. MaxTraffic
      /\ used \in Sums /\ devices \subseteq Devices
  BY DEF TrafficInv, TrafficTypes, T!TrafficAssumption
<1>2. restarts' = restarts + 1 /\ restarts' \in 0 .. MaxRestarts
  BY <1>1 DEF T!Restart, T!TrafficAssumption
<1>3. raw' \in Counters /\ \A c \in T!Credentials : raw'[c] <= sent'
  BY <1>1, IdleType DEF T!Restart, T!NoCounters
<1>4. TrafficTypes'
  BY <1>2, <1>3 DEF TrafficInv, TrafficTypes, T!Restart
<1>5. ASSUME NEW d \in Devices
      PROVE  T!SumOf(raw', live', d) = 0 /\ Now(d) \in Nat /\ used[d] \in Nat /\ used' = used
  BY <1>1, NothingCounted, UnitsFinite DEF T!Restart, Now, Sums
<1>6. \A d \in devices' : \A b \in Nat : \A base \in Nat : \A sum \in Nat :
        Fits(b, base, sum, Now(d), used[d], restarts) =>
          Fits(b, base, sum, T!SumOf(raw', live', d), used'[d], restarts')
  <2> SUFFICES ASSUME NEW d \in devices', NEW b \in Nat, NEW base \in Nat, NEW sum \in Nat,
                      Fits(b, base, sum, Now(d), used[d], restarts)
               PROVE  Fits(b, base, sum, T!SumOf(raw', live', d), used'[d], restarts')
    OBVIOUS
  <2>1. d \in Devices
    BY <1>1 DEF T!Restart
  <2>2. Fits(b, base, sum, 0, used[d], restarts + 1)
    BY <1>1, <1>5, <2>1, FitsRestart
  <2> QED BY <1>2, <1>5, <2>1, <2>2
<1>7. \A d \in devices' : \A b \in Nat : \A base \in Nat :
        Fits(b, base, Now(d), Now(d), used[d], restarts) =>
          Fits(b, base, T!SumOf(raw', live', d), T!SumOf(raw', live', d), used'[d], restarts')
  <2> SUFFICES ASSUME NEW d \in devices', NEW b \in Nat, NEW base \in Nat,
                      Fits(b, base, Now(d), Now(d), used[d], restarts)
               PROVE  Fits(b, base, T!SumOf(raw', live', d), T!SumOf(raw', live', d), used'[d], restarts')
    OBVIOUS
  <2>1. d \in Devices
    BY <1>1 DEF T!Restart
  <2>2. Fits(b, base, 0, 0, used[d], restarts + 1)
    BY <1>1, <1>5, <2>1, FitsRestart
  <2> QED BY <1>2, <1>5, <2>1, <2>2
<1>8. UNCHANGED <<bytes, baseline, sync, devices, live>> /\ disturbed' = disturbed
  BY DEF T!Restart
<1>9. Undisturbed'
  BY <1>4, <1>6, <1>7, <1>8, WorldStep
<1> QED BY <1>4, <1>9 DEF TrafficInv

LEMMA DeleteInv ==
  ASSUME T!TrafficAssumption, TrafficInv, NEW d \in Devices, T!DeleteDevice(d) PROVE TrafficInv'
<1>1. changes' \in 0 .. MaxChanges
  BY DEF TrafficInv, TrafficTypes, T!TrafficAssumption, T!DeleteDevice
<1>2. TrafficTypes'
  BY <1>1 DEF TrafficInv, TrafficTypes, T!DeleteDevice
<1>3. ASSUME NEW e \in devices', NEW x \in Counters
      PROVE  T!SumOf(x, live', e) = T!SumOf(x, live, e)
  <2>1. e # d /\ live' = {k \in live : k[1] # d}
    BY DEF T!DeleteDevice
  <2>2. \A k \in T!Credentials : k[1] = e /\ x[k] # 0 => (k \in live' <=> k \in live)
    BY <2>1
  <2> QED BY <2>2, SameSum
<1>4. ASSUME NEW e \in devices'
      PROVE  T!SumOf(raw', live', e) = Now(e) /\ used' = used /\ restarts' = restarts
  BY <1>3 DEF T!DeleteDevice, Now, TrafficInv, TrafficTypes
<1>5. UNCHANGED <<bytes, baseline, sync>> /\ devices' \subseteq devices /\ disturbed' = disturbed
  BY DEF T!DeleteDevice
<1>6. Undisturbed'
  BY <1>2, <1>3, <1>4, <1>5, WorldStep
<1> QED BY <1>2, <1>6 DEF TrafficInv

LEMMA ChangeInv ==
  ASSUME T!TrafficAssumption, TrafficInv, NEW k \in T!Credentials, T!ChangeCredential(k) PROVE TrafficInv'
<1>1. changes' \in 0 .. MaxChanges
  BY DEF TrafficInv, TrafficTypes, T!TrafficAssumption, T!ChangeCredential
<1>2. disturbed' \in BOOLEAN
  BY DEF TrafficInv, TrafficTypes, T!ChangeCredential
<1>3. live' \subseteq T!Credentials
  BY DEF TrafficInv, TrafficTypes, T!ChangeCredential
<1>4. TrafficTypes'
  BY <1>1, <1>2, <1>3 DEF TrafficInv, TrafficTypes, T!ChangeCredential
<1>5. ASSUME ~ disturbed' PROVE RowFits' /\ \A s \in Syncs : SyncFits(sync[s])'
  <2>1. ~ disturbed /\ raw[k] = 0 /\ T!Running = {} /\ raw \in Counters
    <3>1. ~ disturbed /\ ~ (raw[k] > 0) /\ T!Running = {}
      BY <1>5, Zenon DEF T!ChangeCredential
    <3>2. raw \in Counters
      BY DEF TrafficInv, TrafficTypes
    <3> QED BY <3>1, <3>2 DEF Counters
  <2>2. ASSUME NEW s \in Syncs PROVE sync'[s] = T!Idle
    BY <2>1 DEF T!Running, T!ChangeCredential, TrafficInv, TrafficTypes, WellFormed
  <2>3. ASSUME NEW s \in Syncs PROVE SyncFits(sync[s])'
    BY <2>2, IdleFits DEF SyncFits, LoadedFirst, FetchedFirst, ReadyToSave, Fetched, Now
  <2>4. ASSUME NEW d \in devices PROVE T!SumOf(raw, live', d) = Now(d)
    <3>1. \A c \in T!Credentials : c[1] = d /\ raw[c] # 0 => (c \in live' <=> c \in live)
      BY <2>1 DEF T!ChangeCredential
    <3> QED BY <2>1, <3>1, SameSum DEF Now
  <2>5. RowFits /\ UNCHANGED <<bytes, baseline, devices, raw, used, restarts>>
    BY <2>1 DEF TrafficInv, Undisturbed, T!ChangeCredential
  <2>6. RowFits'
    BY <2>4, <2>5 DEF RowFits, Now
  <2> QED BY <2>3, <2>6
<1> QED BY <1>4, <1>5 DEF TrafficInv, Undisturbed

-----------------------------------------------------------------------------
(* Steps of the transactions                                               *)

\* A step of one transaction that writes no row: what it holds must fit.
LEMMA SyncStep ==
  ASSUME TrafficInv, NEW s \in Syncs, NEW r, WellFormed(r), r.kind # "reset" \/ disturbed',
         sync' = [sync EXCEPT ![s] = r],
         UNCHANGED <<bytes, baseline, devices, T!world>>, disturbed' \in BOOLEAN,
         changes' \in 0 .. MaxChanges, ~ disturbed' => ~ disturbed,
         ~ disturbed' =>
           \A d \in devices : LoadedFirst(r, d) /\ FetchedFirst(r, d) /\ ReadyToSave(r, d)
  PROVE  TrafficInv'
<1>1. sync \in [Syncs -> SyncRecords] /\ r \in SyncRecords
  BY DEF TrafficInv, TrafficTypes, WellFormed
<1>2. sync' \in [Syncs -> SyncRecords] /\ \A t \in Syncs : WellFormed(sync'[t])
  BY <1>1 DEF TrafficInv, TrafficTypes
<1>3. TrafficTypes'
  BY <1>2 DEF TrafficInv, TrafficTypes, T!world
<1>4. ASSUME ~ disturbed' PROVE RowFits' /\ \A t \in Syncs : SyncFits(sync[t])'
  <2>1. RowFits /\ (\A t \in Syncs : SyncFits(sync[t])) /\ r.kind # "reset"
    BY <1>4 DEF TrafficInv, Undisturbed
  <2>2. RowFits'
    BY <2>1 DEF RowFits, Now, T!world
  <2>3. \A d \in devices : LoadedFirst(r, d) /\ FetchedFirst(r, d) /\ ReadyToSave(r, d)
    BY <1>4
  <2>4. SyncFits(r)
    BY <2>1, <2>3 DEF SyncFits
  <2>5. ASSUME NEW t \in Syncs PROVE SyncFits(sync[t])'
    <3>1. PICK q : q = sync'[t]
      OBVIOUS
    <3>2. SyncFits(q)
      <4>1. CASE t = s
        BY <1>1, <2>4, <3>1, <4>1
      <4>2. CASE t # s
        BY <1>1, <2>1, <3>1, <4>2
      <4> QED BY <4>1, <4>2
    <3>3. UNCHANGED <<bytes, baseline, devices, raw, live, used, restarts>>
      BY DEF T!world
    <3>4. SyncFits(sync[t])'
      BY <3>1, <3>2, <3>3 DEF SyncFits, LoadedFirst, FetchedFirst, ReadyToSave, Now, Fetched
    <3> QED BY <3>4
  <2> QED BY <2>2, <2>5
<1> QED BY <1>3, <1>4 DEF TrafficInv, Undisturbed

LEMMA BeginInv ==
  ASSUME T!TrafficAssumption, TrafficInv, NEW s \in Syncs, NEW mode \in {"cron", "page", "reset"}, T!Begin(s, mode)
  PROVE  TrafficInv'
<1> DEFINE r == [T!Idle EXCEPT !.kind = mode, !.todo = T!Program[mode]]
<1>1. r.kind = mode /\ r.todo = T!Program[mode] /\ r \in [kind : {mode}, todo : {T!Program[mode]},
        fetched : Counters, sum : Sums, listed : SUBSET Devices, bytes : Sums, baseline : Sums]
  BY IdleType DEF T!Idle
<1>2. T!Program[mode] \in Todo[mode] /\ T!Program[mode] # <<>>
      /\ T!Program[mode] # <<"save">> /\ T!Program[mode] # <<"fetch", "map", "save">>
      /\ T!Program[mode] # <<"map", "save">> /\ T!Program[mode] # <<"map", "load", "save">>
      /\ (mode = "cron" => T!Program[mode] # <<"load", "save">>)
  BY DEF T!Program, Todo
<1>3. T!Program[mode] \in Plans
  BY <1>2 DEF Plans
<1>4. r \in SyncRecords
  BY <1>1, <1>3 DEF SyncRecords
<1>5. sync' = [sync EXCEPT ![s] = r]
  BY DEF T!Begin
<1> HIDE DEF r
<1>6. WellFormed(r)
  BY <1>1, <1>2, <1>4 DEF WellFormed, T!Idle, r
<1>7. \A d \in devices : LoadedFirst(r, d) /\ FetchedFirst(r, d) /\ ReadyToSave(r, d)
  BY <1>1, <1>2 DEF LoadedFirst, FetchedFirst, ReadyToSave
<1>8. disturbed' \in BOOLEAN /\ (~ disturbed' => ~ disturbed) /\ (mode # "reset" \/ disturbed')
  BY DEF T!Begin, TrafficInv, TrafficTypes
<1>9. changes' \in 0 .. MaxChanges
  BY DEF T!Begin, TrafficInv, TrafficTypes, T!TrafficAssumption
<1>10. UNCHANGED <<bytes, baseline, devices, T!world>>
  BY DEF T!Begin
<1> QED BY <1>1, <1>5, <1>6, <1>7, <1>8, <1>9, <1>10, SyncStep

\* A transaction ends.
LEMMA EndStep ==
  ASSUME TrafficInv, NEW s \in Syncs, sync' = [sync EXCEPT ![s] = T!Idle],
         UNCHANGED <<bytes, baseline, devices, T!world, disturbed, changes>>
  PROVE  TrafficInv'
<1>1. disturbed' \in BOOLEAN /\ (~ disturbed' => ~ disturbed)
  BY DEF TrafficInv, TrafficTypes
<1>2. changes' \in 0 .. MaxChanges
  BY DEF TrafficInv, TrafficTypes
<1>3. \A d \in devices : LoadedFirst(T!Idle, d) /\ FetchedFirst(T!Idle, d) /\ ReadyToSave(T!Idle, d)
  BY IdleFits DEF SyncFits
<1>4. WellFormed(T!Idle) /\ T!Idle.kind # "reset"
  BY IdleType
<1> QED BY <1>1, <1>2, <1>3, <1>4, SyncStep

LEMMA SaveFailsInv == ASSUME TrafficInv, NEW s \in Syncs, T!SaveFails(s) PROVE TrafficInv'
BY EndStep DEF T!SaveFails, T!End

\* What a step of a transaction leaves, when it goes on.
Onward(q, todo) == [q EXCEPT !.todo = T!Tail(todo)]

LEMMA Going ==
  ASSUME TrafficInv, NEW s \in Syncs, NEW at, NEW q, T!Step(s, at, q), at # "save",
         q \in SyncRecords, q.kind = sync[s].kind,
         q.fetched = T!NoCounters \/ T!Tail(sync[s].todo) \in {<<"map", "load", "save">>, <<"map", "save">>}
  PROVE  /\ sync' = [sync EXCEPT ![s] = Onward(q, sync[s].todo)]
         /\ WellFormed(Onward(q, sync[s].todo))
         /\ Onward(q, sync[s].todo).kind = sync[s].kind
         /\ Onward(q, sync[s].todo).todo = T!Tail(sync[s].todo)
         /\ Onward(q, sync[s].todo).fetched = q.fetched
         /\ Onward(q, sync[s].todo).sum = q.sum
         /\ Onward(q, sync[s].todo).bytes = q.bytes
         /\ Onward(q, sync[s].todo).baseline = q.baseline
<1> DEFINE r == Onward(q, sync[s].todo)
<1>1. WellFormed(sync[s]) /\ sync[s].todo # <<>> /\ T!Head(sync[s].todo) = at
  BY DEF TrafficInv, TrafficTypes, T!Step
<1>2. sync[s].kind \in {"cron", "page", "reset"} /\ T!Tail(sync[s].todo) \in Todo[sync[s].kind]
  BY <1>1, NextSteps
<1>3. T!Tail(sync[s].todo) \in Plans /\ T!Tail(sync[s].todo) # <<>>
  BY <1>2, Later
<1>4. /\ r \in SyncRecords /\ r.kind = sync[s].kind /\ r.todo = T!Tail(sync[s].todo)
      /\ r.fetched = q.fetched /\ r.sum = q.sum /\ r.bytes = q.bytes /\ r.baseline = q.baseline
  BY <1>3 DEF SyncRecords, Onward
<1>5. sync' = [sync EXCEPT ![s] = r]
  BY DEF T!Step, Onward
<1> HIDE DEF r
<1>6. r.todo \notin {<<"map", "load", "save">>, <<"map", "save">>} => r.fetched = T!NoCounters
  BY <1>4
<1>7. WellFormed(r)
  BY <1>2, <1>3, <1>4, <1>6 DEF WellFormed
<1> QED BY <1>4, <1>5, <1>7 DEF r


\* What a transaction that is not a reset has, while nobody has disturbed it.
LEMMA Held ==
  ASSUME TrafficInv, NEW s \in Syncs, ~ disturbed, NEW d \in devices
  PROVE  /\ sync[s].kind # "reset"
         /\ LoadedFirst(sync[s], d) /\ FetchedFirst(sync[s], d) /\ ReadyToSave(sync[s], d)
         /\ Fits(bytes[d], baseline[d], Now(d), Now(d), used[d], restarts)
BY DEF TrafficInv, Undisturbed, SyncFits, RowFits

LEMMA NoReset ==
  ASSUME TrafficInv, NEW s \in Syncs, ~ disturbed PROVE sync[s].kind # "reset"
BY DEF TrafficInv, Undisturbed, SyncFits

LEMMA FetchInv == ASSUME T!TrafficAssumption, TrafficInv, NEW s \in Syncs, T!Fetch(s) PROVE TrafficInv'
<1> DEFINE q == [sync[s] EXCEPT !.fetched = raw]
           r == Onward(q, sync[s].todo)
<1>1. sync[s] \in SyncRecords /\ WellFormed(sync[s]) /\ raw \in Counters
  BY DEF TrafficInv, TrafficTypes
<1>2. q \in SyncRecords /\ q.kind = sync[s].kind /\ q.fetched = raw
      /\ q.bytes = sync[s].bytes /\ q.baseline = sync[s].baseline
  BY <1>1 DEF SyncRecords
<1>3. T!Step(s, "fetch", q) /\ UNCHANGED <<bytes, baseline, devices, T!world, disturbed, changes>>
  BY DEF T!Fetch
<1> HIDE DEF q
<1>4. /\ sync' = [sync EXCEPT ![s] = r] /\ WellFormed(r)
      /\ r.kind = sync[s].kind /\ r.todo = T!Tail(sync[s].todo) /\ r.fetched = raw
      /\ r.bytes = sync[s].bytes /\ r.baseline = sync[s].baseline
  <2>1. T!Tail(sync[s].todo) \in {<<"map", "load", "save">>, <<"map", "save">>}
    BY <1>1, <1>3, NextSteps DEF T!Step
  <2> QED BY <1>2, <1>3, <2>1, Going
<1> HIDE DEF r
<1>5. \/ r.kind = "cron" /\ r.todo = <<"map", "load", "save">>
      \/ r.kind = "page" /\ sync[s].todo = <<"fetch", "map", "save">> /\ r.todo = <<"map", "save">>
  BY <1>1, <1>3, <1>4, NextSteps DEF T!Step
<1>6. ASSUME ~ disturbed, NEW d \in devices
      PROVE  LoadedFirst(r, d) /\ FetchedFirst(r, d) /\ ReadyToSave(r, d)
  <2>1. Fetched(r, d) = Now(d)
    BY <1>4 DEF Fetched, Now
  <2>2. /\ LoadedFirst(sync[s], d)
        /\ Fits(bytes[d], baseline[d], Now(d), Now(d), used[d], restarts)
    BY <1>6, Held
  <2>3. ReadyToSave(r, d)
    BY <1>5 DEF ReadyToSave
  <2>4. FetchedFirst(r, d)
    BY <1>5, <2>1, <2>2 DEF FetchedFirst
  <2>5. LoadedFirst(r, d)
    BY <1>4, <1>5, <2>1, <2>2 DEF LoadedFirst
  <2> QED BY <2>3, <2>4, <2>5
<1>7. disturbed' \in BOOLEAN /\ (~ disturbed' => ~ disturbed) /\ changes' \in 0 .. MaxChanges
  BY <1>3 DEF TrafficInv, TrafficTypes
<1>8. r.kind # "reset"
  BY <1>5
<1> QED BY <1>3, <1>4, <1>6, <1>7, <1>8, SyncStep

LEMMA FetchNothingInv ==
  ASSUME T!TrafficAssumption, TrafficInv, NEW s \in Syncs, T!FetchNothing(s) PROVE TrafficInv'
<1>1. CASE sync[s].kind = "cron"
  BY <1>1, EndStep DEF T!FetchNothing, T!End
<1>2. CASE sync[s].kind # "cron"
  <2> DEFINE r == Onward(sync[s], sync[s].todo)
  <2>1. sync[s] \in SyncRecords /\ WellFormed(sync[s])
    BY DEF TrafficInv, TrafficTypes
  <2>2. T!Step(s, "fetch", sync[s]) /\ UNCHANGED <<bytes, baseline, devices, T!world, disturbed, changes>>
    BY <1>2 DEF T!FetchNothing
  <2>3. /\ sync' = [sync EXCEPT ![s] = r] /\ WellFormed(r)
        /\ r.kind = sync[s].kind /\ r.todo = T!Tail(sync[s].todo) /\ r.fetched = sync[s].fetched
    <3>1. T!Tail(sync[s].todo) \in {<<"map", "load", "save">>, <<"map", "save">>}
      BY <2>1, <2>2, NextSteps DEF T!Step
    <3> QED BY <2>1, <2>2, <3>1, Going
  <2> HIDE DEF r
  <2>4. r.kind = "page" /\ sync[s].todo = <<"fetch", "map", "save">> /\ r.todo = <<"map", "save">>
    BY <1>2, <2>1, <2>2, <2>3, NextSteps DEF T!Step
  <2>5. r.fetched = T!NoCounters
    <3>1. sync[s].todo \notin {<<"map", "load", "save">>, <<"map", "save">>}
      BY <2>4
    <3> QED BY <2>1, <2>3, <3>1 DEF WellFormed
  <2>6. ASSUME NEW d \in devices PROVE LoadedFirst(r, d) /\ FetchedFirst(r, d) /\ ReadyToSave(r, d)
    <3>1. Fetched(r, d) = 0
      BY <2>5, NothingCounted DEF Fetched
    <3> QED BY <2>4, <3>1 DEF LoadedFirst, FetchedFirst, ReadyToSave
  <2>7. disturbed' \in BOOLEAN /\ (~ disturbed' => ~ disturbed) /\ changes' \in 0 .. MaxChanges
    BY <2>2 DEF TrafficInv, TrafficTypes
  <2>8. r.kind # "reset"
    BY <2>4
  <2> QED BY <2>2, <2>3, <2>6, <2>7, <2>8, SyncStep
<1> QED BY <1>1, <1>2

LEMMA ReadMapInv == ASSUME T!TrafficAssumption, TrafficInv, NEW s \in Syncs, T!ReadMap(s) PROVE TrafficInv'
<1> DEFINE sums == [d \in Devices |-> T!SumOf(sync[s].fetched, live, d)]
           q == [sync[s] EXCEPT !.fetched = T!NoCounters, !.sum = sums]
           r == Onward(q, sync[s].todo)
<1>1. sync[s] \in SyncRecords /\ WellFormed(sync[s]) /\ sums \in Sums
  BY UnitsFinite DEF TrafficInv, TrafficTypes, Sums
<1>2. \A d \in Devices : sums[d] = Fetched(sync[s], d)
  BY DEF Fetched
<1>3. T!Step(s, "map", q) /\ UNCHANGED <<bytes, baseline, devices, T!world, disturbed, changes>>
  BY DEF T!ReadMap
<1> HIDE DEF sums
<1>4. q \in SyncRecords /\ q.kind = sync[s].kind /\ q.fetched = T!NoCounters /\ q.sum = sums
      /\ q.bytes = sync[s].bytes /\ q.baseline = sync[s].baseline
  BY <1>1, IdleType DEF SyncRecords
<1> HIDE DEF q
<1>5. /\ sync' = [sync EXCEPT ![s] = r] /\ WellFormed(r)
      /\ r.kind = sync[s].kind /\ r.todo = T!Tail(sync[s].todo) /\ r.sum = sums
      /\ r.bytes = sync[s].bytes /\ r.baseline = sync[s].baseline
  BY <1>3, <1>4, Going
<1> HIDE DEF r
<1>6. \/ r.kind = "cron" /\ sync[s].todo = <<"map", "load", "save">> /\ r.todo = <<"load", "save">>
      \/ r.kind = "page" /\ sync[s].todo = <<"map", "save">> /\ r.todo = <<"save">>
  BY <1>1, <1>3, <1>5, NextSteps DEF T!Step
<1>7. ASSUME ~ disturbed, NEW d \in devices
      PROVE  LoadedFirst(r, d) /\ FetchedFirst(r, d) /\ ReadyToSave(r, d)
  <2>1. r.sum[d] = Fetched(sync[s], d)
    BY <1>2, <1>5 DEF TrafficInv, TrafficTypes
  <2>2. LoadedFirst(sync[s], d) /\ FetchedFirst(sync[s], d)
    BY <1>7, Held
  <2>3. LoadedFirst(r, d)
    BY <1>6 DEF LoadedFirst
  <2>4. FetchedFirst(r, d)
    BY <1>5, <1>6, <2>1, <2>2 DEF FetchedFirst
  <2>5. ReadyToSave(r, d)
    BY <1>5, <1>6, <2>1, <2>2 DEF ReadyToSave, LoadedFirst
  <2> QED BY <2>3, <2>4, <2>5
<1>8. disturbed' \in BOOLEAN /\ (~ disturbed' => ~ disturbed) /\ changes' \in 0 .. MaxChanges
  BY <1>3 DEF TrafficInv, TrafficTypes
<1>9. r.kind # "reset"
  BY <1>6
<1> QED BY <1>3, <1>5, <1>7, <1>8, <1>9, SyncStep

LEMMA LoadInv == ASSUME T!TrafficAssumption, TrafficInv, NEW s \in Syncs, T!Load(s) PROVE TrafficInv'
<1> DEFINE q == [sync[s] EXCEPT !.listed = devices, !.bytes = bytes, !.baseline = baseline]
           r == Onward(q, sync[s].todo)
<1>1. sync[s] \in SyncRecords /\ WellFormed(sync[s])
      /\ devices \in SUBSET Devices /\ bytes \in Sums /\ baseline \in Sums
  BY DEF TrafficInv, TrafficTypes
<1>2. q \in SyncRecords /\ q.kind = sync[s].kind /\ q.fetched = sync[s].fetched
      /\ q.sum = sync[s].sum /\ q.bytes = bytes /\ q.baseline = baseline
  BY <1>1 DEF SyncRecords
<1>3. T!Step(s, "load", q) /\ UNCHANGED <<bytes, baseline, devices, T!world, disturbed, changes>>
  BY DEF T!Load
<1> HIDE DEF q
<1>4. sync[s].todo \notin {<<"map", "load", "save">>, <<"map", "save">>}
  BY <1>3 DEF T!Step
<1>5. q.fetched = T!NoCounters
  BY <1>1, <1>2, <1>4 DEF WellFormed
<1>6. /\ sync' = [sync EXCEPT ![s] = r] /\ WellFormed(r)
      /\ r.kind = sync[s].kind /\ r.todo = T!Tail(sync[s].todo) /\ r.sum = sync[s].sum
      /\ r.bytes = bytes /\ r.baseline = baseline
  BY <1>2, <1>3, <1>5, Going
<1> HIDE DEF r
<1>7. \/ r.kind = "cron" /\ sync[s].todo = <<"load", "save">> /\ r.todo = <<"save">>
      \/ r.kind = "page" /\ r.todo = <<"fetch", "map", "save">>
      \/ r.kind = "reset"
  BY <1>1, <1>3, <1>6, NextSteps DEF T!Step
<1>8. ASSUME ~ disturbed, NEW d \in devices
      PROVE  LoadedFirst(r, d) /\ FetchedFirst(r, d) /\ ReadyToSave(r, d)
  <2>1. /\ sync[s].kind # "reset" /\ FetchedFirst(sync[s], d)
        /\ Fits(bytes[d], baseline[d], Now(d), Now(d), used[d], restarts)
    BY <1>8, Held
  <2>2. FetchedFirst(r, d)
    BY <1>6, <1>7, <2>1 DEF FetchedFirst
  <2>3. LoadedFirst(r, d)
    BY <1>6, <1>7, <2>1 DEF LoadedFirst
  <2>4. ReadyToSave(r, d)
    BY <1>6, <1>7, <2>1 DEF ReadyToSave, FetchedFirst
  <2> QED BY <2>2, <2>3, <2>4
<1>9. disturbed' \in BOOLEAN /\ (~ disturbed' => ~ disturbed) /\ changes' \in 0 .. MaxChanges
  BY <1>3 DEF TrafficInv, TrafficTypes
<1>10. r.kind # "reset" \/ disturbed'
  BY <1>3, <1>6, NoReset
<1> QED BY <1>3, <1>6, <1>8, <1>9, <1>10, SyncStep

\* A device that is written gets both columns, from what the transaction has loaded.
LEMMA Saved ==
  ASSUME TrafficInv, NEW s \in Syncs, T!Save(s), sync[s].kind # "reset", NEW d \in Devices
  PROVE  \/ bytes'[d] = bytes[d] /\ baseline'[d] = baseline[d]
         \/ /\ sync[s].sum[d] > 0
            /\ bytes'[d] = sync[s].bytes[d] + T!CalcDelta(sync[s].sum[d], sync[s].baseline[d])
            /\ baseline'[d] = sync[s].sum[d]
<1> DEFINE r == sync[s]
<1>1. r \in SyncRecords /\ bytes \in Sums /\ baseline \in Sums
  BY DEF TrafficInv, TrafficTypes
<1>2. r.sum[d] \in Nat /\ r.bytes[d] \in Nat /\ r.baseline[d] \in Nat
  BY <1>1 DEF SyncRecords, Sums
<1>3. T!CalcDelta(r.sum[d], r.baseline[d]) \in Nat
      /\ (r.sum[d] > 0 /\ r.sum[d] # r.baseline[d] => T!CalcDelta(r.sum[d], r.baseline[d]) > 0)
      /\ (r.sum[d] = r.baseline[d] => T!CalcDelta(r.sum[d], r.baseline[d]) = 0)
  BY <1>2, GrowthType DEF T!CalcDelta
<1>4. /\ bytes'[d] = IF d \in T!Written(r) THEN T!Unless(T!NewBytes(r, d), r.bytes[d], bytes[d]) ELSE bytes[d]
      /\ baseline'[d] = IF d \in T!Written(r)
                          THEN T!Unless(T!NewBaseline(r, d), r.baseline[d], baseline[d]) ELSE baseline[d]
  BY DEF T!Save
<1>5. T!NewBytes(r, d) = r.bytes[d] + T!CalcDelta(r.sum[d], r.baseline[d]) /\ T!NewBaseline(r, d) = r.sum[d]
  BY DEF T!NewBytes, T!NewBaseline
<1>6. CASE d \in T!Written(r)
  <2>1. r.sum[d] > 0 /\ (T!NewBytes(r, d) # r.bytes[d] \/ T!NewBaseline(r, d) # r.baseline[d])
    BY <1>6 DEF T!Written, T!Counted
  <2>2. T!NewBytes(r, d) # r.bytes[d] /\ T!NewBaseline(r, d) # r.baseline[d]
    BY <1>2, <1>3, <1>5, <2>1
  <2> QED BY <1>4, <1>5, <1>6, <2>1, <2>2 DEF T!Unless
<1>7. CASE d \notin T!Written(r)
  BY <1>4, <1>7
<1> QED BY <1>6, <1>7

\* The columns stay numbers of bytes.
LEMMA SavedType ==
  ASSUME TrafficInv, NEW s \in Syncs, T!Save(s) PROVE bytes' \in Sums /\ baseline' \in Sums
<1> DEFINE r == sync[s]
<1>1. r \in SyncRecords /\ bytes \in Sums /\ baseline \in Sums
  BY DEF TrafficInv, TrafficTypes
<1>2. ASSUME NEW d \in Devices
      PROVE  /\ bytes[d] \in Nat /\ baseline[d] \in Nat
             /\ T!NewBytes(r, d) \in Nat /\ T!NewBaseline(r, d) \in Nat
  <2>1. /\ r.sum[d] \in Nat /\ r.bytes[d] \in Nat /\ r.baseline[d] \in Nat
        /\ bytes[d] \in Nat /\ baseline[d] \in Nat
    BY <1>1 DEF SyncRecords, Sums
  <2>2. T!CalcDelta(r.sum[d], r.baseline[d]) \in Nat
    BY <2>1, GrowthType
  <2> QED BY <2>1, <2>2 DEF T!NewBytes, T!NewBaseline
<1> QED BY <1>2 DEF T!Save, Sums, T!Unless

LEMMA SaveInv == ASSUME T!TrafficAssumption, TrafficInv, NEW s \in Syncs, T!Save(s) PROVE TrafficInv'
<1>1. WellFormed(sync[s]) /\ sync[s] \in SyncRecords /\ devices \subseteq Devices
      /\ sync[s].todo # <<>> /\ T!Head(sync[s].todo) = "save"
      /\ sync \in [Syncs -> SyncRecords] /\ bytes \in Sums /\ baseline \in Sums
      /\ restarts \in 0 .. MaxRestarts /\ used \in Sums
  BY DEF TrafficInv, TrafficTypes, T!Save, T!End
<1>2. sync[s].todo = <<"save">>
  BY <1>1, NextSteps
<1>3. sync' = [sync EXCEPT ![s] = T!Idle] /\ UNCHANGED <<devices, T!world, changes>>
  BY DEF T!Save, T!End
<1>4. disturbed' \in BOOLEAN
  BY DEF T!Save, TrafficInv, TrafficTypes
<1>5. sync' \in [Syncs -> SyncRecords] /\ \A t \in Syncs : WellFormed(sync'[t])
  BY <1>1, <1>3, IdleType DEF TrafficInv, TrafficTypes
<1>6. TrafficTypes'
  BY <1>3, <1>4, <1>5, SavedType DEF TrafficInv, TrafficTypes, T!world
<1>7. ASSUME ~ disturbed' PROVE RowFits' /\ \A t \in Syncs : SyncFits(sync[t])'
  <2>1. ~ disturbed /\ \A t \in T!Running \ {s} : ~ T!Outdated(t)
    BY <1>7, Zenon DEF T!Save
  <2>2. sync[s].kind # "reset"
    BY <2>1, NoReset
  <2>3. ASSUME NEW d \in devices
        PROVE  Fits(bytes'[d], baseline'[d], Now(d), Now(d), used[d], restarts)
    <3>1. ReadyToSave(sync[s], d) /\ Fits(bytes[d], baseline[d], Now(d), Now(d), used[d], restarts)
      BY <2>1, Held
    <3>2. d \in Devices /\ Now(d) \in Nat /\ used[d] \in Nat /\ restarts \in Nat
      BY <1>1, UnitsFinite DEF Now, Sums, T!TrafficAssumption
    <3>3. /\ sync[s].sum[d] \in Nat /\ sync[s].bytes[d] \in Nat /\ sync[s].baseline[d] \in Nat
      BY <1>1, <3>2 DEF SyncRecords, Sums
    <3>4. CASE bytes'[d] = bytes[d] /\ baseline'[d] = baseline[d]
      BY <3>1, <3>4
    <3>5. CASE /\ sync[s].sum[d] > 0
               /\ bytes'[d] = sync[s].bytes[d] + T!CalcDelta(sync[s].sum[d], sync[s].baseline[d])
               /\ baseline'[d] = sync[s].sum[d]
      <4>1. Fits(sync[s].bytes[d], sync[s].baseline[d], sync[s].sum[d], Now(d), used[d], restarts)
        BY <1>2, <3>1, <3>5 DEF ReadyToSave
      <4>2. Fits(sync[s].bytes[d] + T!CalcDelta(sync[s].sum[d], sync[s].baseline[d]),
                 sync[s].sum[d], Now(d), Now(d), used[d], restarts)
        BY <3>2, <3>3, <4>1, FitsSaved
      <4> QED BY <3>5, <4>2
    <3> QED BY <2>2, <3>2, <3>4, <3>5, Saved
  <2>4. RowFits'
    BY <1>3, <2>3 DEF RowFits, Now, T!world
  <2>5. ASSUME NEW t \in Syncs PROVE SyncFits(sync[t])'
    <3>1. CASE t = s
      BY <1>1, <1>3, <3>1, IdleFits DEF SyncFits, LoadedFirst, FetchedFirst, ReadyToSave, Fetched, Now
    <3>2. CASE t # s
      <4>1. PICK q : q = sync[t]
        OBVIOUS
      <4>2. sync'[t] = q /\ q \in SyncRecords
        BY <1>1, <1>3, <3>2, <4>1
      <4>3. SyncFits(q)
        BY <2>1, <4>1 DEF TrafficInv, Undisturbed
      <4>4. q.kind = "cron" => q.todo \notin {<<"map", "load", "save">>, <<"load", "save">>}
        <5>1. q.todo # <<>> => ~ (q.kind = "cron" /\ T!Head(q.todo) \in {"map", "load"})
          BY <2>1, <3>2, <4>1 DEF T!Running, T!Outdated
        <5>2. /\ <<"map", "load", "save">> # <<>> /\ T!Head(<<"map", "load", "save">>) = "map"
              /\ <<"load", "save">> # <<>> /\ T!Head(<<"load", "save">>) = "load"
          OBVIOUS
        <5>3. q.todo = <<"map", "load", "save">> => q.kind # "cron"
          BY <5>1, <5>2, Zenon
        <5>4. q.todo = <<"load", "save">> => q.kind # "cron"
          BY <5>1, <5>2, Zenon
        <5> QED BY <5>3, <5>4, Zenon
      <4>5. UNCHANGED <<devices, raw, live, used, restarts>>
        BY <1>3 DEF T!world
      <4>6. q.kind # "reset" /\ \A d \in devices : LoadedFirst(q, d) /\ ReadyToSave(q, d)
        BY <4>3 DEF SyncFits
      <4>7. \A d \in devices : LoadedFirst(q, d)' /\ ReadyToSave(q, d)'
        BY <4>5, <4>6 DEF LoadedFirst, ReadyToSave, Now, Fetched
      <4>8. \A d \in devices : FetchedFirst(q, d)'
        BY <4>4 DEF FetchedFirst
      <4>9. SyncFits(q)'
        BY <4>5, <4>6, <4>7, <4>8 DEF SyncFits
      <4> QED BY <4>2, <4>9 DEF SyncFits, LoadedFirst, FetchedFirst, ReadyToSave, Fetched, Now
    <3> QED BY <3>1, <3>2
  <2> QED BY <2>4, <2>5
<1> QED BY <1>6, <1>7 DEF TrafficInv, Undisturbed

LEMMA StepInv == T!TrafficAssumption /\ TrafficInv /\ [T!Next]_(T!vars) => TrafficInv'
<1> SUFFICES ASSUME T!TrafficAssumption, TrafficInv, [T!Next]_(T!vars) PROVE TrafficInv'
  OBVIOUS
<1>1. CASE T!Restart
  BY <1>1, RestartInv
<1>2. ASSUME NEW k \in T!Credentials, T!Use(k) \/ T!ChangeCredential(k) PROVE TrafficInv'
  BY <1>2, UseInv, ChangeInv
<1>3. ASSUME NEW d \in Devices, T!DeleteDevice(d) PROVE TrafficInv'
  BY <1>3, DeleteInv
<1>4. ASSUME NEW s \in Syncs, NEW mode \in DOMAIN T!Program, T!Begin(s, mode) PROVE TrafficInv'
  <2>1. mode \in {"cron", "page", "reset"}
    BY <1>4 DEF T!Program
  <2> QED BY <1>4, <2>1, BeginInv
<1>5. ASSUME NEW s \in Syncs,
             T!Fetch(s) \/ T!FetchNothing(s) \/ T!ReadMap(s) \/ T!Load(s) \/ T!Save(s) \/ T!SaveFails(s)
      PROVE  TrafficInv'
  BY <1>5, FetchInv, FetchNothingInv, ReadMapInv, LoadInv, SaveInv, SaveFailsInv
<1>6. CASE UNCHANGED T!vars
  <2>1. UNCHANGED <<bytes, baseline, devices, live, raw, served, used, disturbed,
          sent, restarts, changes, sync>>
    BY <1>6 DEF T!vars
  <2>2. TrafficTypes'
    BY <2>1 DEF TrafficInv, TrafficTypes
  <2>3. RowFits' <=> RowFits
    BY <2>1 DEF RowFits, Now
  <2>4. ASSUME NEW s \in Syncs PROVE SyncFits(sync[s])' <=> SyncFits(sync[s])
    BY <2>1 DEF SyncFits, LoadedFirst, FetchedFirst, ReadyToSave, Fetched, Now
  <2> QED BY <2>1, <2>2, <2>3, <2>4 DEF TrafficInv, Undisturbed
<1> QED BY <1>1, <1>2, <1>3, <1>4, <1>5, <1>6 DEF T!Next

LEMMA TrafficInvariance == ASSUME T!TrafficAssumption PROVE T!Spec => []TrafficInv
<1>1. T!Init => TrafficInv
  BY InitInv
<1>2. TrafficInv /\ [T!Next]_(T!vars) => TrafficInv'
  BY StepInv
<1> QED BY <1>1, <1>2, PTL DEF T!Spec

LEMMA TypesHold == ASSUME TrafficInv PROVE T!TypeOK
<1>1. ASSUME NEW s \in Syncs, sync[s].todo = <<>> PROVE sync[s] = T!Idle
  <2>1. WellFormed(sync[s])
    BY DEF TrafficInv, TrafficTypes
  <2> QED BY <1>1, <2>1 DEF WellFormed
<1> QED BY <1>1 DEF TrafficInv, TrafficTypes, T!TypeOK, Sums, Counters

LEMMA FitsCounted == ASSUME T!TrafficAssumption, TrafficInv PROVE T!CountedWasUsed
<1> SUFFICES ASSUME ~ disturbed, NEW d \in devices
             PROVE  /\ bytes[d] <= used[d]
                    /\ restarts = 0 => bytes[d] + T!SumOf(raw, live, d) = used[d] + baseline[d]
  BY DEF T!CountedWasUsed
<1>1. Fits(bytes[d], baseline[d], Now(d), Now(d), used[d], restarts)
  BY DEF TrafficInv, Undisturbed, RowFits
<1>2. bytes[d] \in Nat /\ baseline[d] \in Nat /\ used[d] \in Nat /\ Now(d) \in Nat
  BY UnitsFinite DEF TrafficInv, TrafficTypes, Sums, Now
<1>3. T!CalcDelta(Now(d), baseline[d]) \in Nat /\ T!CalcDelta(Now(d), Now(d)) \in Nat
  BY <1>2, GrowthType
<1> QED BY <1>1, <1>2, <1>3 DEF Fits, Now


-----------------------------------------------------------------------------
(* Theorems                                                                *)

\* A behaviour of the run is one of the traffic counters, which may stand still.
LEMMA TrafficPart == EitherSpec => T!Spec
<1>1. EitherInit => T!Init
  BY DEF EitherInit
<1>2. [EitherNext]_<<part, vars, traffic>> => [T!Next]_(T!vars)
  BY DEF EitherNext, traffic, T!vars
<1> QED BY <1>1, <1>2, PTL DEF EitherSpec, T!Spec

\* It is one of the subscriptions too, which may stand still.
LEMMA SubscriptionPart == EitherSpec => Spec
<1>1. EitherInit => Init
  BY DEF EitherInit
<1>2. [EitherNext]_<<part, vars, traffic>> => [Next]_vars
  BY DEF EitherNext
<1> QED BY <1>1, <1>2, PTL DEF EitherSpec, Spec

\* Types of the counters and syncs, and of the rows, sessions and their locks.
THEOREM BothTypesHold == EitherSpec => []BothTypeOK
<1>1. T!Spec => []TrafficInv
  BY BytesAssumption, TrafficInvariance
<1>2. TrafficInv /\ TypeOK => BothTypeOK
  BY TypesHold DEF BothTypeOK
<1> QED BY <1>1, <1>2, TrafficPart, SubscriptionPart, TypeCorrect, PTL

\* No byte is counted twice by overlapping syncs of cron and of the panel, in
\* whichever order they read counters and rows, and none is missed but by a restart
\* of Xray, unless resets or changed credentials interfere.
THEOREM Counted == EitherSpec => []CountedWasUsed
<1>1. T!Spec => []TrafficInv
  BY BytesAssumption, TrafficInvariance
<1>2. TrafficInv => CountedWasUsed
  BY BytesAssumption, FitsCounted DEF CountedWasUsed
<1> QED BY <1>1, <1>2, TrafficPart, PTL
===============================================================================
