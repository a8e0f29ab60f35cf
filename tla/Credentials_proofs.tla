--------------------------- MODULE Credentials_proofs ---------------------------
(***************************************************************************)
(* The credentials for every finite set of devices and of requests, every  *)
(* set of configurations and every limit: type correctness, a link works   *)
(* until it is revoked, none works after a reset, overlapping additions    *)
(* exceed the limit by one each at most, and each request is one step of   *)
(* LinkPromise.                                                            *)
(***************************************************************************)
EXTENDS Credentials, FiniteSetTheorems, TLAPS

\* A request that ran beside another knows: it is not quiet.
Quiet ==
  \A s, t \in Sessions : s # t /\ Running(s) /\ Running(t) => ~ sess[s].quiet

Early == {"count", "insert", "revoke", "remove", "devices", "configs", "load"}

\* What a request has loaded and written by the step it is at.
Phase ==
  \A s \in Sessions :
    /\ sess[s].pc = "idle" => sess[s] = Idle
    /\ sess[s].pc \in Early => sess[s].plan = NoRow /\ sess[s].seen = NoRow /\ sess[s].dying = {}
    /\ sess[s].pc \in {"count", "insert"} => sess[s].kind = "add" /\ sess[s].target = 0
    /\ sess[s].pc = "revoke" => sess[s].cut = {} /\ ~ sess[s].writes
    /\ sess[s].answer # {} => sess[s].pc = "done" /\ sess[s].kind = "feed"
    /\ sess[s].pc = "answer" => sess[s].kind = "feed"
    /\ sess[s].pc = "remove" => sess[s].kind = "delete"
    /\ sess[s].kind = "delete" =>
         /\ sess[s].pc \in {"revoke", "remove", "done"} /\ sess[s].plan = NoRow
         /\ sess[s].target # 0

\* A row is written by one request at a time.
Locks == \A s, t \in Sessions : s # t => Held(s) \cap Held(t) = {}

\* The device of a row that was written is still there.
Kept == \A s \in Sessions : \A k \in Renewed(s) : k[1] \in DevicesSeen(s)

-------------------------------------------------------------------------------
LEMMA ConstantTypes == ASSUME CredentialsAssumption
                       PROVE /\ Ids \subseteq Nat \ {0} /\ 1 \in Ids /\ IsFiniteSet(Ids)
                             /\ IsFiniteSet(Sessions) /\ Sessions # {} /\ Limit \in Nat \ {0} /\ MaxOps \in Nat
  BY DEF CredentialsAssumption

LEMMA IdleType == Idle \in Requests
  BY DEF Idle, Requests, NoRow

LEMMA TypeInit == ASSUME CredentialsAssumption, Init PROVE TypeOK
<1>1. CASE devices = {}
  <2>1. Cardinality(devices) = 0
    BY <1>1, FS_EmptySet
  <2> QED BY <1>1, <2>1, IdleType DEF Init, TypeOK, CredentialsAssumption
<1>2. CASE devices = {1}
  <2>1. Cardinality(devices) = 1
    BY <1>2, FS_Singleton
  <2> QED BY <1>2, <2>1, IdleType DEF Init, TypeOK, CredentialsAssumption
<1> QED BY <1>1, <1>2 DEF Init

\* A step that leaves the database alone.
LEMMA LocalType == ASSUME TypeOK, NEW s \in Sessions, NEW r \in Requests,
                          sess' = [sess EXCEPT ![s] = r], UNCHANGED <<db, history>>,
                          ops' \in 0 .. MaxOps, made' \in [Keys -> Nat]
                   PROVE TypeOK'
  BY DEF TypeOK, db, history

\* The requests' steps between the first and the commit.
Local(s) ==
  \/ Revoke(s) \/ Remove(s) \/ CountDevices(s) \/ AddDevice(s) \/ ListDevices(s)
  \/ DefaultDevice(s) \/ ListConfigs(s) \/ Load(s) \/ Flush(s) \/ Answer(s)

\* The request gives up.
GivesUp(s) ==
  sess' = [sess EXCEPT ![s] = Idle] /\ UNCHANGED <<db, made, history>> /\ ops' \in 0 .. MaxOps

LEMMA StepKinds == ASSUME CredentialsAssumption, TypeOK, Next
                   PROVE \/ \E s \in Sessions :
                              \/ \E k \in {"feed", "renew", "reset", "expire", "add", "delete"},
                                    d \in Ids \cup {0} : Begin(s, k, d)
                              \/ Local(s) \/ Commit(s) \/ GivesUp(s)
                         \/ \E c \in Configs : Toggle(c)
<1>1. ASSUME NEW s \in Sessions, Conflict(s) PROVE GivesUp(s)
  BY <1>1 DEF Conflict, Step, GivesUp, TypeOK
<1>2. ASSUME NEW s \in Sessions, DeadlockAbort(s) PROVE GivesUp(s)
  BY <1>2 DEF DeadlockAbort, GivesUp, TypeOK
<1>3. ASSUME NEW s \in Sessions, Rollback(s) PROVE GivesUp(s)
  BY <1>3 DEF Rollback, GivesUp, TypeOK, CredentialsAssumption
<1> QED BY <1>1, <1>2, <1>3 DEF Next, Locking, Reading, Local

LEMMA SeenType == ASSUME TypeOK, NEW s \in Sessions
                  PROVE /\ DevicesSeen(s) \in SUBSET Ids /\ LiveSeen(s) \in SUBSET Keys
                        /\ ToRevoke(s) \in SUBSET Keys /\ sess[s] \in Requests
<1>1. sess[s] \in Requests
  BY DEF TypeOK
<1>2. Added(s) \in SUBSET Ids
  BY <1>1 DEF Added, Requests
<1>3. DevicesSeen(s) \in SUBSET Ids
  BY <1>2 DEF DevicesSeen, TypeOK
<1>4. Renewed(s) \in SUBSET Keys
  BY DEF Renewed, Planned
<1>5. LiveSeen(s) \in SUBSET Keys
  BY <1>4 DEF LiveSeen, TypeOK
<1> QED BY <1>1, <1>3, <1>5 DEF ToRevoke

LEMMA LocalStepType == ASSUME CredentialsAssumption, TypeOK, NEW s \in Sessions, Local(s)
                       PROVE TypeOK' /\ sess'[s] \in Requests
<1> DEFINE r == sess[s]
<1>0. r \in Requests /\ ops \in 0 .. MaxOps /\ made \in [Keys -> Nat]
  BY DEF TypeOK
<1>1. CASE Revoke(s)
  <2>1. AfterRevoke(r) \in {"devices", "remove", "done"}
    BY DEF AfterRevoke
  <2>2. [r EXCEPT !.pc = AfterRevoke(r), !.cut = ToRevoke(s), !.writes = r.kind # "delete"] \in Requests
    BY <1>0, <2>1, SeenType, ZenonT(40) DEF Requests
  <2> QED BY <1>0, <1>1, <2>2, LocalType DEF Revoke, Step, db, TypeOK
<1>2. CASE Remove(s)
  <2>1. [r EXCEPT !.pc = "done", !.writes = TRUE] \in Requests
    BY <1>0 DEF Requests
  <2> QED BY <1>0, <1>2, <2>1, LocalType DEF Remove, Step, TypeOK
<1>3. CASE CountDevices(s)
  <2>1. [r EXCEPT !.pc = "insert"] \in Requests
    BY <1>0 DEF Requests
  <2> QED BY <1>0, <1>3, <2>1, IdleType, LocalType DEF CountDevices, Step, TypeOK
<1>4. CASE AddDevice(s)
  <2>1. PICK d \in NewId(s) : sess' = [sess EXCEPT ![s] =
                 [sess[s] EXCEPT !.pc = "devices", !.target = d, !.writes = TRUE]]
    BY <1>4 DEF AddDevice, Step
  <2>2. d \in Ids
    BY DEF NewId, FreeIds
  <2>3. [r EXCEPT !.pc = "devices", !.target = d, !.writes = TRUE] \in Requests
    BY <1>0, <2>2 DEF Requests
  <2> QED BY <1>0, <1>4, <2>1, <2>3, LocalType DEF AddDevice, TypeOK
<1>5. CASE ListDevices(s)
  <2>1. [r EXCEPT !.pc = "configs", !.listed = DevicesSeen(s)] \in Requests
    BY <1>0, SeenType DEF Requests
  <2> QED BY <1>0, <1>5, <2>1, LocalType DEF ListDevices, Step, TypeOK
<1>6. CASE DefaultDevice(s)
  <2>1. PICK d \in NewId(s) : sess' = [sess EXCEPT ![s] =
                 [sess[s] EXCEPT !.pc = "configs", !.target = d, !.listed = {d}]]
    BY <1>6 DEF DefaultDevice, Step
  <2>2. d \in Ids
    BY DEF NewId, FreeIds
  <2>3. [r EXCEPT !.pc = "configs", !.target = d, !.listed = {d}] \in Requests
    BY <1>0, <2>2 DEF Requests
  <2> QED BY <1>0, <1>6, <2>1, <2>3, LocalType DEF DefaultDevice, TypeOK
<1>7. CASE ListConfigs(s)
  <2> DEFINE at == IF active # {} THEN "load" ELSE IF r.kind = "feed" THEN "answer" ELSE "done"
  <2>1. [r EXCEPT !.configs = active, !.pc = at] \in Requests
    BY <1>0 DEF Requests, TypeOK
  <2> QED BY <1>0, <1>7, <2>1, LocalType DEF ListConfigs, Step, TypeOK
<1>8. CASE Load(s)
  <2> DEFINE K == Missing(r.listed \X r.configs, LiveSeen(s))
             p == [k \in Keys |-> IF k \in K THEN made[k] + 1 ELSE 0]
             D == {k \in LiveSeen(s) : k[2] \notin r.configs}
  <2>1. p \in [Keys -> Nat] /\ D \in SUBSET Keys /\ uuid \in [Keys -> Nat]
    BY <1>0, SeenType DEF TypeOK
  <2>2. made' \in [Keys -> Nat]
    BY <1>0, <1>8 DEF Load
  <2> HIDE DEF p, D
  <2>3. [r EXCEPT !.pc = "flush", !.seen = uuid, !.plan = p, !.dying = D,
                  !.listed = {}, !.configs = {}] \in Requests
    BY <1>0, <2>1 DEF Requests
  <2>4. sess' = [sess EXCEPT ![s] = [r EXCEPT !.pc = "flush", !.seen = uuid, !.plan = p, !.dying = D,
                  !.listed = {}, !.configs = {}]]
    BY <1>8 DEF Load, Step, p, D
  <2> HIDE DEF r
  <2> QED BY <1>0, <1>8, <2>2, <2>3, <2>4, LocalType DEF Load, TypeOK
<1>9. CASE Flush(s)
  <2> DEFINE at == IF r.kind = "feed" THEN "answer" ELSE "done"
  <2>1. [r EXCEPT !.pc = at, !.cut = r.cut \cup r.dying, !.dying = {}, !.writes = TRUE] \in Requests
    BY <1>0 DEF Requests
  <2> QED BY <1>0, <1>9, <2>1, LocalType DEF Flush, Step, TypeOK
<1>10. CASE Answer(s)
  <2> DEFINE link(k) == IF r.plan[k] # 0 THEN r.plan[k]
                      ELSE IF r.seen[k] # 0 THEN r.seen[k] ELSE uuid[k]
             A == {[token |-> r.token, key |-> k, uuid |-> link(k)] :
                     k \in {j \in LiveSeen(s) : j[2] \in active}}
  <2>1. \A k \in Keys : link(k) \in Nat
    BY <1>0 DEF Requests, TypeOK
  <2>2. A \in SUBSET Links
    BY <1>0, <2>1, SeenType DEF Links, Requests
  <2> HIDE DEF A
  <2>3. [r EXCEPT !.pc = "done", !.seen = NoRow, !.answer = A] \in Requests
    BY <1>0, <2>2 DEF Requests, NoRow
  <2>4. sess' = [sess EXCEPT ![s] = [r EXCEPT !.pc = "done", !.seen = NoRow, !.answer = A]]
    BY <1>10 DEF Answer, Step, A
  <2> HIDE DEF r
  <2> QED BY <1>0, <1>10, <2>3, <2>4, LocalType DEF Answer, TypeOK
<1> QED BY <1>1, <1>2, <1>3, <1>4, <1>5, <1>6, <1>7, <1>8, <1>9, <1>10 DEF Local

LEMMA BeginType == ASSUME CredentialsAssumption, TypeOK, NEW s \in Sessions,
                          NEW k \in {"feed", "renew", "reset", "expire", "add", "delete"},
                          NEW d \in Ids \cup {0}, Begin(s, k, d)
                   PROVE TypeOK'
<1> DEFINE q == \A u \in Others(s) : ~ Running(u)
           new == [Idle EXCEPT !.pc = First(k), !.kind = k, !.token = token, !.target = d, !.quiet = q]
<1>1. First(k) \in {"devices", "revoke", "count"}
  BY DEF First
<1>2. q \in BOOLEAN
  OBVIOUS
<1> HIDE DEF q
<1>3. new \in Requests
  BY <1>1, <1>2 DEF Requests, Idle, NoRow, TypeOK
<1>4. ASSUME NEW t \in Sessions PROVE [sess[t] EXCEPT !.quiet = FALSE] \in Requests
  <2>1. sess[t] \in Requests
    BY DEF TypeOK
  <2> QED BY <2>1 DEF Requests
<1>5. sess' = [t \in Sessions |-> IF t = s THEN new ELSE
                IF Running(t) THEN [sess[t] EXCEPT !.quiet = FALSE] ELSE sess[t]]
  BY DEF Begin, q
<1> HIDE DEF new
<1>6. sess' \in [Sessions -> Requests]
  BY <1>3, <1>4, <1>5 DEF TypeOK
<1>7. ops' \in 0 .. MaxOps
  <2>1. (k = "feed" \/ ops < MaxOps) /\ ops' = IF k = "feed" THEN ops ELSE ops + 1
    BY DEF Begin
  <2> QED BY <2>1 DEF TypeOK, CredentialsAssumption
<1> QED BY <1>6, <1>7 DEF Begin, TypeOK, db, history

\* The rows of a committed request belong to devices that stay.
LEMMA CommitType == ASSUME CredentialsAssumption, TypeOK, Phase, Kept,
                           NEW s \in Sessions, Commit(s)
                    PROVE TypeOK'
<1> DEFINE r == sess[s]
           gone == Removed(s) \X Configs
<1>1. r \in Requests /\ DevicesSeen(s) \in SUBSET Ids /\ LiveSeen(s) \in SUBSET Keys
  BY SeenType
<1>2. Renewed(s) \in SUBSET Keys /\ \A k \in Renewed(s) : r.plan[k] # 0
  BY DEF Renewed, Planned
<1>3. uuid' \in [Keys -> Nat]
  BY <1>1 DEF Commit, TypeOK, Requests
<1>4. devices' \in SUBSET Ids /\ lastId' \in Ids \cup {0}
  BY <1>1 DEF Commit, TypeOK, Requests, Added
<1>5. live' \in SUBSET Keys
  BY <1>2 DEF Commit, TypeOK, StayingLive
<1>6. ASSUME NEW k \in Keys, uuid'[k] # 0 PROVE k[1] \in devices'
  <2>1. k \notin gone /\ (k \in Renewed(s) \/ uuid[k] # 0)
    BY <1>6 DEF Commit
  <2>2. CASE k \in Renewed(s)
    BY <2>2 DEF Kept, Commit
  <2>3. CASE uuid[k] # 0
    <3>1. k[1] \in devices
      BY <2>3 DEF TypeOK
    <3>2. k[1] \notin Removed(s)
      BY <2>1 DEF Keys
    <3> QED BY <3>1, <3>2 DEF Commit, DevicesSeen
  <2> QED BY <2>1, <2>2, <2>3
<1>7. ASSUME NEW k \in live' PROVE uuid'[k] # 0
  <2>1. CASE k \in Renewed(s)
    <3>1. r.plan # NoRow
      BY <1>1, <1>2, <2>1 DEF NoRow
    <3>2. r.kind # "delete"
      BY <3>1 DEF Phase
    <3>3. gone = {}
      BY <3>2 DEF Removed
    <3> QED BY <1>2, <2>1, <3>3 DEF Commit
  <2>2. CASE k \notin Renewed(s)
    <3>1. k \in live /\ k \notin gone
      BY <1>7, <2>2 DEF Commit, StayingLive
    <3> QED BY <2>2, <3>1 DEF Commit, TypeOK
  <2> QED BY <2>1, <2>2
<1>8. handed' \in SUBSET Links /\ withdrawn' \in SUBSET Links
  BY <1>1 DEF Commit, TypeOK, Requests
<1>9. sess' \in [Sessions -> Requests]
  BY IdleType DEF Commit, Step, TypeOK
<1>10. paid' \in BOOLEAN /\ token' \in Nat
  BY DEF Commit, TypeOK
<1> QED BY <1>3, <1>4, <1>5, <1>6, <1>7, <1>8, <1>9, <1>10 DEF Commit, TypeOK

LEMMA TypeStep == ASSUME CredentialsAssumption, TypeOK, Phase, Kept, [Next]_vars
                  PROVE TypeOK'
<1>1. ASSUME NEW s \in Sessions, GivesUp(s) PROVE TypeOK'
  BY <1>1, IdleType, LocalType DEF GivesUp, TypeOK
<1>2. ASSUME NEW c \in Configs, Toggle(c) PROVE TypeOK'
  <2>1. active' \in SUBSET Configs
    BY <1>2 DEF Toggle, TypeOK
  <2>2. ops' \in 0 .. MaxOps
    BY <1>2 DEF Toggle, TypeOK, CredentialsAssumption
  <2> QED BY <1>2, <2>1, <2>2 DEF Toggle, TypeOK, history
<1>3. CASE UNCHANGED vars
  BY <1>3 DEF TypeOK, vars, db, history
<1> QED BY <1>1, <1>2, <1>3, StepKinds, BeginType, LocalStepType, CommitType

-------------------------------------------------------------------------------
(* Who runs, and what a request has done by its step                       *)

\* One request changes, and goes on as quiet as it was or not at all.
LEMMA QuietKept == ASSUME TypeOK, Quiet, NEW s \in Sessions, Running(s) \/ sess'[s] = Idle,
                          sess' = [sess EXCEPT ![s] = sess'[s]],
                          sess'[s].quiet = sess[s].quiet \/ sess'[s] = Idle
                   PROVE Quiet'
<1>1. \A t \in Sessions : t # s => sess'[t] = sess[t]
  BY DEF TypeOK
<1>2. Idle.pc = "idle"
  BY DEF Idle
<1> QED BY <1>1, <1>2 DEF Quiet, Running

LEMMA LocalQuiet == ASSUME TypeOK, NEW s \in Sessions, Local(s)
                    PROVE /\ Running(s) /\ sess' = [sess EXCEPT ![s] = sess'[s]]
                          /\ sess'[s].quiet = sess[s].quiet \/ sess'[s] = Idle
<1> DEFINE r == sess[s]
<1>0. r \in Requests /\ sess \in [Sessions -> Requests]
  BY DEF TypeOK
<1> USE DEF Step, Running
<1>1. CASE Revoke(s) BY <1>0, <1>1 DEF Revoke, Requests
<1>2. CASE Remove(s) BY <1>0, <1>2 DEF Remove, Requests
<1>3. CASE CountDevices(s) BY <1>0, <1>3 DEF CountDevices, Requests
<1>4. CASE AddDevice(s) BY <1>0, <1>4 DEF AddDevice, Requests
<1>5. CASE ListDevices(s) BY <1>0, <1>5 DEF ListDevices, Requests
<1>6. CASE DefaultDevice(s) BY <1>0, <1>6 DEF DefaultDevice, Requests
<1>7. CASE ListConfigs(s) BY <1>0, <1>7 DEF ListConfigs, Requests
<1>8. CASE Load(s) BY <1>0, <1>8 DEF Load, Requests
<1>9. CASE Flush(s) BY <1>0, <1>9 DEF Flush, Requests
<1>10. CASE Answer(s) BY <1>0, <1>10 DEF Answer, Requests
<1> QED BY <1>1, <1>2, <1>3, <1>4, <1>5, <1>6, <1>7, <1>8, <1>9, <1>10 DEF Local

LEMMA QuietStep == ASSUME CredentialsAssumption, TypeOK, Quiet, [Next]_vars
                   PROVE Quiet'
<1>1. ASSUME NEW s \in Sessions, NEW k \in {"feed", "renew", "reset", "expire", "add", "delete"},
             NEW d \in Ids \cup {0}, Begin(s, k, d)
      PROVE Quiet'
  <2> DEFINE q == \A u \in Others(s) : ~ Running(u)
  <2>1. \A t \in Sessions : t # s =>
          sess'[t] = IF Running(t) THEN [sess[t] EXCEPT !.quiet = FALSE] ELSE sess[t]
    BY <1>1 DEF Begin
  <2>2. \A t \in Sessions : t # s =>
          /\ sess'[t].pc = sess[t].pc
          /\ Running(t) => sess'[t].quiet = FALSE
    BY <2>1 DEF TypeOK, Requests
  <2>3. sess'[s].quiet = q
    BY <1>1 DEF Begin, Idle
  <2>4. \A t \in Others(s) : q => ~ Running(t)
    OBVIOUS
  <2> HIDE DEF q
  <2> QED BY <2>2, <2>3, <2>4 DEF Quiet, Running, Others
<1>2. ASSUME NEW s \in Sessions, Local(s) PROVE Quiet'
  BY <1>2, LocalQuiet, QuietKept
<1>3. ASSUME NEW s \in Sessions, Commit(s) \/ GivesUp(s) PROVE Quiet'
  <2>1. sess' = [sess EXCEPT ![s] = Idle] /\ sess'[s] = Idle
    BY <1>3 DEF Commit, Step, GivesUp, TypeOK
  <2> QED BY <2>1, QuietKept
<1>4. CASE (\E c \in Configs : Toggle(c)) \/ UNCHANGED vars
  BY <1>4 DEF Toggle, vars, Quiet, Running
<1> QED BY <1>1, <1>2, <1>3, <1>4, StepKinds

LEMMA PhaseStep == ASSUME CredentialsAssumption, TypeOK, Phase, [Next]_vars
                   PROVE Phase'
<1> DEFINE P(r) ==
      /\ r.pc = "idle" => r = Idle
      /\ r.pc \in Early => r.plan = NoRow /\ r.seen = NoRow /\ r.dying = {}
      /\ r.pc \in {"count", "insert"} => r.kind = "add" /\ r.target = 0
      /\ r.pc = "revoke" => r.cut = {} /\ ~ r.writes
      /\ r.answer # {} => r.pc = "done" /\ r.kind = "feed"
      /\ r.pc = "answer" => r.kind = "feed"
      /\ r.pc = "remove" => r.kind = "delete"
      /\ r.kind = "delete" =>
           r.pc \in {"revoke", "remove", "done"} /\ r.plan = NoRow /\ r.target # 0
<1>1. Phase => \A t \in Sessions : P(sess[t])
  BY DEF Phase
<1>2. (\A t \in Sessions : P(sess'[t])) => Phase'
  BY DEF Phase
<1>3. ASSUME NEW s \in Sessions, NEW r, sess' = [sess EXCEPT ![s] = r], P(r) PROVE Phase'
  <2>1. \A t \in Sessions : P(sess'[t])
    BY <1>1, <1>3 DEF TypeOK
  <2> HIDE DEF P
  <2> QED BY <1>2, <2>1
<1>4. P(Idle)
  BY DEF Idle, NoRow, Early
<1>5. ASSUME NEW s \in Sessions, NEW k \in {"feed", "renew", "reset", "expire", "add", "delete"},
             NEW d \in Ids \cup {0}, Begin(s, k, d)
      PROVE Phase'
  <2> DEFINE q == \A u \in Others(s) : ~ Running(u)
             new == [Idle EXCEPT !.pc = First(k), !.kind = k, !.token = token, !.target = d, !.quiet = q]
  <2>1. k = "delete" => d # 0
    BY <1>5 DEF Begin, TypeOK, CredentialsAssumption
  <2>2. k # "delete" => d = 0
    BY <1>5 DEF Begin
  <2>3. /\ new.pc = First(k) /\ new.kind = k /\ new.target = d /\ new.plan = NoRow /\ new.seen = NoRow
        /\ new.dying = {} /\ new.cut = {} /\ new.writes = FALSE /\ new.answer = {}
    BY DEF Idle
  <2>4. sess' = [t \in Sessions |-> IF t = s THEN new ELSE
                  IF Running(t) THEN [sess[t] EXCEPT !.quiet = FALSE] ELSE sess[t]]
    BY <1>5 DEF Begin
  <2> HIDE DEF new
  <2>5. P(new)
    BY <2>1, <2>2, <2>3 DEF First, Early
  <2>6. ASSUME NEW t \in Sessions, Running(t) PROVE P([sess[t] EXCEPT !.quiet = FALSE])
    <3> DEFINE r == sess[t]
               v == [r EXCEPT !.quiet = FALSE]
    <3>1. /\ v.pc = r.pc /\ v.kind = r.kind /\ v.target = r.target /\ v.plan = r.plan /\ v.seen = r.seen
          /\ v.dying = r.dying /\ v.cut = r.cut /\ v.writes = r.writes /\ v.answer = r.answer
      BY DEF TypeOK, Requests
    <3>2. v.pc # "idle" /\ P(r)
      BY <1>1, <2>6, <3>1 DEF Running
    <3> HIDE DEF v
    <3>3. P(v)
      BY <3>1, <3>2
    <3> QED BY <3>3 DEF v
  <2>7. \A t \in Sessions : P(sess'[t])
    <3> HIDE DEF P
    <3> QED BY <1>1, <2>4, <2>5, <2>6
  <2> HIDE DEF P
  <2> QED BY <1>2, <2>7
<1>6. ASSUME NEW s \in Sessions, Commit(s) \/ GivesUp(s) PROVE Phase'
  <2>1. sess' = [sess EXCEPT ![s] = Idle]
    BY <1>6 DEF Commit, Step, GivesUp
  <2> HIDE DEF P
  <2> QED BY <1>3, <1>4, <2>1
<1>7. CASE (\E c \in Configs : Toggle(c)) \/ UNCHANGED vars
  BY <1>7 DEF Toggle, vars, Phase
<1>8. ASSUME NEW s \in Sessions, Local(s) PROVE Phase'
  <2> DEFINE r == sess[s]
  <2>0. r \in Requests /\ P(r)
    BY <1>1 DEF TypeOK
  <2>1. P(sess'[s]) /\ sess' = [sess EXCEPT ![s] = sess'[s]]
    <3>0. sess' = [sess EXCEPT ![s] = sess'[s]]
      BY <1>8, LocalQuiet
    <3> USE DEF Step, Early
    <3>1. CASE Revoke(s)
      <4>1. P([r EXCEPT !.pc = AfterRevoke(r), !.cut = ToRevoke(s), !.writes = r.kind # "delete"])
        BY <2>0, <3>1 DEF Requests, AfterRevoke, Revoke
      <4> QED BY <3>0, <3>1, <4>1 DEF Revoke, TypeOK
    <3>2. CASE Remove(s) BY <2>0, <3>0, <3>2 DEF Remove, Requests, TypeOK
    <3>3. CASE CountDevices(s)
      <4>1. P([r EXCEPT !.pc = "insert"])
        BY <2>0, <3>3 DEF Requests, CountDevices
      <4> QED BY <1>4, <3>0, <3>3, <4>1 DEF CountDevices, TypeOK
    <3>4. CASE AddDevice(s) BY <2>0, <3>0, <3>4 DEF AddDevice, Requests, TypeOK
    <3>5. CASE ListDevices(s) BY <2>0, <3>0, <3>5 DEF ListDevices, Requests, TypeOK
    <3>6. CASE DefaultDevice(s) BY <2>0, <3>0, <3>6 DEF DefaultDevice, Requests, TypeOK
    <3>7. CASE ListConfigs(s) BY <2>0, <3>0, <3>7 DEF ListConfigs, Requests, TypeOK
    <3>8. CASE Load(s) BY <2>0, <3>0, <3>8 DEF Load, Requests, TypeOK
    <3>9. CASE Flush(s) BY <2>0, <3>0, <3>9 DEF Flush, Requests, TypeOK
    <3>10. CASE Answer(s) BY <2>0, <3>0, <3>10 DEF Answer, Requests, TypeOK
    <3> QED BY <1>8, <3>1, <3>2, <3>3, <3>4, <3>5, <3>6, <3>7, <3>8, <3>9, <3>10 DEF Local
  <2> HIDE DEF P
  <2> QED BY <1>3, <2>1
<1> QED BY <1>5, <1>6, <1>7, <1>8, StepKinds

-------------------------------------------------------------------------------
(* Row locks                                                               *)

LEMMA LocksKept == ASSUME TypeOK, Locks, NEW s \in Sessions, sess' = [sess EXCEPT ![s] = sess'[s]],
                          Held(s)' \subseteq Held(s) \cup (IF Blockers(s) = {} THEN Wants(s) ELSE {})
                   PROVE Locks'
<1>1. \A t \in Sessions : t # s => sess'[t] = sess[t]
  BY DEF TypeOK
<1>2. ASSUME NEW t \in Sessions, t # s PROVE Held(t)' = Held(t)
  BY <1>1, <1>2 DEF Held, Renewed, Planned, Removed
<1>3. ASSUME NEW t \in Sessions, t # s PROVE Held(s)' \cap Held(t)' = {}
  <2>1. Held(s) \cap Held(t) = {}
    BY <1>3 DEF Locks
  <2>2. CASE Blockers(s) = {}
    <3>1. Wants(s) \cap Held(t) = {}
      BY <1>3, <2>2 DEF Blockers, Others
    <3> QED BY <1>2, <1>3, <2>1, <2>2, <3>1
  <2>3. CASE Blockers(s) # {}
    BY <1>2, <1>3, <2>1, <2>3
  <2> QED BY <2>2, <2>3
<1>4. ASSUME NEW t \in Sessions, NEW u \in Sessions, t # u PROVE Held(t)' \cap Held(u)' = {}
  <2>1. CASE t = s
    BY <1>3, <1>4, <2>1
  <2>2. CASE u = s
    BY <1>3, <1>4, <2>2
  <2>3. CASE t # s /\ u # s
    BY <1>2, <1>4, <2>3 DEF Locks
  <2> QED BY <2>1, <2>2, <2>3
<1> QED BY <1>4 DEF Locks

\* A step locks what it wants before it holds it.
LEMMA LocalHeld == ASSUME TypeOK, Phase, NEW s \in Sessions, Local(s)
                   PROVE Held(s)' \subseteq Held(s) \cup (IF Blockers(s) = {} THEN Wants(s) ELSE {})
<1> DEFINE r == sess[s]
<1>0. r \in Requests /\ sess \in [Sessions -> Requests]
  BY DEF TypeOK
<1>1. r.pc \in Early => Planned(s) = {}
  BY DEF Phase, Planned, NoRow
<1>2. ASSUME UNCHANGED r.kind, UNCHANGED r.plan, UNCHANGED r.cut,
             r.kind # "delete", r.pc \in Early \/ sess'[s].pc = "flush"
      PROVE Held(s)' \subseteq Held(s)
  <2>1. Planned(s)' = Planned(s)
    BY <1>2 DEF Planned
  <2>2. Renewed(s)' = {}
    BY <1>1, <1>2, <2>1 DEF Renewed
  <2> QED BY <1>2, <2>2 DEF Held, Removed
<1> USE DEF Step
<1>3. CASE Revoke(s)
  <2>1. sess'[s] = [r EXCEPT !.pc = AfterRevoke(r), !.cut = ToRevoke(s), !.writes = r.kind # "delete"]
    BY <1>0, <1>3 DEF Revoke
  <2>2. /\ sess'[s].cut = ToRevoke(s) /\ sess'[s].plan = r.plan /\ sess'[s].kind = r.kind
        /\ r.kind = "delete" => ~ sess'[s].writes
        /\ r.pc = "revoke" /\ Blockers(s) = {}
    BY <1>0, <1>3, <2>1 DEF Requests, Revoke
  <2>3. Renewed(s)' = {}
    BY <1>1, <2>2 DEF Renewed, Planned, Early
  <2>4. Removed(s)' = {}
    BY <2>2 DEF Removed
  <2>5. Wants(s) = ToRevoke(s)
    BY <2>2 DEF Wants
  <2> QED BY <2>2, <2>3, <2>4, <2>5 DEF Held
<1>4. CASE Remove(s)
  <2>1. /\ sess'[s].cut = r.cut /\ sess'[s].plan = r.plan /\ sess'[s].target = r.target
        /\ r.pc = "remove" /\ Blockers(s) = {} /\ r.plan = NoRow
    BY <1>0, <1>4 DEF Requests, Remove, Phase
  <2>2. Renewed(s)' = {}
    BY <2>1 DEF Renewed, Planned, NoRow
  <2>3. Wants(s) = {r.target} \X Configs
    BY <2>1 DEF Wants
  <2> QED BY <2>1, <2>2, <2>3 DEF Held, Removed
<1>5. CASE CountDevices(s)
  <2>1. CASE sess'[s] = Idle
    <3>1. Held(s)' = {}
      BY <2>1 DEF Held, Renewed, Removed, Idle
    <3> QED BY <3>1
  <2>2. CASE sess'[s] # Idle
    <3>1. sess'[s] = [r EXCEPT !.pc = "insert"] /\ r.pc = "count"
      BY <1>0, <1>5, <2>2 DEF CountDevices
    <3>2. Held(s)' \subseteq Held(s)
      BY <1>0, <1>2, <3>1 DEF Requests, Phase, Early
    <3> QED BY <3>2
  <2> QED BY <2>1, <2>2
<1>6. CASE AddDevice(s)
  BY <1>0, <1>2, <1>6 DEF AddDevice, Requests, Phase, Early
<1>7. CASE ListDevices(s)
  BY <1>0, <1>2, <1>7 DEF ListDevices, Requests, Phase, Early
<1>8. CASE DefaultDevice(s)
  BY <1>0, <1>2, <1>8 DEF DefaultDevice, Requests, Phase, Early
<1>9. CASE ListConfigs(s)
  BY <1>0, <1>2, <1>9 DEF ListConfigs, Requests, Phase, Early
<1>10. CASE Load(s)
  <2>1. sess'[s].cut = r.cut /\ sess'[s].pc = "flush" /\ sess'[s].kind = r.kind /\ r.pc = "load"
    BY <1>0, <1>10 DEF Load, Requests
  <2>2. Renewed(s)' = {}
    BY <2>1 DEF Renewed
  <2>3. Removed(s)' = {}
    BY <2>1 DEF Removed, Phase
  <2> QED BY <2>1, <2>2, <2>3 DEF Held
<1>11. CASE Flush(s)
  <2>1. /\ sess'[s].cut = r.cut \cup r.dying /\ sess'[s].plan = r.plan /\ sess'[s].kind = r.kind
        /\ r.pc = "flush" /\ Blockers(s) = {}
    BY <1>0, <1>11 DEF Flush, Requests
  <2>2. Renewed(s)' \subseteq Planned(s)
    BY <2>1 DEF Renewed, Planned
  <2>3. Removed(s)' = {}
    BY <2>1 DEF Removed, Phase
  <2>4. Wants(s) = Planned(s) \cup r.dying
    BY <2>1 DEF Wants
  <2> QED BY <2>1, <2>2, <2>3, <2>4 DEF Held
<1>12. CASE Answer(s)
  <2>1. /\ sess'[s].cut = r.cut /\ sess'[s].plan = r.plan /\ sess'[s].kind = r.kind
        /\ r.pc = "answer" /\ sess'[s].pc = "done"
    BY <1>0, <1>12 DEF Answer, Requests
  <2>2. Renewed(s)' = Renewed(s)
    BY <2>1 DEF Renewed, Planned
  <2>3. Removed(s)' = {}
    BY <2>1 DEF Removed, Phase
  <2> QED BY <2>1, <2>2, <2>3 DEF Held
<1> QED BY <1>3, <1>4, <1>5, <1>6, <1>7, <1>8, <1>9, <1>10, <1>11, <1>12 DEF Local

\* A request that ends holds nothing.
LEMMA EndHolds == ASSUME TypeOK, NEW s \in Sessions, sess' = [sess EXCEPT ![s] = Idle]
                  PROVE /\ sess'[s] = Idle /\ sess' = [sess EXCEPT ![s] = sess'[s]]
                        /\ Held(s)' = {} /\ Renewed(s)' = {} /\ Removed(s)' = {} /\ Added(s)' = {}
                        /\ \A t \in Sessions : t # s => sess'[t] = sess[t]
<1>1. sess'[s] = Idle /\ \A t \in Sessions : t # s => sess'[t] = sess[t]
  BY DEF TypeOK
<1>2. sess' = [sess EXCEPT ![s] = sess'[s]]
  BY <1>1
<1>3. /\ sess'[s].pc = "idle" /\ sess'[s].cut = {} /\ sess'[s].kind = "feed" /\ sess'[s].target = 0
  BY <1>1 DEF Idle
<1>4. Renewed(s)' = {} /\ Removed(s)' = {} /\ Added(s)' = {}
  BY <1>3 DEF Renewed, Removed, Added
<1>5. Held(s)' = {}
  BY <1>3, <1>4 DEF Held
<1> QED BY <1>1, <1>2, <1>4, <1>5

\* A new request holds nothing, and the others what they held.
LEMMA BeginHolds == ASSUME TypeOK, Phase, NEW s \in Sessions,
                           NEW k \in {"feed", "renew", "reset", "expire", "add", "delete"},
                           NEW d \in Ids \cup {0}, Begin(s, k, d)
                    PROVE /\ Held(s)' = {} /\ Renewed(s)' = {} /\ Removed(s)' = {} /\ Added(s)' = {}
                          /\ sess'[s].pc = First(k) /\ sess'[s].cut = {} /\ sess'[s].plan = NoRow
                          /\ sess'[s].seen = NoRow /\ sess'[s].answer = {} /\ sess'[s].token = token
                          /\ \A t \in Sessions : t # s =>
                               /\ Held(t)' = Held(t) /\ Renewed(t)' = Renewed(t)
                               /\ Removed(t)' = Removed(t) /\ Added(t)' = Added(t)
                               /\ sess'[t].pc = sess[t].pc /\ sess'[t].kind = sess[t].kind
                               /\ sess'[t].cut = sess[t].cut /\ sess'[t].plan = sess[t].plan
<1>1. /\ sess'[s].pc = First(k) /\ sess'[s].cut = {} /\ sess'[s].plan = NoRow /\ ~ sess'[s].writes
      /\ sess'[s].kind = k /\ sess'[s].target = d /\ sess'[s].seen = NoRow
      /\ sess'[s].answer = {} /\ sess'[s].token = token
  BY DEF Begin, Idle
<1>2. k # "delete" => d = 0
  BY DEF Begin
<1>3. ASSUME NEW t \in Sessions, t # s
      PROVE /\ sess'[t].pc = sess[t].pc /\ sess'[t].kind = sess[t].kind /\ sess'[t].cut = sess[t].cut
            /\ sess'[t].plan = sess[t].plan /\ sess'[t].target = sess[t].target
            /\ sess'[t].writes = sess[t].writes
  <2>1. sess'[t] = IF Running(t) THEN [sess[t] EXCEPT !.quiet = FALSE] ELSE sess[t]
    BY <1>3 DEF Begin
  <2> QED BY <2>1 DEF TypeOK, Requests
<1>4. First(k) \in {"devices", "revoke", "count"}
  BY DEF First
<1>5. Held(s)' = {} /\ Renewed(s)' = {} /\ Removed(s)' = {} /\ Added(s)' = {}
  BY <1>1, <1>2, <1>4 DEF Held, Renewed, Planned, Removed, Added
<1>6. ASSUME NEW t \in Sessions, t # s
      PROVE /\ Held(t)' = Held(t) /\ Renewed(t)' = Renewed(t)
            /\ Removed(t)' = Removed(t) /\ Added(t)' = Added(t)
  BY <1>3, <1>6 DEF Held, Renewed, Planned, Removed, Added
<1> QED BY <1>1, <1>3, <1>5, <1>6

LEMMA LocksStep == ASSUME CredentialsAssumption, TypeOK, Phase, Locks, [Next]_vars
                   PROVE Locks'
<1>1. ASSUME NEW s \in Sessions, NEW k \in {"feed", "renew", "reset", "expire", "add", "delete"},
             NEW d \in Ids \cup {0}, Begin(s, k, d)
      PROVE Locks'
  BY <1>1, BeginHolds DEF Locks
<1>2. ASSUME NEW s \in Sessions, Local(s) PROVE Locks'
  BY <1>2, LocalQuiet, LocalHeld, LocksKept
<1>3. ASSUME NEW s \in Sessions, Commit(s) \/ GivesUp(s) PROVE Locks'
  <2>1. sess' = [sess EXCEPT ![s] = Idle]
    BY <1>3 DEF Commit, Step, GivesUp
  <2>2. Held(s)' = {} /\ sess' = [sess EXCEPT ![s] = sess'[s]]
    BY <2>1, EndHolds
  <2> QED BY <2>2, LocksKept
<1>4. CASE (\E c \in Configs : Toggle(c)) \/ UNCHANGED vars
  BY <1>4 DEF Toggle, vars, Locks, Held, Renewed, Planned, Removed
<1> QED BY <1>1, <1>2, <1>3, <1>4, StepKinds

\* What a step between the first and the commit leaves alone.
LEMMA LocalEffect == ASSUME TypeOK, Phase, NEW s \in Sessions, Local(s)
                     PROVE /\ UNCHANGED <<db, history>> /\ Running(s)
                           /\ \A t \in Sessions : t # s => sess'[t] = sess[t]
                           /\ ~ Load(s) => UNCHANGED made
                           /\ \/ sess'[s] = Idle
                              \/ /\ sess'[s].kind = sess[s].kind /\ sess'[s].token = sess[s].token
                                 /\ sess[s].cut \subseteq sess'[s].cut /\ sess'[s].pc # "revoke"
                                 /\ ~ Load(s) => /\ sess'[s].plan = sess[s].plan
                                                /\ sess'[s].seen \in {sess[s].seen, NoRow}
                                 /\ ~ Answer(s) => sess'[s].answer = sess[s].answer
<1> DEFINE r == sess[s]
<1>0. r \in Requests /\ sess \in [Sessions -> Requests]
  BY DEF TypeOK
<1>1. Running(s) /\ \A t \in Sessions : t # s => sess'[t] = sess[t]
  BY <1>0, LocalQuiet
<1>2. UNCHANGED <<db, history>> /\ (~ Load(s) => UNCHANGED made)
  BY DEF Local, Revoke, Remove, CountDevices, AddDevice, ListDevices, DefaultDevice, ListConfigs,
         Load, Flush, Answer
<1> DEFINE E == \/ sess'[s] = Idle
                \/ /\ sess'[s].kind = r.kind /\ sess'[s].token = r.token
                   /\ r.cut \subseteq sess'[s].cut /\ sess'[s].pc # "revoke"
                   /\ ~ Load(s) => sess'[s].plan = r.plan /\ sess'[s].seen \in {r.seen, NoRow}
                   /\ ~ Answer(s) => sess'[s].answer = r.answer
<1> USE DEF Step
<1>3. CASE Revoke(s)
  <2>1. sess'[s] = [r EXCEPT !.pc = AfterRevoke(r), !.cut = ToRevoke(s), !.writes = r.kind # "delete"]
    BY <1>0, <1>3 DEF Revoke
  <2>2. AfterRevoke(r) # "revoke" /\ r.cut = {}
    BY <1>3 DEF AfterRevoke, Revoke, Phase
  <2>3. E
    BY <1>0, <2>1, <2>2 DEF Requests
  <2> QED BY <1>1, <1>2, <2>3
<1>4. CASE Remove(s) BY <1>0, <1>1, <1>2, <1>4 DEF Remove, Requests
<1>5. CASE CountDevices(s) BY <1>0, <1>1, <1>2, <1>5 DEF CountDevices, Requests
<1>6. CASE AddDevice(s) BY <1>0, <1>1, <1>2, <1>6 DEF AddDevice, Requests
<1>7. CASE ListDevices(s) BY <1>0, <1>1, <1>2, <1>7 DEF ListDevices, Requests
<1>8. CASE DefaultDevice(s) BY <1>0, <1>1, <1>2, <1>8 DEF DefaultDevice, Requests
<1>9. CASE ListConfigs(s) BY <1>0, <1>1, <1>2, <1>9 DEF ListConfigs, Requests
<1>10. CASE Load(s)
  <2>1. /\ sess'[s].kind = r.kind /\ sess'[s].token = r.token /\ sess'[s].cut = r.cut
        /\ sess'[s].pc = "flush" /\ sess'[s].answer = r.answer
    BY <1>0, <1>10 DEF Load, Requests
  <2> QED BY <1>1, <1>2, <1>10, <2>1
<1>11. CASE Flush(s) BY <1>0, <1>1, <1>2, <1>11 DEF Flush, Requests
<1>12. CASE Answer(s)
  <2>1. /\ sess'[s].kind = r.kind /\ sess'[s].token = r.token /\ sess'[s].cut = r.cut
        /\ sess'[s].pc = "done" /\ sess'[s].plan = r.plan /\ sess'[s].seen = NoRow
    BY <1>0, <1>12 DEF Answer, Requests
  <2> QED BY <1>1, <1>2, <1>12, <2>1
<1> QED BY <1>3, <1>4, <1>5, <1>6, <1>7, <1>8, <1>9, <1>10, <1>11, <1>12 DEF Local

LEMMA LocalRenewed == ASSUME TypeOK, Phase, NEW s \in Sessions, Local(s)
                      PROVE Renewed(s)' = {} \/ Flush(s) \/ Answer(s)
<1>1. CASE Load(s)
  <2>1. sess'[s].pc = "flush"
    BY <1>1 DEF Load, Step, TypeOK, Requests
  <2> QED BY <2>1 DEF Renewed
<1>2. CASE ~ Load(s) /\ ~ Flush(s) /\ ~ Answer(s)
  <2>1. sess[s].pc \in Early \cup {"remove"}
    BY <1>2 DEF Local, Step, Early, Revoke, Remove, CountDevices, AddDevice, ListDevices,
                DefaultDevice, ListConfigs
  <2>2. sess[s].plan = NoRow
    BY <2>1 DEF Phase
  <2>3. sess'[s].plan = NoRow
    BY <1>2, <2>2, LocalEffect DEF Idle
  <2> QED BY <2>3 DEF Renewed, Planned, NoRow
<1> QED BY <1>1, <1>2

LEMMA KeptStep == ASSUME CredentialsAssumption, TypeOK, Phase, Locks, Kept, [Next]_vars
                  PROVE Kept'
<1>1. ASSUME NEW s \in Sessions, NEW k \in {"feed", "renew", "reset", "expire", "add", "delete"},
             NEW d \in Ids \cup {0}, Begin(s, k, d)
      PROVE Kept'
  <2>1. UNCHANGED devices
    BY <1>1 DEF Begin, db
  <2> QED BY <1>1, <2>1, BeginHolds DEF Kept, DevicesSeen
<1>2. ASSUME NEW s \in Sessions, Local(s) PROVE Kept'
  <2>1. UNCHANGED devices /\ \A t \in Sessions : t # s => sess'[t] = sess[t]
    BY <1>2, LocalEffect DEF db
  <2>2. ASSUME NEW k \in Renewed(s)' PROVE k[1] \in DevicesSeen(s)'
    <3>1. Flush(s) \/ Answer(s)
      BY <1>2, <2>2, LocalRenewed
    <3>2. /\ sess'[s].kind = sess[s].kind /\ sess'[s].target = sess[s].target
          /\ sess'[s].plan = sess[s].plan /\ sess[s].pc \in {"flush", "answer"}
      <4>1. sess[s] \in Requests /\ sess \in [Sessions -> Requests]
        BY DEF TypeOK
      <4>2. CASE Flush(s)
        BY <4>1, <4>2 DEF Flush, Step, Requests
      <4>3. CASE Answer(s)
        BY <4>1, <4>3 DEF Answer, Step, Requests
      <4> QED BY <3>1, <4>2, <4>3
    <3>3. sess[s].kind # "delete"
      BY <3>2 DEF Phase
    <3>4. DevicesSeen(s)' = DevicesSeen(s)
      BY <2>1, <3>2, <3>3 DEF DevicesSeen, Added, Removed
    <3>5. k \in Planned(s)
      BY <2>2, <3>2 DEF Renewed, Planned
    <3>6. CASE Flush(s)
      BY <3>4, <3>5, <3>6 DEF Flush, Collides
    <3>7. CASE Answer(s)
      <4>1. k \in Renewed(s)
        BY <3>5, <3>7 DEF Renewed, Answer, Step
      <4> QED BY <3>4, <4>1 DEF Kept
    <3> QED BY <3>1, <3>6, <3>7
  <2>3. ASSUME NEW t \in Sessions, t # s, NEW k \in Renewed(t)' PROVE k[1] \in DevicesSeen(t)'
    BY <2>1, <2>3 DEF Kept, Renewed, Planned, DevicesSeen, Added, Removed
  <2> QED BY <2>2, <2>3 DEF Kept
<1>3. ASSUME NEW s \in Sessions, Commit(s) PROVE Kept'
  <2>1. Renewed(s)' = {} /\ \A t \in Sessions : t # s => sess'[t] = sess[t]
    BY <1>3, EndHolds DEF Commit, Step
  <2>2. ASSUME NEW t \in Sessions, t # s, NEW k \in Renewed(t)' PROVE k[1] \in DevicesSeen(t)'
    <3>1. k \in Renewed(t) /\ Added(t)' = Added(t) /\ Removed(t)' = Removed(t)
      BY <2>1, <2>2 DEF Renewed, Planned, Added, Removed
    <3>2. k[1] \in DevicesSeen(t)
      BY <3>1 DEF Kept
    <3>3. k \in Keys /\ k \in Held(t)
      BY <3>1 DEF Renewed, Planned, Held
    <3>4. k \notin Held(s)
      BY <2>2, <3>3 DEF Locks
    <3>5. k[1] \notin Removed(s)
      BY <3>3, <3>4 DEF Held, Keys
    <3>6. devices' = (devices \cup Added(s)) \ Removed(s)
      BY <1>3 DEF Commit, DevicesSeen
    <3> QED BY <3>1, <3>2, <3>5, <3>6 DEF DevicesSeen
  <2> QED BY <2>1, <2>2 DEF Kept
<1>4. ASSUME NEW s \in Sessions, GivesUp(s) PROVE Kept'
  <2>1. Renewed(s)' = {} /\ UNCHANGED devices /\ \A t \in Sessions : t # s => sess'[t] = sess[t]
    BY <1>4, EndHolds DEF GivesUp, db
  <2> QED BY <2>1 DEF Kept, Renewed, Planned, DevicesSeen, Added, Removed
<1>5. CASE (\E c \in Configs : Toggle(c)) \/ UNCHANGED vars
  BY <1>5 DEF Toggle, vars, db, Kept, Renewed, Planned, DevicesSeen, Added, Removed
<1> QED BY <1>1, <1>2, <1>3, <1>4, <1>5, StepKinds

-------------------------------------------------------------------------------
(* The limit of devices                                                    *)

\* The requests that have found room for a device and not committed it.
Adding == {s \in Sessions : sess[s].pc = "insert" \/ Added(s) # {}}

Bounded == Cardinality(devices) + Cardinality(Adding) + 1 <= Limit + Cardinality(Sessions)

LEMMA Sizes == ASSUME CredentialsAssumption, NEW D \in SUBSET Ids, NEW A \in SUBSET Sessions
               PROVE /\ IsFiniteSet(D) /\ Cardinality(D) \in Nat
                     /\ IsFiniteSet(A) /\ Cardinality(A) \in Nat
                     /\ Cardinality(A) <= Cardinality(Sessions)
                     /\ Cardinality(Sessions) \in Nat /\ Limit \in Nat
<1>1. IsFiniteSet(Ids) /\ IsFiniteSet(Sessions) /\ Limit \in Nat
  BY DEF CredentialsAssumption
<1>2. IsFiniteSet(D) /\ IsFiniteSet(A) /\ Cardinality(A) <= Cardinality(Sessions)
  BY <1>1, FS_Subset
<1> QED BY <1>1, <1>2, FS_CardinalityType

LEMMA FewerAdding == ASSUME CredentialsAssumption, TypeOK, Bounded, TypeOK',
                            devices' \subseteq devices, Adding' \subseteq Adding
                     PROVE Bounded'
<1>1. devices \in SUBSET Ids /\ devices' \in SUBSET Ids
  BY DEF TypeOK
<1>2. Adding \in SUBSET Sessions /\ Adding' \in SUBSET Sessions
  BY DEF Adding
<1>3. Cardinality(devices') <= Cardinality(devices)
  BY <1>1, Sizes, FS_Subset
<1>4. Cardinality(Adding') <= Cardinality(Adding)
  BY <1>2, Sizes, FS_Subset
<1>5. Cardinality(devices)' = Cardinality(devices') /\ Cardinality(Adding)' = Cardinality(Adding')
  OBVIOUS
<1> HIDE DEF Adding
<1> QED BY <1>1, <1>2, <1>3, <1>4, <1>5, Sizes DEF Bounded

LEMMA LocalAdding == ASSUME TypeOK, Phase, NEW s \in Sessions, Local(s),
                            ~ CountDevices(s), ~ DefaultDevice(s)
                     PROVE Adding' \subseteq Adding
<1>0. sess[s] \in Requests /\ sess \in [Sessions -> Requests]
  BY DEF TypeOK
<1>1. \A t \in Sessions : t # s => sess'[t] = sess[t]
  BY LocalEffect
<1>2. \/ AddDevice(s)
      \/ /\ sess'[s].pc # "insert" /\ sess'[s].kind = sess[s].kind
         /\ sess'[s].target = sess[s].target
  <2> USE DEF Step
  <2>1. CASE Revoke(s) BY <1>0, <2>1 DEF Revoke, AfterRevoke, Requests
  <2>2. CASE Remove(s) BY <1>0, <2>2 DEF Remove, Requests
  <2>3. CASE ListDevices(s) BY <1>0, <2>3 DEF ListDevices, Requests
  <2>4. CASE ListConfigs(s) BY <1>0, <2>4 DEF ListConfigs, Requests
  <2>5. CASE Load(s) BY <1>0, <2>5 DEF Load, Requests
  <2>6. CASE Flush(s) BY <1>0, <2>6 DEF Flush, Requests
  <2>7. CASE Answer(s) BY <1>0, <2>7 DEF Answer, Requests
  <2> QED BY <2>1, <2>2, <2>3, <2>4, <2>5, <2>6, <2>7 DEF Local
<1>3. CASE AddDevice(s)
  <2>1. s \in Adding
    BY <1>3 DEF Adding, AddDevice, Step
  <2> QED BY <1>1, <2>1 DEF Adding, Added
<1>4. CASE ~ AddDevice(s)
  BY <1>1, <1>2, <1>4 DEF Adding, Added
<1> QED BY <1>3, <1>4

LEMMA BoundedStep == ASSUME CredentialsAssumption, TypeOK, Phase, Bounded, TypeOK', [Next]_vars
                     PROVE Bounded'
<1>0. /\ devices \in SUBSET Ids /\ devices' \in SUBSET Ids
      /\ Adding \in SUBSET Sessions /\ Adding' \in SUBSET Sessions
  BY DEF TypeOK, Adding
<1>1. ASSUME NEW s \in Sessions, NEW k \in {"feed", "renew", "reset", "expire", "add", "delete"},
             NEW d \in Ids \cup {0}, Begin(s, k, d)
      PROVE Bounded'
  <2>1. UNCHANGED devices /\ sess'[s].pc # "insert"
    <3>1. sess'[s].pc = First(k)
      BY <1>1, BeginHolds
    <3>2. UNCHANGED devices
      BY <1>1 DEF Begin, db
    <3>3. First(k) # "insert"
      BY DEF First
    <3> QED BY <3>1, <3>2, <3>3
  <2>2. Adding' \subseteq Adding
    BY <1>1, <2>1, BeginHolds DEF Adding
  <2> QED BY <2>1, <2>2, FewerAdding
<1>2. ASSUME NEW s \in Sessions, Local(s), ~ CountDevices(s), ~ DefaultDevice(s) PROVE Bounded'
  BY <1>2, LocalAdding, LocalEffect, FewerAdding DEF db
<1>3. ASSUME NEW s \in Sessions, sess' = [sess EXCEPT ![s] = Idle], UNCHANGED devices PROVE Bounded'
  <2>1. Adding' \subseteq Adding
    BY <1>3, EndHolds DEF Adding, Added, Idle
  <2> QED BY <1>3, <2>1, FewerAdding
<1>4. ASSUME NEW s \in Sessions, CountDevices(s) PROVE Bounded'
  <2>1. CASE BelowLimit(Cardinality(devices))
    <3>1. devices' = devices /\ Cardinality(devices) < Limit
      BY <1>4, <2>1 DEF CountDevices, BelowLimit, db
    <3> HIDE DEF Adding
    <3> QED BY <1>0, <3>1, Sizes DEF Bounded
  <2>2. CASE ~ BelowLimit(Cardinality(devices))
    BY <1>3, <1>4, <2>2 DEF CountDevices, Step, db
  <2> QED BY <2>1, <2>2
<1>5. ASSUME NEW s \in Sessions, DefaultDevice(s) PROVE Bounded'
  <2>1. sess[s].pc = "devices"
    BY <1>5 DEF DefaultDevice, Step
  <2>2. Removed(s) = {}
    BY <2>1 DEF Phase, Removed
  <2>3. devices = {} /\ devices' = devices
    BY <1>5, <2>2 DEF DefaultDevice, DevicesSeen, db
  <2>4. Cardinality(devices') = 0 /\ Limit >= 1
    BY <2>3, FS_EmptySet DEF CredentialsAssumption
  <2> HIDE DEF Adding
  <2> QED BY <1>0, <2>4, Sizes DEF Bounded
<1>6. ASSUME NEW s \in Sessions, Commit(s) PROVE Bounded'
  <2>1. /\ sess'[s].pc = "idle" /\ Added(s)' = {} /\ sess[s].pc = "done"
        /\ \A t \in Sessions : t # s => sess'[t] = sess[t]
    <3>1. sess' = [sess EXCEPT ![s] = Idle] /\ sess[s].pc = "done"
      BY <1>6 DEF Commit, Step
    <3>2. sess'[s] = Idle /\ Added(s)' = {} /\ \A t \in Sessions : t # s => sess'[t] = sess[t]
      BY <3>1, EndHolds
    <3> QED BY <3>1, <3>2 DEF Idle
  <2>2. Adding' \subseteq Adding \ {s}
    BY <2>1 DEF Adding, Added
  <2>3. CASE Added(s) = {}
    <3>1. devices' \subseteq devices
      BY <1>6, <2>3 DEF Commit, DevicesSeen
    <3> QED BY <2>2, <3>1, FewerAdding
  <2>4. CASE Added(s) # {}
    <3> DEFINE d == sess[s].target
    <3>1. Added(s) = {d} /\ d \in Ids /\ s \in Adding
      BY <2>4 DEF Added, Adding, TypeOK, Requests
    <3>2. devices' \subseteq devices \cup {d}
      BY <1>6, <3>1 DEF Commit, DevicesSeen
    <3>3. devices \cup {d} \in SUBSET Ids
      BY <1>0, <3>1
    <3>4. Cardinality(devices \cup {d}) <= Cardinality(devices) + 1
      <4>1. IsFiniteSet(devices) /\ Cardinality(devices) \in Nat
        BY <1>0, Sizes
      <4> HIDE DEF d
      <4>2. Cardinality(devices \cup {d}) =
              IF d \in devices THEN Cardinality(devices) ELSE Cardinality(devices) + 1
        BY <4>1, FS_AddElement, Zenon
      <4> QED BY <4>1, <4>2
    <3>5. Cardinality(devices') <= Cardinality(devices \cup {d})
      BY <3>2, <3>3, Sizes, FS_Subset
    <3>6. Cardinality(Adding \ {s}) = Cardinality(Adding) - 1
      BY <1>0, <3>1, Sizes, FS_RemoveElement
    <3>7. Cardinality(Adding') <= Cardinality(Adding \ {s})
      BY <1>0, <2>2, Sizes, FS_Subset
    <3> HIDE DEF Adding, d
    <3> QED BY <1>0, <3>3, <3>4, <3>5, <3>6, <3>7, Sizes DEF Bounded
  <2> QED BY <2>3, <2>4
<1>7. ASSUME (\E c \in Configs : Toggle(c)) \/ UNCHANGED vars PROVE Bounded'
  <2>1. UNCHANGED <<devices, sess>>
    BY <1>7 DEF Toggle, vars, db
  <2>2. Adding' = Adding
    BY <2>1 DEF Adding, Added
  <2> QED BY <2>1, <2>2, FewerAdding
<1>8. ASSUME NEW s \in Sessions, GivesUp(s) PROVE Bounded'
  BY <1>3, <1>8 DEF GivesUp, db
<1> QED BY <1>1, <1>2, <1>4, <1>5, <1>6, <1>7, <1>8, StepKinds

LEMMA BoundedInit == ASSUME CredentialsAssumption, Init PROVE Bounded
<1>1. Adding = {}
  BY DEF Init, Adding, Added, Idle
<1>2. Cardinality(Adding) = 0
  BY <1>1, FS_EmptySet
<1>3. Cardinality(devices) \in Nat /\ Cardinality(devices) <= 1
  <2>1. CASE devices = {}
    BY <2>1, FS_EmptySet
  <2>2. CASE devices = {1}
    <3>1. Cardinality({1}) = 1
      BY FS_Singleton
    <3> QED BY <2>2, <3>1
  <2> QED BY <2>1, <2>2 DEF Init
<1>4. IsFiniteSet(Sessions) /\ Sessions # {} /\ Limit \in Nat \ {0}
  BY DEF CredentialsAssumption
<1>5. Cardinality(Sessions) \in Nat
  BY <1>4, FS_CardinalityType
<1>6. Cardinality(Sessions) # 0
  BY <1>4, FS_EmptySet
<1> HIDE DEF Adding
<1> QED BY <1>2, <1>3, <1>4, <1>5, <1>6 DEF Bounded

-------------------------------------------------------------------------------
(* The links                                                               *)

\* A link that was handed out works, and belongs to the present token.
Current == \A h \in handed : Works(h) /\ h.token = token

\* A link that was withdrawn does not.
Gone == \A h \in withdrawn : ~ Works(h)

\* A uuid that is about to replace a handed one comes with its revocation.
Replaced ==
  \A s \in Sessions, h \in handed : sess[s].plan[h.key] # 0 => h.key \in sess[s].cut

\* What a request that runs alone has loaded, and answered, is still so.
Snapshot ==
  \A s \in Sessions : Running(s) /\ sess[s].quiet =>
    /\ sess[s].token = token
    /\ \A k \in Keys : sess[s].seen[k] \in {0, uuid[k]}
    /\ \A h \in sess[s].answer :
         /\ h.token = token /\ h.key \in LiveSeen(s)
         /\ h.uuid = IF sess[s].plan[h.key] # 0 THEN sess[s].plan[h.key] ELSE uuid[h.key]

\* A reset revokes whatever has been handed out.
ResetCuts ==
  \A s \in Sessions, h \in handed :
    sess[s].kind = "reset" /\ sess[s].pc # "revoke" => h.key \in sess[s].cut

\* A uuid is made once: a planned one is in no row, no link and no other plan.
Fresh ==
  /\ \A k \in Keys : uuid[k] <= made[k]
  /\ \A h \in handed \cup withdrawn : h.uuid <= made[h.key]
  /\ \A s \in Sessions, k \in Keys : sess[s].plan[k] # 0 =>
       /\ sess[s].plan[k] <= made[k] /\ sess[s].plan[k] # uuid[k]
       /\ \A h \in withdrawn : h.key = k => h.uuid # sess[s].plan[k]
       /\ \A t \in Sessions : t # s => sess[t].plan[k] # sess[s].plan[k]

LinkInv == Current /\ Gone /\ Replaced /\ Snapshot /\ ResetCuts /\ Fresh

\* The request that commits a quiet answer ran alone.
LEMMA Alone == ASSUME TypeOK, Quiet, Phase, NEW s \in Sessions, Running(s), sess[s].quiet,
                      NEW t \in Sessions, t # s
               PROVE sess[t] = Idle
  BY DEF Quiet, Phase, Running

\* What a commit makes of the rows.
LEMMA CommitRows == ASSUME TypeOK, Phase, NEW s \in Sessions, Commit(s)
                    PROVE /\ Running(s) /\ \A t \in Sessions : t # s => sess'[t] = sess[t]
                          /\ sess'[s] = Idle /\ UNCHANGED made
                          /\ Renewed(s) = Planned(s) /\ (Planned(s) = {} \/ Removed(s) = {})
                          /\ \A k \in Keys : uuid'[k] =
                               IF k \in Removed(s) \X Configs THEN 0
                               ELSE IF sess[s].plan[k] # 0 THEN sess[s].plan[k] ELSE uuid[k]
                          /\ live' = (live \ (sess[s].cut \cup (Removed(s) \X Configs))) \cup Planned(s)
<1>1. sess[s].pc = "done" /\ sess' = [sess EXCEPT ![s] = Idle] /\ UNCHANGED made
  BY DEF Commit, Step
<1>2. sess'[s] = Idle /\ \A t \in Sessions : t # s => sess'[t] = sess[t]
  BY <1>1, EndHolds
<1>3. Renewed(s) = Planned(s) /\ Running(s)
  BY <1>1 DEF Renewed, Running
<1>4. Planned(s) = {} \/ Removed(s) = {}
  BY DEF Phase, Planned, Removed, NoRow
<1>5. \A k \in Keys : k \in Planned(s) <=> sess[s].plan[k] # 0
  BY DEF Planned
<1>6. \A k \in Keys : uuid'[k] =
        IF k \in Removed(s) \X Configs THEN 0
        ELSE IF k \in Renewed(s) THEN sess[s].plan[k] ELSE uuid[k]
  BY DEF Commit
<1>7. live' = (live \ (sess[s].cut \cup (Removed(s) \X Configs))) \cup Planned(s)
  BY <1>3 DEF Commit, StayingLive
<1> QED BY <1>1, <1>2, <1>3, <1>4, <1>5, <1>6, <1>7

\* What a commit makes of the links.
LEMMA CommitLinks == ASSUME TypeOK, Phase, Current, NEW s \in Sessions, Commit(s)
                     PROVE /\ \A h \in handed' : (h \in handed /\ h.key \notin sess[s].cut \cup (Removed(s) \X Configs))
                                                \/ (h \in sess[s].answer /\ sess[s].quiet)
                           /\ \A h \in withdrawn' : h \in withdrawn
                                \/ (h \in handed /\ h.key \in sess[s].cut \cup (Removed(s) \X Configs)
                                    /\ h.uuid = uuid[h.key])
  BY DEF Commit, Current, Works

LEMMA CurrentStep == ASSUME CredentialsAssumption, TypeOK, Phase, LinkInv, [Next]_vars
                     PROVE Current'
<1>1. ASSUME NEW s \in Sessions, Commit(s) PROVE Current'
  <2>1. ASSUME NEW h \in handed, h.key \notin sess[s].cut \cup (Removed(s) \X Configs)
        PROVE Works(h)' /\ h.token = token'
    <3>1. h.key \in live /\ uuid[h.key] = h.uuid /\ h.key \in Keys /\ h.token = token
      BY DEF LinkInv, Current, Works, TypeOK
    <3>2. sess[s].plan[h.key] = 0
      BY <2>1 DEF LinkInv, Replaced
    <3>3. sess[s].kind # "reset"
      BY <1>1, <2>1 DEF LinkInv, ResetCuts, Commit, Step
    <3>4. uuid'[h.key] = h.uuid /\ h.key \in live'
      BY <1>1, <2>1, <3>1, <3>2, CommitRows
    <3>5. token' = token
      BY <1>1, <3>3 DEF Commit
    <3> QED BY <3>1, <3>4, <3>5 DEF Works
  <2>2. ASSUME NEW h \in sess[s].answer, sess[s].quiet PROVE Works(h)' /\ h.token = token'
    <3>1. sess[s].kind = "feed" /\ Running(s)
      BY <1>1, CommitRows DEF Phase
    <3>2. /\ h.token = token /\ h.key \in LiveSeen(s)
          /\ h.uuid = IF sess[s].plan[h.key] # 0 THEN sess[s].plan[h.key] ELSE uuid[h.key]
      BY <2>2, <3>1 DEF LinkInv, Snapshot
    <3>3. Removed(s) = {} /\ h.key \in Keys
      BY <3>1, <3>2, SeenType DEF Removed
    <3>4. live' = LiveSeen(s)
      BY <1>1, <3>3, CommitRows DEF LiveSeen
    <3>5. uuid'[h.key] = h.uuid
      BY <1>1, <3>2, <3>3, CommitRows
    <3>6. token' = token
      BY <1>1, <3>1 DEF Commit
    <3> QED BY <3>2, <3>4, <3>5, <3>6 DEF Works
  <2>3. Current
    BY DEF LinkInv
  <2> QED BY <1>1, <2>1, <2>2, <2>3, CommitLinks DEF Current
<1>2. CASE UNCHANGED <<uuid, live, token, handed>>
  BY <1>2 DEF LinkInv, Current, Works
<1>3. ASSUME NEW s \in Sessions, Local(s) PROVE UNCHANGED <<uuid, live, token, handed>>
  BY <1>3, LocalEffect, SMTT(20) DEF db, history
<1> QED BY <1>1, <1>2, <1>3, StepKinds DEF Begin, GivesUp, Toggle, vars, db, history

LEMMA GoneStep == ASSUME CredentialsAssumption, TypeOK, Phase, LinkInv, [Next]_vars
                  PROVE Gone'
<1>1. ASSUME NEW s \in Sessions, Commit(s) PROVE Gone'
  <2>1. ASSUME NEW h \in withdrawn PROVE ~ Works(h)'
    <3>1. h.key \in Keys /\ ~ Works(h) /\ (sess[s].plan[h.key] # 0 => h.uuid # sess[s].plan[h.key])
      BY DEF LinkInv, Gone, Fresh, TypeOK, Links
    <3>2. CASE h.key \in Planned(s)
      <4>1. uuid'[h.key] = sess[s].plan[h.key] /\ sess[s].plan[h.key] # 0
        BY <1>1, <3>1, <3>2, CommitRows DEF Planned
      <4> QED BY <3>1, <4>1 DEF Works
    <3>3. CASE h.key \notin Planned(s) /\ h.key \in Removed(s) \X Configs
      BY <1>1, <3>3, CommitRows DEF Works
    <3>4. CASE h.key \notin Planned(s) /\ h.key \notin Removed(s) \X Configs
      <4>1. uuid'[h.key] = uuid[h.key] /\ (h.key \in live' => h.key \in live)
        BY <1>1, <3>1, <3>4, CommitRows DEF Planned
      <4> QED BY <3>1, <4>1 DEF Works
    <3> QED BY <3>2, <3>3, <3>4
  <2>2. ASSUME NEW h \in handed, h.key \in sess[s].cut \cup (Removed(s) \X Configs), h.uuid = uuid[h.key]
        PROVE ~ Works(h)'
    <3>1. h.key \in Keys
      BY DEF TypeOK, Links
    <3>2. CASE h.key \in Planned(s)
      <4>1. uuid'[h.key] = sess[s].plan[h.key] /\ sess[s].plan[h.key] # uuid[h.key]
        BY <1>1, <3>1, <3>2, CommitRows DEF Planned, LinkInv, Fresh
      <4> QED BY <2>2, <4>1 DEF Works
    <3>3. CASE h.key \notin Planned(s)
      BY <1>1, <2>2, <3>3, CommitRows DEF Works
    <3> QED BY <3>2, <3>3
  <2> QED BY <1>1, <2>1, <2>2, CommitLinks DEF Gone, LinkInv
<1>2. CASE UNCHANGED <<uuid, live, withdrawn>>
  BY <1>2 DEF LinkInv, Gone, Works
<1>3. ASSUME NEW s \in Sessions, Local(s) PROVE UNCHANGED <<uuid, live, withdrawn>>
  BY <1>3, LocalEffect DEF db, history
<1> QED BY <1>1, <1>2, <1>3, StepKinds DEF Begin, GivesUp, Toggle, vars, db, history

\* What ensure_credentials plans is not live, or was revoked by the request itself.
LEMMA LoadPlan == ASSUME TypeOK, Phase, NEW s \in Sessions, Load(s)
                  PROVE /\ sess'[s].cut = sess[s].cut /\ sess'[s].seen = uuid /\ sess'[s].answer = {}
                        /\ sess'[s].token = sess[s].token /\ sess'[s].quiet = sess[s].quiet
                        /\ sess'[s].pc = "flush" /\ Running(s) /\ sess[s].plan = NoRow
                        /\ \A k \in Keys :
                             \/ sess'[s].plan[k] = 0 /\ made'[k] = made[k]
                             \/ /\ sess'[s].plan[k] = made[k] + 1 /\ made'[k] = made[k] + 1
                                /\ k \in live => k \in sess[s].cut
                        /\ \A t \in Sessions : t # s => sess'[t] = sess[t]
<1> DEFINE r == sess[s]
           K == Missing(r.listed \X r.configs, LiveSeen(s))
           p == [k \in Keys |-> IF k \in K THEN made[k] + 1 ELSE 0]
           D == {k \in LiveSeen(s) : k[2] \notin r.configs}
<1>0. r \in Requests /\ sess \in [Sessions -> Requests]
  BY DEF TypeOK
<1>1. sess'[s] = [r EXCEPT !.pc = "flush", !.seen = uuid, !.plan = p, !.dying = D,
                           !.listed = {}, !.configs = {}]
  BY <1>0 DEF Load, Step
<1>2. \A k \in Keys : made'[k] = IF k \in K THEN made[k] + 1 ELSE made[k]
  BY DEF Load
<1>3. r.pc = "load" /\ \A t \in Sessions : t # s => sess'[t] = sess[t]
  BY <1>0 DEF Load, Step
<1>4. r.plan = NoRow /\ r.answer = {} /\ Running(s)
  BY <1>3 DEF Phase, Early, Running
<1>5. \A k \in K : k \in live => k \in r.cut
  BY DEF Missing, LiveSeen
<1>6. \A k \in Keys : p[k] = IF k \in K THEN made[k] + 1 ELSE 0
  OBVIOUS
<1> HIDE DEF p, D, K
<1>7. /\ sess'[s].cut = r.cut /\ sess'[s].seen = uuid /\ sess'[s].plan = p /\ sess'[s].pc = "flush"
      /\ sess'[s].token = r.token /\ sess'[s].quiet = r.quiet /\ sess'[s].answer = r.answer
  BY <1>0, <1>1 DEF Requests
<1> QED BY <1>2, <1>3, <1>4, <1>5, <1>6, <1>7

LEMMA ReplacedStep == ASSUME CredentialsAssumption, TypeOK, Quiet, Phase, LinkInv, [Next]_vars
                      PROVE Replaced'
<1>0. /\ \A h \in handed : h.key \in Keys /\ h.key \in live
      /\ \A k \in Keys : NoRow[k] = 0 /\ Idle.plan[k] = 0
  BY DEF TypeOK, Links, LinkInv, Current, Works, NoRow, Idle
<1>1. ASSUME NEW s \in Sessions, NEW k \in {"feed", "renew", "reset", "expire", "add", "delete"},
             NEW d \in Ids \cup {0}, Begin(s, k, d)
      PROVE Replaced'
  <2>1. UNCHANGED handed
    BY <1>1 DEF Begin, history
  <2>2. sess'[s].plan = NoRow /\ \A t \in Sessions : t # s =>
          sess'[t].cut = sess[t].cut /\ sess'[t].plan = sess[t].plan
    BY <1>1, BeginHolds
  <2> QED BY <1>0, <2>1, <2>2 DEF LinkInv, Replaced
<1>2. ASSUME NEW s \in Sessions, Local(s) PROVE Replaced'
  <2>1. UNCHANGED handed /\ \A t \in Sessions : t # s => sess'[t] = sess[t]
    BY <1>2, LocalEffect DEF history
  <2>2. ASSUME NEW h \in handed, sess'[s].plan[h.key] # 0 PROVE h.key \in sess'[s].cut
    <3>1. CASE Load(s)
      BY <1>0, <2>2, <3>1, LoadPlan
    <3>2. CASE ~ Load(s)
      BY <1>0, <1>2, <2>2, <3>2, LocalEffect DEF LinkInv, Replaced
    <3> QED BY <3>1, <3>2
  <2> QED BY <2>1, <2>2 DEF LinkInv, Replaced
<1>3. ASSUME NEW s \in Sessions, Commit(s) PROVE Replaced'
  <2>1. sess'[s] = Idle /\ Running(s) /\ \A t \in Sessions : t # s => sess'[t] = sess[t]
    BY <1>3, CommitRows
  <2>2. ASSUME NEW h \in sess[s].answer, sess[s].quiet, NEW t \in Sessions PROVE sess'[t].plan[h.key] = 0
    <3>1. h.key \in Keys
      BY DEF TypeOK, Requests, Links
    <3>2. sess'[t] = Idle
      BY <2>1, <2>2, Alone
    <3> QED BY <1>0, <3>1, <3>2
  <2>3. ASSUME NEW h \in handed, NEW t \in Sessions, sess'[t].plan[h.key] # 0
        PROVE h.key \in sess'[t].cut
    BY <1>0, <2>1, <2>3 DEF LinkInv, Replaced
  <2>4. Current
    BY DEF LinkInv
  <2> QED BY <1>3, <2>2, <2>3, <2>4, CommitLinks DEF Replaced
<1>4. ASSUME NEW s \in Sessions, GivesUp(s) PROVE Replaced'
  <2>1. sess'[s] = Idle /\ UNCHANGED handed /\ \A t \in Sessions : t # s => sess'[t] = sess[t]
    BY <1>4, EndHolds DEF GivesUp, history
  <2> QED BY <1>0, <2>1 DEF LinkInv, Replaced
<1>5. CASE (\E c \in Configs : Toggle(c)) \/ UNCHANGED vars
  BY <1>5 DEF Toggle, vars, history, LinkInv, Replaced
<1> QED BY <1>1, <1>2, <1>3, <1>4, <1>5, StepKinds

LEMMA ResetCutsStep == ASSUME CredentialsAssumption, TypeOK, Quiet, Phase, LinkInv, [Next]_vars
                       PROVE ResetCuts'
<1>0. (\A h \in handed : h.key \in live) /\ Idle.kind # "reset"
  BY DEF LinkInv, Current, Works, Idle
<1>1. ASSUME NEW s \in Sessions, NEW k \in {"feed", "renew", "reset", "expire", "add", "delete"},
             NEW d \in Ids \cup {0}, Begin(s, k, d)
      PROVE ResetCuts'
  <2>1. UNCHANGED handed /\ sess'[s].kind = k
    BY <1>1 DEF Begin, history, Idle
  <2>2. sess'[s].pc = First(k) /\ \A t \in Sessions : t # s =>
          /\ sess'[t].cut = sess[t].cut /\ sess'[t].kind = sess[t].kind /\ sess'[t].pc = sess[t].pc
    BY <1>1, BeginHolds
  <2>3. k = "reset" => First(k) = "revoke"
    BY DEF First
  <2> QED BY <2>1, <2>2, <2>3 DEF LinkInv, ResetCuts
<1>2. ASSUME NEW s \in Sessions, Local(s) PROVE ResetCuts'
  <2>1. UNCHANGED handed /\ \A t \in Sessions : t # s => sess'[t] = sess[t]
    BY <1>2, LocalEffect DEF history
  <2>2. ASSUME NEW h \in handed, sess'[s].kind = "reset" PROVE h.key \in sess'[s].cut
    <3>1. sess[s].kind = "reset" /\ sess[s].cut \subseteq sess'[s].cut
      BY <1>0, <1>2, <2>2, LocalEffect
    <3>2. CASE sess[s].pc = "revoke"
      <4>1. Revoke(s)
        BY <1>2, <3>2 DEF Local, Step, Remove, CountDevices, AddDevice, ListDevices,
                          DefaultDevice, ListConfigs, Load, Flush, Answer
      <4>2. sess'[s].cut = ToRevoke(s) /\ sess[s].cut = {}
        BY <4>1, <3>2 DEF Revoke, Step, TypeOK, Requests, Phase
      <4>3. h.key \in LiveSeen(s)
        BY <1>0, <4>2 DEF LiveSeen
      <4> QED BY <3>1, <4>2, <4>3 DEF ToRevoke
    <3>3. CASE sess[s].pc # "revoke"
      BY <3>1, <3>3 DEF LinkInv, ResetCuts
    <3> QED BY <3>2, <3>3
  <2> QED BY <2>1, <2>2 DEF LinkInv, ResetCuts
<1>3. ASSUME NEW s \in Sessions, Commit(s) PROVE ResetCuts'
  <2>1. sess'[s] = Idle /\ Running(s) /\ \A t \in Sessions : t # s => sess'[t] = sess[t]
    BY <1>3, CommitRows
  <2>2. sess[s].quiet => \A t \in Sessions : sess'[t] = Idle
    BY <2>1, Alone
  <2>3. Current
    BY DEF LinkInv
  <2>4. \A h \in handed' : h \in handed \/ sess[s].quiet
    BY <1>3, <2>3, CommitLinks
  <2> QED BY <1>0, <2>1, <2>2, <2>4 DEF LinkInv, ResetCuts
<1>4. ASSUME NEW s \in Sessions, GivesUp(s) PROVE ResetCuts'
  <2>1. sess'[s] = Idle /\ UNCHANGED handed /\ \A t \in Sessions : t # s => sess'[t] = sess[t]
    BY <1>4, EndHolds DEF GivesUp, history
  <2> QED BY <1>0, <2>1 DEF LinkInv, ResetCuts
<1>5. CASE (\E c \in Configs : Toggle(c)) \/ UNCHANGED vars
  BY <1>5 DEF Toggle, vars, history, LinkInv, ResetCuts
<1> QED BY <1>1, <1>2, <1>3, <1>4, <1>5, StepKinds

\* One session's part of Snapshot.
Matches(s) ==
  /\ sess[s].token = token
  /\ \A k \in Keys : sess[s].seen[k] \in {0, uuid[k]}
  /\ \A h \in sess[s].answer :
       /\ h.token = token /\ h.key \in LiveSeen(s)
       /\ h.uuid = IF sess[s].plan[h.key] # 0 THEN sess[s].plan[h.key] ELSE uuid[h.key]

\* Answer gives the uuids that the commit will leave.
LEMMA AnswerMatches == ASSUME TypeOK, Phase, NEW s \in Sessions, Matches(s), Answer(s)
                       PROVE Matches(s)'
<1> DEFINE r == sess[s]
           link(k) == IF r.plan[k] # 0 THEN r.plan[k]
                      ELSE IF r.seen[k] # 0 THEN r.seen[k] ELSE uuid[k]
           A == {[token |-> r.token, key |-> k, uuid |-> link(k)] :
                   k \in {j \in LiveSeen(s) : j[2] \in active}}
<1>0. r \in Requests /\ sess \in [Sessions -> Requests] /\ r.pc = "answer"
  BY DEF TypeOK, Answer, Step
<1>1. ASSUME NEW k \in LiveSeen(s) PROVE link(k) = IF r.plan[k] # 0 THEN r.plan[k] ELSE uuid[k]
  <2>1. CASE r.plan[k] # 0
    BY <2>1
  <2>2. CASE r.plan[k] = 0
    <3>1. k \in Keys /\ k \in live
      BY <1>1, <2>2, SeenType DEF LiveSeen, Renewed, Planned
    <3>2. r.seen[k] \in {0, uuid[k]}
      BY <3>1 DEF Matches
    <3> QED BY <2>2, <3>2
  <2> QED BY <2>1, <2>2
<1>2. \A h \in A : /\ h.token = r.token /\ h.key \in LiveSeen(s)
                  /\ h.uuid = IF r.plan[h.key] # 0 THEN r.plan[h.key] ELSE uuid[h.key]
  <2> HIDE DEF link
  <2> QED BY <1>1
<1>3. sess' = [sess EXCEPT ![s] = [r EXCEPT !.pc = "done", !.seen = NoRow, !.answer = A]]
  BY DEF Answer, Step
<1> HIDE DEF A
<1>4. /\ sess'[s].answer = A /\ sess'[s].seen = NoRow /\ sess'[s].plan = r.plan
      /\ sess'[s].token = r.token /\ sess'[s].cut = r.cut /\ sess'[s].pc = "done"
  BY <1>0, <1>3 DEF Requests
<1>5. UNCHANGED <<token, uuid, live>>
  BY DEF Answer, db
<1>6. LiveSeen(s)' = LiveSeen(s)
  BY <1>0, <1>4, <1>5 DEF LiveSeen, Renewed, Planned
<1>7. \A k \in Keys : NoRow[k] = 0
  BY DEF NoRow
<1> QED BY <1>2, <1>4, <1>5, <1>6, <1>7 DEF Matches

LEMMA SnapshotStep == ASSUME CredentialsAssumption, TypeOK, Quiet, Phase, LinkInv, [Next]_vars
                      PROVE Snapshot'
<1>0. /\ \A t \in Sessions : Running(t) /\ sess[t].quiet => Matches(t)
      /\ (\A t \in Sessions : Running(t)' /\ sess'[t].quiet => Matches(t)') => Snapshot'
      /\ Idle.pc = "idle" /\ \A k \in Keys : NoRow[k] = 0
  BY DEF LinkInv, Snapshot, Matches, Idle, NoRow
<1>1. ASSUME NEW t \in Sessions, Matches(t), sess'[t] = sess[t], UNCHANGED <<token, uuid, live>>
      PROVE Matches(t)'
  BY <1>1 DEF Matches, LiveSeen, Renewed, Planned
<1>2. ASSUME NEW s \in Sessions, NEW k \in {"feed", "renew", "reset", "expire", "add", "delete"},
             NEW d \in Ids \cup {0}, Begin(s, k, d)
      PROVE Snapshot'
  <2>1. UNCHANGED <<token, uuid, live>>
    BY <1>2 DEF Begin, db
  <2>2. Matches(s)'
    <3>1. sess'[s].seen = NoRow /\ sess'[s].answer = {} /\ sess'[s].token = token
      BY <1>2, BeginHolds
    <3> QED BY <1>0, <2>1, <3>1 DEF Matches
  <2>3. ASSUME NEW t \in Sessions, t # s, Running(t)' PROVE ~ sess'[t].quiet
    <3>1. Running(t)
      BY <1>2, <2>3, BeginHolds DEF Running
    <3>2. sess'[t] = [sess[t] EXCEPT !.quiet = FALSE]
      BY <1>2, <2>3, <3>1 DEF Begin
    <3> QED BY <3>2 DEF TypeOK, Requests
  <2> QED BY <1>0, <2>2, <2>3
<1>3. ASSUME NEW s \in Sessions, Local(s) PROVE Snapshot'
  <2>1. UNCHANGED <<token, uuid, live>> /\ Running(s)
    <3>1. UNCHANGED db /\ Running(s)
      BY <1>3, LocalEffect
    <3> QED BY <3>1 DEF db
  <2>2. (\A t \in Sessions : t # s => sess'[t] = sess[t])
        /\ (sess'[s].quiet = sess[s].quiet \/ sess'[s] = Idle)
    BY <1>3, LocalEffect, LocalQuiet
  <2>3. ASSUME Running(s)', sess'[s].quiet PROVE Matches(s)'
    <3>1. sess'[s] # Idle
      BY <1>0, <2>3 DEF Running
    <3>2. Matches(s)
      BY <1>0, <2>1, <2>2, <2>3, <3>1
    <3>3. CASE Load(s)
      <4>1. sess'[s].seen = uuid /\ sess'[s].answer = {} /\ sess'[s].token = sess[s].token
        BY <3>3, LoadPlan
      <4> QED BY <2>1, <3>2, <4>1 DEF Matches
    <3>4. CASE Answer(s)
      BY <3>2, <3>4, AnswerMatches
    <3>5. CASE ~ Load(s) /\ ~ Answer(s)
      <4>1. /\ sess'[s].token = sess[s].token /\ sess'[s].seen \in {sess[s].seen, NoRow}
            /\ sess'[s].answer = sess[s].answer
        BY <1>3, <3>1, <3>5, LocalEffect
      <4>2. sess[s].pc # "done"
        BY <1>3 DEF Local, Step, Revoke, Remove, CountDevices, AddDevice, ListDevices,
                    DefaultDevice, ListConfigs, Load, Flush, Answer
      <4>3. sess'[s].answer = {}
        BY <4>1, <4>2 DEF Phase
      <4> QED BY <1>0, <2>1, <3>2, <4>1, <4>3 DEF Matches
    <3> QED BY <3>3, <3>4, <3>5
  <2>4. ASSUME NEW t \in Sessions, t # s, Running(t)', sess'[t].quiet PROVE Matches(t)'
    BY <1>0, <1>1, <2>1, <2>2, <2>4 DEF Running
  <2> QED BY <1>0, <2>3, <2>4
<1>4. ASSUME NEW s \in Sessions, Commit(s) PROVE Snapshot'
  <2>1. sess'[s] = Idle /\ Running(s) /\ \A t \in Sessions : t # s => sess'[t] = sess[t]
    BY <1>4, CommitRows
  <2>2. \A t \in Sessions : Running(t)' => ~ sess'[t].quiet
    BY <1>0, <2>1 DEF Running, Quiet
  <2> QED BY <1>0, <2>2
<1>5. ASSUME NEW s \in Sessions, GivesUp(s) PROVE Snapshot'
  <2>1. /\ sess'[s] = Idle /\ UNCHANGED <<token, uuid, live>>
        /\ \A t \in Sessions : t # s => sess'[t] = sess[t]
    BY <1>5, EndHolds DEF GivesUp, db
  <2>2. \A t \in Sessions : Running(t)' /\ sess'[t].quiet => Matches(t)'
    BY <1>0, <1>1, <2>1 DEF Running
  <2> QED BY <1>0, <2>2
<1>6. CASE (\E c \in Configs : Toggle(c)) \/ UNCHANGED vars
  <2>1. UNCHANGED <<token, uuid, live, sess>>
    BY <1>6 DEF Toggle, vars, db
  <2>2. \A t \in Sessions : Running(t)' /\ sess'[t].quiet => Matches(t)'
    BY <1>0, <1>1, <2>1 DEF Running
  <2> QED BY <1>0, <2>2
<1> QED BY <1>2, <1>3, <1>4, <1>5, <1>6, StepKinds

LEMMA FreshStep == ASSUME CredentialsAssumption, TypeOK, Phase, LinkInv, [Next]_vars
                   PROVE Fresh'
<1>0. /\ \A h \in handed \cup withdrawn : h.key \in Keys /\ h.uuid \in Nat
      /\ \A k \in Keys : NoRow[k] = 0 /\ Idle.plan[k] = 0
      /\ \A k \in Keys : uuid[k] \in Nat /\ made[k] \in Nat
  BY DEF TypeOK, Links, NoRow, Idle
<1>1. ASSUME NEW s \in Sessions, NEW k \in {"feed", "renew", "reset", "expire", "add", "delete"},
             NEW d \in Ids \cup {0}, Begin(s, k, d)
      PROVE Fresh'
  <2>1. UNCHANGED <<handed, withdrawn, uuid, made>>
    BY <1>1 DEF Begin, history, db
  <2>2. sess'[s].plan = NoRow /\ \A t \in Sessions : t # s => sess'[t].plan = sess[t].plan
    BY <1>1, BeginHolds
  <2> QED BY <1>0, <2>1, <2>2 DEF LinkInv, Fresh
<1>2. ASSUME NEW s \in Sessions, Load(s) PROVE Fresh'
  <2>1. UNCHANGED <<handed, withdrawn, uuid>>
    BY <1>2 DEF Load, history, db
  <2>2. /\ \A k \in Keys :
             \/ sess'[s].plan[k] = 0 /\ made'[k] = made[k]
             \/ sess'[s].plan[k] = made[k] + 1 /\ made'[k] = made[k] + 1
        /\ \A t \in Sessions : t # s => sess'[t] = sess[t]
    BY <1>2, LoadPlan
  <2>3. \A t \in Sessions, k \in Keys : sess[t].plan[k] \in Nat /\ sess[t].plan[k] <= made[k]
    BY <1>0 DEF LinkInv, Fresh, TypeOK, Requests
  <2>4. /\ \A k \in Keys : uuid'[k] <= made'[k]
        /\ \A h \in handed' \cup withdrawn' : h.uuid <= made'[h.key]
    BY <1>0, <2>1, <2>2 DEF LinkInv, Fresh
  <2>5. ASSUME NEW k \in Keys, sess'[s].plan[k] # 0
        PROVE /\ sess'[s].plan[k] <= made'[k] /\ sess'[s].plan[k] # uuid'[k]
              /\ \A h \in withdrawn' : h.key = k => h.uuid # sess'[s].plan[k]
              /\ \A t \in Sessions : t # s => sess'[t].plan[k] # sess'[s].plan[k]
    <3>1. sess'[s].plan[k] = made[k] + 1 /\ made'[k] = made[k] + 1
      BY <2>2, <2>5
    <3>2. \A h \in withdrawn : h.key = k => h.uuid <= made[k]
      BY DEF LinkInv, Fresh
    <3>3. uuid[k] <= made[k]
      BY DEF LinkInv, Fresh
    <3> QED BY <1>0, <2>1, <2>2, <2>3, <3>1, <3>2, <3>3
  <2>6. ASSUME NEW t \in Sessions, t # s, NEW k \in Keys, sess'[t].plan[k] # 0
        PROVE /\ sess'[t].plan[k] <= made'[k] /\ sess'[t].plan[k] # uuid'[k]
              /\ \A h \in withdrawn' : h.key = k => h.uuid # sess'[t].plan[k]
              /\ \A u \in Sessions : u # t => sess'[u].plan[k] # sess'[t].plan[k]
    <3>1. /\ sess[t].plan[k] <= made[k] /\ sess[t].plan[k] # uuid[k]
          /\ \A h \in withdrawn : h.key = k => h.uuid # sess[t].plan[k]
          /\ \A u \in Sessions : u # t => sess[u].plan[k] # sess[t].plan[k]
      BY <2>2, <2>6 DEF LinkInv, Fresh
    <3>2. sess'[s].plan[k] # sess'[t].plan[k]
      BY <1>0, <2>2, <2>3, <2>6
    <3> QED BY <1>0, <2>1, <2>2, <2>3, <2>6, <3>1, <3>2
  <2> QED BY <2>4, <2>5, <2>6 DEF Fresh
<1>3. ASSUME NEW s \in Sessions, Local(s), ~ Load(s) PROVE Fresh'
  <2>1. UNCHANGED <<handed, withdrawn, uuid, made>> /\ \A t \in Sessions : t # s => sess'[t] = sess[t]
    BY <1>3, LocalEffect DEF history, db
  <2>2. sess'[s].plan = sess[s].plan \/ sess'[s] = Idle
    BY <1>3, LocalEffect
  <2> QED BY <1>0, <2>1, <2>2 DEF LinkInv, Fresh
<1>4. ASSUME NEW s \in Sessions, Commit(s) PROVE Fresh'
  <2>1. /\ sess'[s] = Idle /\ UNCHANGED made /\ \A t \in Sessions : t # s => sess'[t] = sess[t]
        /\ \A k \in Keys : uuid'[k] \in {0, sess[s].plan[k], uuid[k]}
        /\ \A k \in Keys : sess[s].plan[k] = 0 => uuid'[k] \in {0, uuid[k]}
    BY <1>4, CommitRows
  <2>2. /\ \A h \in handed' : h \in handed \/ (h \in sess[s].answer /\ sess[s].quiet)
        /\ \A h \in withdrawn' : h \in withdrawn \/ (h \in handed /\ h.uuid = uuid[h.key])
    BY <1>4, CommitLinks DEF LinkInv
  <2>3. \A k \in Keys : sess[s].plan[k] \in Nat /\ sess[s].plan[k] <= made[k]
    BY <1>0 DEF LinkInv, Fresh, TypeOK, Requests
  <2>4. \A k \in Keys : uuid'[k] <= made'[k]
    BY <1>0, <2>1, <2>3 DEF LinkInv, Fresh
  <2>5. ASSUME NEW h \in sess[s].answer, sess[s].quiet PROVE h.uuid <= made[h.key]
    <3>1. h.key \in Keys /\ h.uuid = IF sess[s].plan[h.key] # 0 THEN sess[s].plan[h.key] ELSE uuid[h.key]
      BY <1>4, <2>5, CommitRows, SeenType DEF LinkInv, Snapshot
    <3> QED BY <2>3, <3>1 DEF LinkInv, Fresh
  <2>6. \A h \in handed' \cup withdrawn' : h.uuid <= made'[h.key]
    BY <2>1, <2>2, <2>5 DEF LinkInv, Fresh
  <2>7. ASSUME NEW t \in Sessions, NEW k \in Keys, sess'[t].plan[k] # 0
        PROVE /\ sess'[t].plan[k] <= made'[k] /\ sess'[t].plan[k] # uuid'[k]
              /\ \A h \in withdrawn' : h.key = k => h.uuid # sess'[t].plan[k]
              /\ \A u \in Sessions : u # t => sess'[u].plan[k] # sess'[t].plan[k]
    <3>1. t # s /\ sess'[t] = sess[t]
      BY <1>0, <2>1, <2>7
    <3>2. /\ sess[t].plan[k] <= made[k] /\ sess[t].plan[k] # uuid[k]
          /\ \A h \in withdrawn : h.key = k => h.uuid # sess[t].plan[k]
          /\ \A u \in Sessions : u # t => sess[u].plan[k] # sess[t].plan[k]
      BY <2>7, <3>1 DEF LinkInv, Fresh
    <3>3. sess'[t].plan[k] # uuid'[k]
      BY <2>1, <2>7, <3>1, <3>2
    <3>4. \A u \in Sessions : u # t => sess'[u].plan[k] # sess'[t].plan[k]
      BY <1>0, <2>1, <2>7, <3>1, <3>2
    <3>5. \A h \in withdrawn' : h.key = k => h.uuid # sess'[t].plan[k]
      BY <2>2, <3>1, <3>2
    <3> QED BY <2>1, <3>1, <3>2, <3>3, <3>4, <3>5
  <2> QED BY <2>4, <2>6, <2>7 DEF Fresh
<1>5. ASSUME NEW s \in Sessions, GivesUp(s) PROVE Fresh'
  <2>1. /\ sess'[s] = Idle /\ UNCHANGED <<handed, withdrawn, uuid, made>>
        /\ \A t \in Sessions : t # s => sess'[t] = sess[t]
    BY <1>5, EndHolds DEF GivesUp, db, history
  <2> QED BY <1>0, <2>1 DEF LinkInv, Fresh
<1>6. CASE (\E c \in Configs : Toggle(c)) \/ UNCHANGED vars
  BY <1>6 DEF Toggle, vars, db, history, LinkInv, Fresh
<1> QED BY <1>1, <1>2, <1>3, <1>4, <1>5, <1>6, StepKinds

-------------------------------------------------------------------------------
(* The inductive invariant and the theorems                                *)

IInv == TypeOK /\ Quiet /\ Phase /\ Locks /\ Kept /\ Bounded /\ LinkInv

LEMMA InvInit == ASSUME CredentialsAssumption, Init PROVE IInv
<1>1. /\ \A s \in Sessions : sess[s] = Idle
      /\ handed = {} /\ withdrawn = {} /\ made = uuid
      /\ \A k \in Keys : NoRow[k] = 0
  BY DEF Init, NoRow
<1>2. TypeOK
  BY TypeInit
<1>3. /\ Idle.pc = "idle" /\ Idle.cut = {} /\ Idle.kind = "feed" /\ Idle.plan = NoRow
      /\ Idle.target = 0 /\ Idle.answer = {}
  BY DEF Idle
<1>4. Quiet
  BY <1>1, <1>3 DEF Quiet, Running
<1>5. Phase
  BY <1>1, <1>3 DEF Phase, Early
<1>6. \A s \in Sessions : Renewed(s) = {} /\ Held(s) = {}
  BY <1>1, <1>3 DEF Held, Renewed, Removed
<1>7. Locks /\ Kept
  BY <1>6 DEF Locks, Kept
<1>8. Current /\ Gone /\ Replaced /\ ResetCuts
  BY <1>1 DEF Current, Gone, Replaced, ResetCuts
<1>9. Snapshot
  BY <1>1, <1>3 DEF Snapshot, Running
<1>10. \A k \in Keys : uuid[k] <= made[k]
  BY <1>1, <1>2 DEF TypeOK
<1>11. Fresh
  BY <1>1, <1>3, <1>10 DEF Fresh
<1> QED BY <1>2, <1>4, <1>5, <1>7, <1>8, <1>9, <1>11, BoundedInit DEF IInv, LinkInv

LEMMA InvStep == ASSUME CredentialsAssumption, IInv, [Next]_vars PROVE IInv'
<1>1. TypeOK /\ Quiet /\ Phase /\ Locks /\ Kept /\ Bounded /\ LinkInv
  BY DEF IInv
<1>2. TypeOK' /\ Quiet' /\ Phase' /\ Locks' /\ Kept'
  BY <1>1, TypeStep, QuietStep, PhaseStep, LocksStep, KeptStep
<1>3. Bounded'
  BY <1>1, <1>2, BoundedStep
<1>4. Current' /\ Gone' /\ Replaced' /\ Snapshot' /\ ResetCuts' /\ Fresh'
  BY <1>1, CurrentStep, GoneStep, ReplacedStep, SnapshotStep, ResetCutsStep, FreshStep
<1> QED BY <1>2, <1>3, <1>4 DEF IInv, LinkInv

LEMMA Invariance == ASSUME CredentialsAssumption PROVE Spec => []IInv
<1>1. Init => IInv
  BY InvInit
<1>2. IInv /\ [Next]_vars => IInv'
  BY InvStep
<1> QED BY <1>1, <1>2, PTL DEF Spec

\* Every step keeps the types of the rows, the links and the requests, and no
\* live row is without its device (config_credentials.py, devices.py).
THEOREM TypeCorrect == ASSUME CredentialsAssumption PROVE Spec => []TypeOK
<1>1. IInv => TypeOK
  BY DEF IInv
<1> QED BY <1>1, Invariance, PTL

\* A link works until its uuid is revoked or its device removed, whatever runs
\* beside it: ensure_credentials never renews a live uuid (config_credentials.py:118).
THEOREM LinksHold == ASSUME CredentialsAssumption PROVE Spec => []LinksLast
<1>1. IInv => LinksLast
  BY DEF IInv, LinkInv, Current, LinksLast
<1> QED BY <1>1, Invariance, PTL

\* After a reset of the link, or an expiry, no link handed out before works
\* again: revoke_subscription cuts them all and a uuid is made once.
THEOREM OldLinks == ASSUME CredentialsAssumption PROVE Spec => []OldLinksDie
<1>1. IInv => OldLinksDie
  <2>1. IInv => Current /\ Gone
    BY DEF IInv, LinkInv
  <2> QED BY <2>1 DEF Current, Gone, OldLinksDie
<1> QED BY <1>1, Invariance, PTL

\* Overlapping additions exceed max_devices_per_subscription by at most one for
\* each request but the first (devices.py:85).
THEOREM Limited == ASSUME CredentialsAssumption PROVE Spec => []DeviceLimit
<1>1. IInv => DeviceLimit
  <2> SUFFICES ASSUME IInv PROVE DeviceLimit
    OBVIOUS
  <2>1. Bounded /\ devices \in SUBSET Ids /\ Adding \in SUBSET Sessions
    BY DEF IInv, TypeOK, Adding
  <2> HIDE DEF Adding
  <2> QED BY <2>1, Sizes DEF Bounded, DeviceLimit
<1> QED BY <1>1, Invariance, PTL

-------------------------------------------------------------------------------
(* Links are withdrawn as a whole                                          *)

\* S takes the links H of some configurations, not of all, and no others.
ByConfiguration(H, S) ==
  \E C \in SUBSET Configs :
    /\ H # {} => C # Configs
    /\ \A h \in H : h.key \in S <=> h.key[2] \in C

\* What a request r revokes of the links H that were handed out.
WholeCut(H, r) ==
  /\ r.kind \in {"feed", "renew", "add"} =>
       /\ ByConfiguration(H, r.cut) /\ ByConfiguration(H, r.cut \cup r.dying)
       /\ r.pc \in Early => r.cut = {}
  /\ r.pc = "load" => r.configs # {}
  /\ r.kind = "expire" /\ r.pc # "revoke" => \A h \in H : h.key \in r.cut
  /\ r.kind = "delete" =>
       (\A k \in r.cut : k[1] = r.target) /\ (r.pc = "done" => r.writes)

Serving == {"devices", "configs", "load", "flush", "answer"}

\* Links go to those who have paid: a feed that found the time over revokes, and
\* one that serves and runs alone is right that it is not.
PaidFor(H, p, r) ==
  /\ r.pc = "revoke" => r.kind \notin {"renew", "add"} /\ (r.kind = "feed" => H = {})
  /\ r.quiet /\ r.kind = "feed" /\ (r.pc \in Serving \/ r.answer # {}) => p

CutInv ==
  /\ ~ paid => handed = {}
  /\ \A s \in Sessions : WholeCut(handed, sess[s]) /\ (Running(s) => PaidFor(handed, paid, sess[s]))

LEMMA CutNone == ASSUME NEW H PROVE ByConfiguration(H, {}) \/ Configs = {}
<1>1. CASE Configs # {}
  <2>1. /\ {} \in SUBSET Configs /\ {} # Configs
        /\ \A h \in H : h.key \in {} <=> h.key[2] \in {}
    BY <1>1
  <2> QED BY <2>1 DEF ByConfiguration
<1> QED BY <1>1

\* Without configurations there are no links.
LEMMA NoConfigs == ASSUME NEW H \in SUBSET Links, Configs = {} PROVE H = {}
  BY DEF Links, Keys

LEMMA CutOfNone == ASSUME NEW S PROVE ByConfiguration({}, S)
<1>1. {} \in SUBSET Configs
  OBVIOUS
<1> QED BY <1>1 DEF ByConfiguration

LEMMA FewerLinks == ASSUME NEW H, NEW G \in SUBSET H, NEW S, ByConfiguration(H, S)
                    PROVE ByConfiguration(G, S)
<1>1. PICK C \in SUBSET Configs :
        (H # {} => C # Configs) /\ \A h \in H : h.key \in S <=> h.key[2] \in C
  BY DEF ByConfiguration
<1>2. (G # {} => C # Configs) /\ \A h \in G : h.key \in S <=> h.key[2] \in C
  BY <1>1
<1> QED BY <1>2 DEF ByConfiguration

LEMMA FewerCut == ASSUME NEW H, NEW G \in SUBSET H, NEW r, WholeCut(H, r) PROVE WholeCut(G, r)
  BY FewerLinks DEF WholeCut

\* A request that has revoked nothing.
LEMMA NothingCut == ASSUME NEW H \in SUBSET Links, NEW r, r.cut = {}, r.dying = {},
                           r.pc \in {"idle", "devices", "count", "revoke"},
                           r.kind = "expire" => r.pc = "revoke"
                    PROVE WholeCut(H, r)
<1>1. ByConfiguration(H, {})
  BY CutNone, NoConfigs, CutOfNone
<1>2. r.cut \cup r.dying = {}
  OBVIOUS
<1> QED BY <1>1, <1>2 DEF WholeCut

LEMMA IdleCut == ASSUME NEW H \in SUBSET Links PROVE WholeCut(H, Idle)
<1>1. Idle.cut = {} /\ Idle.dying = {} /\ Idle.pc = "idle" /\ Idle.kind = "feed"
  BY DEF Idle
<1> QED BY <1>1, NothingCut

LEMMA CutInit == ASSUME CredentialsAssumption, Init PROVE CutInv
<1>1. handed = {} /\ handed \in SUBSET Links /\ \A s \in Sessions : sess[s] = Idle
  BY DEF Init
<1>2. Idle.pc = "idle"
  BY DEF Idle
<1> QED BY <1>1, <1>2, IdleCut DEF CutInv, Running

\* One request goes on, the links stay.
LEMMA CutLocal == ASSUME TypeOK, CutInv, NEW s \in Sessions, UNCHANGED <<handed, paid>>,
                         \A t \in Sessions : t # s => sess'[t] = sess[t],
                         WholeCut(handed, sess'[s]),
                         Running(s)' => PaidFor(handed, paid, sess'[s])
                  PROVE CutInv'
<1>1. ASSUME NEW t \in Sessions
      PROVE WholeCut(handed', sess'[t]) /\ (Running(t)' => PaidFor(handed', paid', sess'[t]))
  BY <1>1 DEF CutInv, Running
<1> QED BY <1>1 DEF CutInv

LEMMA CutEnd == ASSUME TypeOK, CutInv, NEW s \in Sessions, GivesUp(s) PROVE CutInv'
<1>1. sess'[s] = Idle /\ UNCHANGED <<handed, paid>> /\ \A t \in Sessions : t # s => sess'[t] = sess[t]
  BY EndHolds DEF GivesUp, db, history
<1>2. WholeCut(handed, sess'[s])
  BY <1>1, IdleCut DEF TypeOK
<1>3. ~ Running(s)'
  BY <1>1 DEF Running, Idle
<1> QED BY <1>1, <1>2, <1>3, CutLocal

LEMMA CutBegin == ASSUME TypeOK, CutInv, NEW s \in Sessions,
                         NEW k \in {"feed", "renew", "reset", "expire", "add", "delete"},
                         NEW d \in Ids \cup {0}, Begin(s, k, d)
                  PROVE CutInv'
<1>1. UNCHANGED <<handed, paid>> /\ handed \in SUBSET Links
  BY DEF Begin, db, history, TypeOK
<1>2. /\ sess'[s].pc = First(k) /\ sess'[s].kind = k /\ sess'[s].cut = {} /\ sess'[s].dying = {}
      /\ sess'[s].answer = {}
  BY DEF Begin, Idle
<1>3. First(k) \in {"devices", "count", "revoke"} /\ (k = "expire" => First(k) = "revoke")
  BY DEF First
<1>4. WholeCut(handed', sess'[s])
  BY <1>1, <1>2, <1>3, NothingCut
<1>5. PaidFor(handed', paid', sess'[s])
  <2>1. k \in {"renew", "add"} => First(k) # "revoke"
    BY DEF First
  <2>2. k = "feed" => First(k) = IF paid THEN "devices" ELSE "revoke"
    BY DEF First
  <2> QED BY <1>1, <1>2, <2>1, <2>2 DEF PaidFor, CutInv, Serving
<1>6. ASSUME NEW t \in Sessions, t # s
      PROVE WholeCut(handed', sess'[t]) /\ (Running(t)' => PaidFor(handed', paid', sess'[t]))
  <2>1. CASE ~ Running(t)
    <3>1. sess'[t] = sess[t]
      BY <1>6, <2>1 DEF Begin
    <3> QED BY <1>1, <2>1, <3>1 DEF CutInv, Running
  <2>2. CASE Running(t)
    <3>1. sess'[t] = [sess[t] EXCEPT !.quiet = FALSE]
      BY <1>6, <2>2 DEF Begin
    <3>2. /\ sess'[t].pc = sess[t].pc /\ sess'[t].kind = sess[t].kind /\ sess'[t].cut = sess[t].cut
          /\ sess'[t].dying = sess[t].dying /\ sess'[t].target = sess[t].target
          /\ sess'[t].writes = sess[t].writes /\ sess'[t].quiet = FALSE
          /\ sess'[t].configs = sess[t].configs
      BY <3>1 DEF TypeOK, Requests
    <3>3. WholeCut(handed, sess[t]) /\ PaidFor(handed, paid, sess[t])
      BY <2>2 DEF CutInv
    <3>4. WholeCut(handed', sess'[t])
      BY <1>1, <3>2, <3>3 DEF WholeCut
    <3>5. PaidFor(handed', paid', sess'[t])
      BY <1>1, <3>2, <3>3 DEF PaidFor
    <3> QED BY <3>4, <3>5
  <2> QED BY <2>1, <2>2
<1>7. ~ paid' => handed' = {}
  BY <1>1 DEF CutInv
<1> QED BY <1>4, <1>5, <1>6, <1>7 DEF CutInv

\* revoke_subscription and revoke_device: all there are, or those of the device.
LEMMA RevokesWhole == ASSUME TypeOK, Phase, LinkInv, CutInv, NEW s \in Sessions, Revoke(s)
                      PROVE WholeCut(handed, sess'[s])
<1> DEFINE r == sess[s]
<1>0. r \in Requests /\ r.pc = "revoke" /\ r.cut = {} /\ r.dying = {} /\ handed \in SUBSET Links
  BY DEF TypeOK, Phase, Early, Revoke, Step
<1>1. /\ sess'[s].cut = ToRevoke(s) /\ sess'[s].dying = {} /\ sess'[s].kind = r.kind
      /\ sess'[s].target = r.target /\ sess'[s].pc = AfterRevoke(r)
      /\ sess'[s].pc # "load" /\ (r.kind \notin {"delete", "reset"} => sess'[s].pc = "done")
  BY <1>0 DEF Revoke, Step, TypeOK, Requests, AfterRevoke
<1>2. \A h \in handed : h.key \in LiveSeen(s)
  BY <1>0 DEF LinkInv, Current, Works, LiveSeen
<1>3. PaidFor(handed, paid, r)
  BY <1>0 DEF CutInv, Running
<1>4. CASE r.kind = "delete"
  <2>1. \A k \in sess'[s].cut : k[1] = r.target
    BY <1>1, <1>4 DEF ToRevoke
  <2>2. sess'[s].pc # "done"
    BY <1>1, <1>4 DEF AfterRevoke
  <2> QED BY <1>1, <1>4, <2>1, <2>2 DEF WholeCut
<1>5. CASE r.kind \in {"reset", "expire"}
  <2>1. \A h \in handed : h.key \in sess'[s].cut
    BY <1>1, <1>2, <1>5 DEF ToRevoke
  <2> QED BY <1>1, <1>5, <2>1 DEF WholeCut
<1>6. CASE r.kind \notin {"delete", "reset", "expire"}
  <2>1. r.kind = "feed" /\ handed = {}
    BY <1>0, <1>3, <1>6 DEF PaidFor, Requests
  <2>2. \A S : ByConfiguration(handed, S)
    BY <2>1, CutOfNone
  <2> QED BY <1>1, <2>1, <2>2 DEF WholeCut, Early
<1> QED BY <1>4, <1>5, <1>6

\* ensure_credentials: the live ones of the configurations it has not found.
LEMMA LoadsWhole == ASSUME TypeOK, Phase, LinkInv, CutInv, NEW s \in Sessions, Load(s)
                    PROVE WholeCut(handed, sess'[s])
<1> DEFINE r == sess[s]
           D == {k \in LiveSeen(s) : k[2] \notin r.configs}
<1>0. r \in Requests /\ r.pc = "load" /\ handed \in SUBSET Links /\ WholeCut(handed, r)
  BY DEF TypeOK, Load, Step, CutInv
<1>1. /\ sess'[s].cut = r.cut /\ sess'[s].dying = D /\ sess'[s].kind = r.kind
      /\ sess'[s].pc = "flush"
  <2>1. \E p : sess'[s] = [r EXCEPT !.pc = "flush", !.seen = uuid, !.plan = p, !.dying = D,
                                    !.listed = {}, !.configs = {}]
    BY DEF Load, Step, TypeOK
  <2> HIDE DEF D
  <2> QED BY <1>0, <2>1, SMTT(20) DEF Requests
<1>2. r.kind # "delete"
  BY <1>0 DEF Phase
<1>3. ASSUME r.kind \in {"feed", "renew", "add"}
      PROVE  ByConfiguration(handed, r.cut \cup D) /\ r.cut = {}
  <2>1. r.cut = {} /\ r.configs # {} /\ r.configs \in SUBSET Configs
    BY <1>0, <1>3 DEF WholeCut, Early, Requests
  <2>2. \A h \in handed : h.key \in LiveSeen(s) /\ h.key[2] \in Configs
    BY <2>1 DEF LinkInv, Current, Works, LiveSeen, TypeOK, Links, Keys
  <2>3. \A h \in handed : h.key \in r.cut \cup D <=> h.key[2] \in Configs \ r.configs
    BY <2>1, <2>2
  <2>4. Configs \ r.configs \in SUBSET Configs /\ Configs \ r.configs # Configs
    BY <2>1
  <2> HIDE DEF D
  <2> QED BY <2>1, <2>3, <2>4 DEF ByConfiguration
<1> HIDE DEF D
<1> QED BY <1>0, <1>1, <1>2, <1>3 DEF WholeCut, Early

LEMMA FlushesWhole == ASSUME TypeOK, Phase, CutInv, NEW s \in Sessions, Flush(s)
                      PROVE WholeCut(handed, sess'[s])
<1> DEFINE r == sess[s]
<1>0. r \in Requests /\ r.pc = "flush" /\ r.kind # "delete" /\ WholeCut(handed, r)
  BY DEF TypeOK, Phase, Flush, Step, CutInv
<1>1. /\ sess'[s].cut = r.cut \cup r.dying /\ sess'[s].dying = {} /\ sess'[s].kind = r.kind
      /\ sess'[s].pc \in {"answer", "done"}
  BY <1>0 DEF Flush, Step, TypeOK, Requests
<1>2. sess'[s].cut \cup sess'[s].dying = r.cut \cup r.dying
  BY <1>1
<1> QED BY <1>0, <1>1, <1>2 DEF WholeCut, Early

\* The other steps revoke nothing.
LEMMA OthersCutNothing == ASSUME TypeOK, Phase, CutInv, NEW s \in Sessions, Local(s),
                                 ~ Revoke(s), ~ Load(s), ~ Flush(s), sess'[s] # Idle
                          PROVE WholeCut(handed, sess'[s])
<1> DEFINE r == sess[s]
           v == sess'[s]
<1>0. r \in Requests /\ sess \in [Sessions -> Requests] /\ WholeCut(handed, r)
  BY DEF TypeOK, CutInv
<1>1. ASSUME v.kind = r.kind, v.cut = r.cut, v.dying = r.dying, r.kind # "delete",
             v.pc \in Early => r.pc \in Early, v.pc # "load" \/ v.configs # {},
             r.pc \notin {"revoke", "idle"}
      PROVE  WholeCut(handed, v)
  BY <1>0, <1>1 DEF WholeCut
<1> USE DEF Step, Early
<1>2. CASE Remove(s)
  <2>1. /\ v.kind = r.kind /\ v.cut = r.cut /\ v.target = r.target /\ v.writes = TRUE
        /\ v.pc = "done" /\ r.kind = "delete"
    BY <1>0, <1>2 DEF Remove, Requests, Phase
  <2> QED BY <1>0, <2>1 DEF WholeCut
<1>3. CASE CountDevices(s)
  <2>1. v = [r EXCEPT !.pc = "insert"] /\ r.pc = "count"
    BY <1>0, <1>3 DEF CountDevices
  <2>2. r.kind # "delete" /\ v.kind = r.kind /\ v.cut = r.cut /\ v.dying = r.dying /\ v.pc = "insert"
    BY <1>0, <2>1 DEF Phase, Requests
  <2> QED BY <1>1, <2>1, <2>2
<1>4. CASE AddDevice(s)
  <2>1. /\ v.kind = r.kind /\ v.cut = r.cut /\ v.dying = r.dying /\ v.pc = "devices"
        /\ r.pc = "insert"
    BY <1>0, <1>4 DEF AddDevice, Requests
  <2>2. r.kind # "delete"
    BY <2>1 DEF Phase
  <2> QED BY <1>1, <2>1, <2>2
<1>5. CASE ListDevices(s) \/ DefaultDevice(s)
  <2>1. /\ v.kind = r.kind /\ v.cut = r.cut /\ v.dying = r.dying /\ v.pc = "configs"
        /\ r.pc = "devices"
    <3>1. CASE ListDevices(s)
      BY <1>0, <3>1 DEF ListDevices, Requests
    <3>2. CASE DefaultDevice(s)
      BY <1>0, <3>2 DEF DefaultDevice, Requests
    <3> QED BY <1>5, <3>1, <3>2
  <2>2. r.kind # "delete"
    BY <2>1 DEF Phase
  <2> QED BY <1>1, <2>1, <2>2
<1>6. CASE ListConfigs(s)
  <2>1. /\ v.kind = r.kind /\ v.cut = r.cut /\ v.dying = r.dying /\ v.configs = active
        /\ v.pc = "load" => active # {}
        /\ r.pc = "configs"
    BY <1>0, <1>6 DEF ListConfigs, Requests
  <2>2. r.kind # "delete"
    BY <2>1 DEF Phase
  <2> QED BY <1>1, <2>1, <2>2
<1>7. CASE Answer(s)
  <2> DEFINE link(k) == IF r.plan[k] # 0 THEN r.plan[k]
                        ELSE IF r.seen[k] # 0 THEN r.seen[k] ELSE uuid[k]
             A == {[token |-> r.token, key |-> k, uuid |-> link(k)] :
                     k \in {j \in LiveSeen(s) : j[2] \in active}}
  <2>1. v = [r EXCEPT !.pc = "done", !.seen = NoRow, !.answer = A] /\ r.pc = "answer"
    BY <1>0, <1>7 DEF Answer
  <2> HIDE DEF A
  <2>2. v.kind = r.kind /\ v.cut = r.cut /\ v.dying = r.dying /\ v.pc = "done"
    BY <1>0, <2>1 DEF Requests
  <2>3. r.kind # "delete"
    BY <2>1 DEF Phase
  <2> QED BY <1>1, <2>1, <2>2, <2>3
<1> QED BY <1>2, <1>3, <1>4, <1>5, <1>6, <1>7 DEF Local

LEMMA ServesPaid == ASSUME TypeOK, Phase, CutInv, NEW s \in Sessions, Local(s), sess'[s] # Idle
                    PROVE PaidFor(handed, paid, sess'[s])
<1> DEFINE r == sess[s]
<1>1. /\ sess'[s].kind = r.kind /\ sess'[s].pc # "revoke" /\ sess'[s].quiet = r.quiet
      /\ ~ Answer(s) => sess'[s].answer = r.answer
  BY LocalEffect, LocalQuiet
<1>2. PaidFor(handed, paid, r)
  BY LocalEffect DEF CutInv
<1>3. CASE r.pc \in Serving
  BY <1>1, <1>2, <1>3 DEF PaidFor
<1>4. CASE r.pc \notin Serving
  <2>1. Revoke(s) \/ Remove(s) \/ CountDevices(s) \/ AddDevice(s)
    BY <1>4 DEF Local, Step, Serving, ListDevices, DefaultDevice, ListConfigs, Load, Flush, Answer
  <2>2. CASE Revoke(s)
    <3>1. r.pc = "revoke" /\ r.answer = {} /\ ~ Answer(s)
      BY <2>2 DEF Revoke, Answer, Step, Phase
    <3>2. sess'[s].pc = AfterRevoke(r)
      BY <2>2 DEF Revoke, Step, TypeOK, Requests
    <3>3. r.kind = "feed" => sess'[s].pc = "done"
      BY <3>2 DEF AfterRevoke
    <3> QED BY <1>1, <3>1, <3>3 DEF PaidFor, Serving
  <2>3. CASE Remove(s) \/ CountDevices(s) \/ AddDevice(s)
    <3>1. r.kind # "feed"
      BY <2>3 DEF Remove, CountDevices, AddDevice, Step, Phase
    <3> QED BY <1>1, <3>1 DEF PaidFor
  <2> QED BY <2>1, <2>2, <2>3
<1> QED BY <1>3, <1>4

LEMMA CutCommit == ASSUME TypeOK, Quiet, Phase, LinkInv, CutInv, NEW s \in Sessions, Commit(s)
                   PROVE CutInv'
<1> DEFINE r == sess[s]
<1>0. /\ r \in Requests /\ r.pc = "done" /\ Running(s) /\ sess'[s] = Idle
      /\ \A t \in Sessions : t # s => sess'[t] = sess[t]
      /\ paid' = (r.kind = "renew" \/ (paid /\ r.kind # "expire"))
      /\ WholeCut(handed, r) /\ PaidFor(handed, paid, r)
  BY CommitRows DEF TypeOK, Commit, Step, CutInv
<1>1. /\ \A h \in handed' : (h \in handed /\ h.key \notin r.cut) \/ (h \in r.answer /\ r.quiet)
      /\ handed' \in SUBSET Links
  <2>1. Current
    BY DEF LinkInv
  <2>2. handed' \in SUBSET Links
    BY <1>0 DEF Commit, TypeOK, Requests
  <2> QED BY <2>1, <2>2, CommitLinks
<1>2. Idle.pc = "idle" /\ WholeCut(handed', Idle)
  BY <1>1, IdleCut DEF Idle
<1>3. CASE r.quiet
  <2>1. \A t \in Sessions : sess'[t] = Idle
    BY <1>0, <1>3, Alone
  <2>2. \A t \in Sessions : WholeCut(handed', sess'[t]) /\ ~ Running(t)'
    BY <1>2, <2>1 DEF Running
  <2>3. ASSUME ~ paid', NEW h \in handed' PROVE FALSE
    <3>1. CASE h \in handed /\ h.key \notin r.cut
      BY <1>0, <2>3, <3>1 DEF CutInv, WholeCut
    <3>2. CASE h \in r.answer
      <4>1. r.kind = "feed"
        BY <3>2 DEF Phase
      <4> QED BY <1>0, <1>3, <2>3, <3>2, <4>1 DEF PaidFor
    <3> QED BY <1>1, <2>3, <3>1, <3>2
  <2> QED BY <2>2, <2>3 DEF CutInv
<1>4. CASE ~ r.quiet
  <2>1. handed' \in SUBSET handed /\ \A h \in handed' : h.key \notin r.cut
    BY <1>1, <1>4
  <2>2. ASSUME NEW t \in Sessions, t # s
        PROVE WholeCut(handed', sess'[t]) /\ (Running(t)' => PaidFor(handed', paid', sess'[t]))
    <3>1. WholeCut(handed', sess[t])
      BY <2>1, FewerCut DEF CutInv
    <3>2. ASSUME Running(t) PROVE PaidFor(handed', paid', sess[t])
      <4>1. ~ sess[t].quiet
        BY <1>0, <2>2, <3>2 DEF Quiet
      <4>2. PaidFor(handed, paid, sess[t])
        BY <3>2 DEF CutInv
      <4> QED BY <2>1, <4>1, <4>2 DEF PaidFor
    <3> QED BY <1>0, <2>2, <3>1, <3>2 DEF Running
  <2>3. WholeCut(handed', sess'[s]) /\ ~ Running(s)'
    BY <1>0, <1>2 DEF Running
  <2>4. ASSUME ~ paid', NEW h \in handed' PROVE FALSE
    BY <1>0, <2>1, <2>4 DEF CutInv, WholeCut
  <2> QED BY <2>2, <2>3, <2>4 DEF CutInv
<1> QED BY <1>3, <1>4

LEMMA CutStep == ASSUME CredentialsAssumption, IInv, CutInv, [Next]_vars PROVE CutInv'
<1>0. TypeOK /\ Quiet /\ Phase /\ LinkInv
  BY DEF IInv
<1>1. ASSUME NEW s \in Sessions, Local(s) PROVE CutInv'
  <2>1. UNCHANGED <<handed, paid>> /\ \A t \in Sessions : t # s => sess'[t] = sess[t]
    BY <1>0, <1>1, LocalEffect DEF db, history
  <2>2. CASE sess'[s] = Idle
    <3>1. WholeCut(handed, sess'[s])
      BY <1>0, <2>2, IdleCut DEF TypeOK
    <3>2. ~ Running(s)'
      BY <2>2 DEF Running, Idle
    <3> QED BY <1>0, <2>1, <3>1, <3>2, CutLocal
  <2>3. CASE sess'[s] # Idle
    <3>1. WholeCut(handed, sess'[s])
      BY <1>0, <1>1, <2>3, RevokesWhole, LoadsWhole, FlushesWhole, OthersCutNothing
    <3>2. PaidFor(handed, paid, sess'[s])
      BY <1>0, <1>1, <2>3, ServesPaid
    <3> QED BY <1>0, <2>1, <3>1, <3>2, CutLocal
  <2> QED BY <2>2, <2>3
<1>2. CASE (\E c \in Configs : Toggle(c)) \/ UNCHANGED vars
  BY <1>2 DEF Toggle, vars, db, history, CutInv, Running
<1> QED BY <1>0, <1>1, <1>2, CutBegin, CutCommit, CutEnd, StepKinds

\* The links that work are those that were handed out and not withdrawn.
LEMMA WorkingHanded == ASSUME Current, Gone PROVE Working = handed
  BY DEF Current, Gone, Working, Given

\* A commit is a step of LinkPromise.
LEMMA CommitPromised == ASSUME CredentialsAssumption, IInv, IInv', CutInv, NEW s \in Sessions, Commit(s)
                        PROVE Customer!LinkPromiseNext
<1> DEFINE r == sess[s]
           gone == Removed(s) \X Configs
           new == IF r.quiet THEN r.answer ELSE {}
<1>0. /\ TypeOK /\ Phase /\ LinkInv /\ r \in Requests /\ r.pc = "done" /\ Running(s)
      /\ paid' = (r.kind = "renew" \/ (paid /\ r.kind # "expire")) /\ paid \in BOOLEAN
      /\ token' = (IF r.kind = "reset" THEN token + 1 ELSE token)
      /\ WholeCut(handed, r) /\ PaidFor(handed, paid, r)
  BY CommitRows DEF IInv, TypeOK, Commit, Step, CutInv
<1>1. Working = handed
  BY WorkingHanded DEF IInv, LinkInv
<1>2. Working' = handed'
  BY DEF IInv, LinkInv, Current, Gone, Working, Given
<1>3. /\ handed' = {h \in handed : h.key \notin r.cut \cup gone} \cup new
      /\ withdrawn' = withdrawn \cup {h \in handed : h.key \in r.cut \cup gone}
  <2>1. \A h \in handed : h.uuid = uuid[h.key]
    BY DEF IInv, LinkInv, Current, Works
  <2>2. {h \in handed : h.key \in r.cut \cup gone /\ h.uuid = uuid[h.key]}
          = {h \in handed : h.key \in r.cut \cup gone}
    BY <2>1
  <2>3. /\ handed' = (handed \ {h \in handed : h.key \in r.cut \cup gone /\ h.uuid = uuid[h.key]}) \cup new
        /\ withdrawn' = withdrawn \cup {h \in handed : h.key \in r.cut \cup gone /\ h.uuid = uuid[h.key]}
    BY DEF Commit
  <2> HIDE DEF new, gone
  <2> QED BY <2>2, <2>3
<1>4. Given' = Given \cup new /\ Given' = Given \cup handed'
  <2> HIDE DEF new, gone
  <2> QED BY <1>3 DEF Given
<1>5. r.kind # "feed" => new = {}
  BY <1>0 DEF Phase
<1>6. r.kind # "delete" => gone = {}
  BY DEF Removed
<1>7. \A h \in handed : h.key \in Keys /\ h.key[2] \in Configs
  BY <1>0 DEF TypeOK, Links, Keys
<1>8. CASE r.kind = "delete"
  <2>1. Removed(s) = {r.target} /\ r.target \in Ids /\ \A k \in r.cut : k[1] = r.target
    BY <1>0, <1>8 DEF Removed, WholeCut, Phase, Requests
  <2>2. \A h \in handed : h.key \in r.cut \cup gone <=> h.key[1] = r.target
    BY <1>7, <2>1 DEF Keys
  <2>3. handed' = {h \in handed : h.key[1] # r.target} /\ Given' = Given
    <3> HIDE DEF gone
    <3> QED BY <1>3, <1>4, <1>5, <1>8, <2>2
  <2>4. Customer!RemoveDevice(r.target)
    BY <1>0, <1>1, <1>2, <1>8, <2>3 DEF Customer!RemoveDevice
  <2> QED BY <2>1, <2>4 DEF Customer!LinkPromiseNext
<1>9. CASE r.kind \in {"reset", "expire"}
  <2>1. \A h \in handed : h.key \in r.cut
    BY <1>0, <1>9 DEF WholeCut, LinkInv, ResetCuts
  <2>2. handed' = {} /\ Given' = Given
    <3> HIDE DEF gone
    <3> QED BY <1>3, <1>4, <1>5, <1>9, <2>1
  <2>3. CASE r.kind = "reset"
    <3>1. Customer!ReplaceAll
      BY <1>0, <1>2, <2>2, <2>3 DEF Customer!ReplaceAll
    <3> QED BY <3>1 DEF Customer!LinkPromiseNext
  <2>4. CASE r.kind = "expire"
    <3>1. Customer!Expire
      BY <1>0, <1>2, <2>2, <2>4 DEF Customer!Expire
    <3> QED BY <3>1 DEF Customer!LinkPromiseNext
  <2> QED BY <1>9, <2>3, <2>4
<1>10. CASE r.kind \in {"feed", "renew", "add"}
  <2>1. PICK C \in SUBSET Configs :
          (handed # {} => C # Configs) /\ \A h \in handed : h.key \in r.cut <=> h.key[2] \in C
    BY <1>0, <1>10 DEF WholeCut, ByConfiguration
  <2>2. handed' = Customer!Kept(C) \cup new
    <3>1. Customer!Kept(C) = {h \in handed : h.key \notin r.cut}
      BY <1>1, <2>1 DEF Customer!Kept
    <3> HIDE DEF gone, new
    <3> QED BY <1>3, <1>6, <1>10, <3>1
  <2>3. \A h \in handed' : Works(h)' /\ h.token = token' /\ h \in Links
    BY DEF IInv, LinkInv, Current, TypeOK
  <2>4. token' = token /\ paid' \in {paid, TRUE}
    BY <1>0, <1>10
  <2>5. ASSUME NEW h \in handed' \ Customer!Kept(C) PROVE paid /\ h.token = token /\ h \notin Given
    <3>1. h \in new
      BY <2>2, <2>5
    <3>2. paid
      BY <1>0, <1>5, <3>1 DEF PaidFor
    <3>3. h \notin withdrawn'
      BY <2>3, <2>5 DEF IInv, LinkInv, Gone
    <3>4. h \notin handed
      <4>1. CASE h.key \in r.cut
        <5> HIDE DEF gone, new
        <5> QED BY <1>3, <3>3, <4>1
      <4>2. CASE h.key \notin r.cut
        BY <1>1, <2>1, <2>5, <4>2 DEF Customer!Kept
      <4> QED BY <4>1, <4>2
    <3> HIDE DEF gone, new
    <3> QED BY <1>3, <2>3, <2>4, <2>5, <3>2, <3>3, <3>4 DEF Given
  <2>6. ASSUME NEW g \in handed', NEW h \in handed', g.key = h.key PROVE g = h
    BY <2>3, <2>6 DEF Works, Links
  <2>7. Customer!Refresh(C)
    <3> HIDE DEF gone, new
    <3> QED BY <1>1, <1>2, <1>4, <2>1, <2>2, <2>4, <2>5, <2>6 DEF Customer!Refresh
  <2> QED BY <2>7 DEF Customer!LinkPromiseNext
<1> QED BY <1>0, <1>8, <1>9, <1>10 DEF Requests

\* Requests of many steps, with retries, deadlocks and others beside them, are
\* one step each for the customer: what goes, goes by whole configurations that are
\* not offered any more, with its device, or with all there is at the end of the
\* time or for a new address; what comes is new, and was paid for.
THEOREM LinksPromised == ASSUME CredentialsAssumption PROVE Spec => KeepsLinks
<1>1. Init => Customer!LinkPromiseInit
  BY DEF Init, Given, Working, Customer!LinkPromiseInit
<1>2. IInv /\ CutInv /\ [Next]_vars => CutInv'
  BY CutStep
<1>3. IInv /\ IInv' /\ CutInv /\ [Next]_vars => [Customer!LinkPromiseNext]_(Customer!linkVars)
  <2> SUFFICES ASSUME IInv, IInv', CutInv, [Next]_vars
               PROVE  [Customer!LinkPromiseNext]_(Customer!linkVars)
    OBVIOUS
  <2>1. ASSUME UNCHANGED <<handed, withdrawn, uuid, live, token, paid>>
        PROVE  UNCHANGED Customer!linkVars
    BY <2>1 DEF Customer!linkVars, Given, Working, Works
  <2>2. ASSUME NEW s \in Sessions, Local(s) \/ GivesUp(s)
        PROVE  UNCHANGED <<handed, withdrawn, uuid, live, token, paid>>
    BY <2>2, LocalEffect DEF IInv, GivesUp, db, history
  <2>3. ASSUME NEW s \in Sessions, NEW k, NEW d, Begin(s, k, d)
        PROVE  UNCHANGED <<handed, withdrawn, uuid, live, token, paid>>
    BY <2>3 DEF Begin, db, history
  <2>4. CASE (\E c \in Configs : Toggle(c)) \/ UNCHANGED vars
    BY <2>1, <2>4 DEF Toggle, vars, db, history
  <2>5. ASSUME NEW s \in Sessions, Commit(s) PROVE Customer!LinkPromiseNext
    BY <2>5, CommitPromised
  <2>6. TypeOK
    BY DEF IInv
  <2> QED BY <2>1, <2>2, <2>3, <2>4, <2>5, <2>6, StepKinds
<1> QED BY <1>1, <1>2, <1>3, CutInit, Invariance, PTL DEF Spec, KeepsLinks, Customer!LinkPromiseSpec
===============================================================================
