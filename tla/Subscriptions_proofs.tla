------------------------- MODULE Subscriptions_proofs --------------------------
(***************************************************************************)
(* What holds of a customer's subscriptions for any number of rows,        *)
(* concurrent sessions, plans and days.                                    *)
(***************************************************************************)
EXTENDS Subscriptions, FiniteSetTheorems, TLAPS

-------------------------------------------------------------------------------
(* Types                                                                   *)

LEMMA Constants ==
  /\ 1 \in RowIds /\ RowIds \subseteq Nat
  /\ Days \subseteq Nat /\ TrialDays \in Nat /\ MaxRows \in Nat \ {0}
  /\ MaxTime \in Nat /\ MaxOps \in Nat /\ MaxFailures \in Nat
  /\ Kinds \subseteq AllKinds /\ Cron \in Sessions /\ App \in Sessions
  BY SubscriptionAssumption DEF SubscriptionAssumption, RowIds, Sessions

LEMMA TypeInit == Init => TypeOK
  <1> SUFFICES ASSUME Init PROVE TypeOK
    OBVIOUS
  <1>1. PICK old \in {"none", "TRIAL", "ACTIVE"} :
          /\ status = [r \in RowIds |-> IF r = 1 /\ old # "none" THEN old ELSE "none"]
          /\ expires = [r \in RowIds |-> IF r = 1 /\ old # "none" THEN 1 ELSE 0]
          /\ keys = {r \in RowIds : r = 1 /\ old # "none"}
          /\ next = (IF old = "none" THEN 1 ELSE 2)
          /\ trialUsed = (old = "TRIAL")
    BY DEF Init
  <1>2. /\ status \in [RowIds -> Status \cup {"none"}] /\ expires \in [RowIds -> Nat]
        /\ keys \in SUBSET RowIds /\ trialUsed \in BOOLEAN
    BY <1>1 DEF Status, Manageable, Running
  <1>3. next \in 1 .. MaxRows + 1
    BY <1>1, Constants
  <1>4. now \in 0 .. MaxTime /\ started \in 0 .. MaxOps /\ failures \in 0 .. MaxFailures
    BY Constants DEF Init
  <1>5. QED
    BY <1>2, <1>3, <1>4, Constants
       DEF Init, TypeOK, LocksAreOwn, PC, AllKinds, Renewal, Purchase

LEMMA EndType ==
  ASSUME TypeOK, NEW s \in Sessions, EndSession(s)
  PROVE  /\ pc' \in [Sessions -> PC]
         /\ kind' \in [Sessions -> AllKinds \cup {"sweep", "feed"}]
         /\ days' \in [Sessions -> Nat]
         /\ target' \in [Sessions -> SUBSET RowIds] /\ wrote' \in [Sessions -> SUBSET RowIds]
         /\ cur' \in [Sessions -> RowIds] /\ keyed' \in [Sessions -> SUBSET RowIds]
         /\ setStatus' \in [Sessions -> Status \cup {"keep"}]
         /\ setExpires' \in [Sessions -> Nat]
         /\ setKeys' \in [Sessions -> {"keep", "ensure", "revoke"}]
         /\ held' \in [Sessions -> SUBSET Rows] /\ LocksAreOwn'
  <1>1. /\ pc' \in [Sessions -> PC]
        /\ kind' \in [Sessions -> AllKinds \cup {"sweep", "feed"}]
        /\ days' \in [Sessions -> Nat]
    BY DEF EndSession, Goto, TypeOK, PC, AllKinds
  <1>2. /\ target' \in [Sessions -> SUBSET RowIds] /\ wrote' \in [Sessions -> SUBSET RowIds]
        /\ cur' \in [Sessions -> RowIds] /\ keyed' \in [Sessions -> SUBSET RowIds]
    BY Constants DEF EndSession, TypeOK
  <1>3. /\ setStatus' \in [Sessions -> Status \cup {"keep"}]
        /\ setExpires' \in [Sessions -> Nat]
        /\ setKeys' \in [Sessions -> {"keep", "ensure", "revoke"}]
    BY DEF EndSession, TypeOK
  <1>4. held' \in [Sessions -> SUBSET Rows]
    BY DEF EndSession, TypeOK
  <1>5. LocksAreOwn'
    BY DEF EndSession, TypeOK, LocksAreOwn
  <1>6. QED
    BY <1>1, <1>2, <1>3, <1>4, <1>5

\* What every planning step leaves typed; pc and cur are the callers'.
LEMMA PlanType ==
  ASSUME TypeOK, NEW s \in Sessions, NEW R \in SUBSET RowIds,
         NEW st \in Status \cup {"keep"}, NEW e \in Nat,
         NEW k \in {"keep", "ensure", "revoke"},
         Plan(s, R, st, e, k), pc' \in [Sessions -> PC], cur' \in [Sessions -> RowIds]
  PROVE  TypeOK'
  BY DEF Plan, TypeOK, LocksAreOwn, dbVars, histVars

LEMMA PlanRowsType ==
  ASSUME TypeOK, NEW s \in Sessions, NEW R \in SUBSET RowIds,
         NEW st \in Status \cup {"keep"}, NEW e \in Nat,
         NEW k \in {"keep", "ensure", "revoke"}, PlanRows(s, R, st, e, k)
  PROVE  TypeOK'
  <1>1. pc' \in [Sessions -> PC] /\ cur' \in [Sessions -> RowIds]
    BY DEF PlanRows, Goto, TypeOK, PC
  <1>2. QED
    BY <1>1, PlanType DEF PlanRows

LEMMA PlanKeysType ==
  ASSUME TypeOK, NEW s \in Sessions, NEW r \in RowIds,
         NEW k \in {"keep", "ensure", "revoke"}, PlanKeys(s, r, k)
  PROVE  TypeOK'
  <1>1. pc' \in [Sessions -> PC] /\ cur' \in [Sessions -> RowIds]
    BY DEF PlanKeys, Goto, TypeOK, PC
  <1>2. QED
    BY <1>1, PlanType DEF PlanKeys

LEMMA LeaveType == ASSUME TypeOK, NEW s \in Sessions, LeaveEarly(s) PROVE TypeOK'
  <1>1. EndSession(s) /\ UNCHANGED <<now, dbVars, next, histVars, started, failures>>
    BY DEF LeaveEarly
  <1>2. QED
    BY <1>1, EndType DEF TypeOK, dbVars, histVars

\* The queries return rows.
LEMMA Queries ==
  /\ ManageableRow \subseteq RowIds /\ Renewable \subseteq RowIds
  /\ DueForSweep \subseteq RowIds
  /\ \A S : Having(S) \subseteq RowIds /\ LatestOf(Having(S)) \subseteq RowIds
  BY DEF ManageableRow, Renewable, DueForSweep, Having, LatestOf

LEMMA ExtendedType ==
  ASSUME TypeOK, NEW r \in RowIds, NEW d \in Nat PROVE Extended(r, d) \in Nat
  BY DEF TypeOK, Extended, Lapsed

LEMMA StatusSet ==
  /\ Running \subseteq Status /\ Manageable \subseteq Status /\ "keep" \notin Status
  /\ "EXPIRED" \in Status /\ "SUSPENDED" \in Status /\ "TRIAL" \in Status
  /\ "ACTIVE" \in Status /\ "EXPIRED" \notin Manageable
  BY DEF Status, Manageable, Running

LEMMA TypeLoad == ASSUME TypeOK, NEW s \in Sessions, Load(s) PROVE TypeOK'
  <1>0. days[s] \in Nat /\ now \in Nat /\ now + days[s] \in Nat
    BY Constants DEF TypeOK
  <1>1. CASE LoadRenewal(s)
    <2>1. CASE \E r \in Renewable :
          PlanRows(s, {r}, Unless(r, "ACTIVE"), Extended(r, days[s]),
                   IF kind[s] = "gift" /\ status[r] # "EXPIRED" /\ ~ Lapsed(r)
                     THEN "keep" ELSE "ensure")
      <3>1. PICK r \in Renewable :
          PlanRows(s, {r}, Unless(r, "ACTIVE"), Extended(r, days[s]),
                   IF kind[s] = "gift" /\ status[r] # "EXPIRED" /\ ~ Lapsed(r)
                     THEN "keep" ELSE "ensure")
        BY <2>1
      <3>2. r \in RowIds /\ Extended(r, days[s]) \in Nat
            /\ Unless(r, "ACTIVE") \in Status \cup {"keep"}
        BY <1>0, Queries, ExtendedType, StatusSet DEF Unless
      <3> HIDE DEF Extended, Unless, Lapsed
      <3>3. QED
        BY <3>1, <3>2, PlanRowsType
    <2>2. CASE Plan(s, {}, "ACTIVE", now + days[s], "ensure") /\ Goto(s, "insert") /\ UNCHANGED cur
      <3>1. pc' \in [Sessions -> PC] /\ cur' \in [Sessions -> RowIds]
        BY <2>2 DEF Goto, TypeOK, PC
      <3>2. QED
        BY <1>0, <2>2, <3>1, PlanType, StatusSet
    <2>3. CASE LeaveEarly(s)
      BY <2>3, LeaveType
    <2>4. QED
      BY <1>1, <2>1, <2>2, <2>3 DEF LoadRenewal
  <1>2. CASE LoadTrial(s)
    <2>1. Plan(s, {}, "TRIAL", now + days[s], "ensure")
          /\ pc' \in [Sessions -> PC] /\ cur' \in [Sessions -> RowIds]
      BY <1>2 DEF LoadTrial, Goto, TypeOK, PC
    <2>2. QED
      BY <1>0, <2>1, PlanType, StatusSet
  <1>3. CASE LoadSuspend(s)
    <2>1. CASE \E r \in ManageableRow : PlanKeys(s, r, "revoke")
      BY <2>1, Queries, PlanKeysType
    <2>2. CASE \E r \in ManageableRow : PlanRows(s, {r}, "SUSPENDED", 0, "revoke")
      BY <2>2, Queries, PlanRowsType, StatusSet
    <2>3. CASE LeaveEarly(s)
      BY <2>3, LeaveType
    <2>4. QED
      BY <1>3, <2>1, <2>2, <2>3 DEF LoadSuspend
  <1>4. CASE LoadLook(s)
    <2>1. CASE \E r \in RowIds : PlanRows(s, {r}, "EXPIRED", 0, "keep")
      BY <2>1, PlanRowsType, StatusSet
    <2>2. CASE LeaveEarly(s)
      BY <2>2, LeaveType
    <2>3. QED
      BY <1>4, <2>1, <2>2, Queries DEF LoadLook
  <1>5. CASE LoadHub(s)
    <2>1. CASE \E r \in RowIds : PlanKeys(s, r, "ensure")
      BY <2>1, PlanKeysType
    <2>2. CASE LeaveEarly(s)
      BY <2>2, LeaveType
    <2>3. QED
      BY <1>5, <2>1, <2>2, Queries DEF LoadHub
  <1>6. CASE LoadFeed(s)
    <2>1. CASE \E r \in RowIds : PlanRows(s, {r}, "EXPIRED", 0, "revoke")
      BY <2>1, PlanRowsType, StatusSet
    <2>2. CASE \E r \in RowIds : PlanKeys(s, r, "ensure") \/ PlanKeys(s, r, "revoke")
      BY <2>2, PlanKeysType
    <2>3. CASE LeaveEarly(s)
      BY <2>3, LeaveType
    <2>4. QED
      BY <1>6, <2>1, <2>2, <2>3, Queries DEF LoadFeed
  <1>7. CASE LoadSweep(s)
    BY <1>7, Queries, PlanRowsType, LeaveType, StatusSet DEF LoadSweep
  <1>8. QED
    BY <1>1, <1>2, <1>3, <1>4, <1>5, <1>6, <1>7 DEF Load

LEMMA TypeStart ==
  ASSUME TypeOK, NEW s \in Sessions, NEW k \in AllKinds \cup {"sweep", "feed"},
         NEW d \in Nat, Start(s, k, d), started' \in 0 .. MaxOps
  PROVE  TypeOK'
  BY DEF Start, Goto, TypeOK, LocksAreOwn, PC, dbVars, histVars, workVars

LEMMA TypeRequest ==
  ASSUME TypeOK, NEW s \in Sessions, NEW k \in Kinds, Request(s, k) PROVE TypeOK'
  <1>1. started' \in 0 .. MaxOps
    BY Constants DEF Request, TypeOK
  <1>2. PICK d \in Nat : Start(s, k, d)
    BY Constants DEF Request
  <1>3. QED
    BY <1>1, <1>2, TypeStart, Constants

LEMMA TypeBackground ==
  ASSUME TypeOK, Sweep \/ Refresh PROVE TypeOK'
  BY TypeStart, Constants DEF Sweep, Refresh, Background, TypeOK

LEMMA LockType ==
  ASSUME TypeOK, NEW s \in Sessions, NEW x \in Rows, Lock(s, x)
  PROVE  held' \in [Sessions -> SUBSET Rows]
  BY DEF Lock, TypeOK

LEMMA TypeWork ==
  ASSUME TypeOK, NEW s \in Sessions,
         UpdateUser(s) \/ Write(s) \/ Insert(s) \/ ReadKeys(s) \/ WriteKeys(s)
  PROVE  TypeOK'
  <1>1. CASE UpdateUser(s)
    <2>1. held' \in [Sessions -> SUBSET Rows]
      BY <1>1, LockType DEF UpdateUser, Rows
    <2>2. LocksAreOwn'
      BY <1>1 DEF UpdateUser, Lock, TypeOK, LocksAreOwn, workVars
    <2>3. pc' \in [Sessions -> PC]
      BY <1>1 DEF UpdateUser, Goto, TypeOK, PC
    <2>4. QED
      BY <1>1, <2>1, <2>2, <2>3 DEF UpdateUser, TypeOK, dbVars, histVars, workVars
  <1>2. CASE Write(s)
    <2>1. PICK r \in target[s] \ wrote[s] :
            /\ Lock(s, SubRow(r))
            /\ wrote' = [wrote EXCEPT ![s] = @ \cup {r}]
            /\ cur' = [cur EXCEPT ![s] = r]
      BY <1>2 DEF Write
    <2>2. r \in RowIds
      BY <2>1 DEF TypeOK
    <2>3. held' \in [Sessions -> SUBSET Rows]
      BY <2>1, <2>2, LockType DEF Rows
    <2>4. LocksAreOwn'
      BY <1>2, <2>1 DEF Write, Lock, TypeOK, LocksAreOwn
    <2>5. pc' \in [Sessions -> PC]
      BY <1>2 DEF Write, Goto, TypeOK, PC
    <2>6. wrote' \in [Sessions -> SUBSET RowIds] /\ cur' \in [Sessions -> RowIds]
      BY <2>1, <2>2 DEF TypeOK
    <2>7. QED
      BY <1>2, <2>3, <2>4, <2>5, <2>6 DEF Write, TypeOK, dbVars, histVars
  <1>3. CASE Insert(s)
    <2>1. next \in RowIds /\ next' \in 1 .. MaxRows + 1
      BY <1>3, Constants DEF Insert, TypeOK, RowIds
    <2>2. LocksAreOwn'
      BY <1>3 DEF Insert, TypeOK, LocksAreOwn
    <2>3. pc' \in [Sessions -> PC] /\ wrote' \in [Sessions -> SUBSET RowIds]
          /\ keyed' \in [Sessions -> SUBSET RowIds]
      BY <1>3, <2>1 DEF Insert, Goto, TypeOK, PC
    <2>4. QED
      BY <1>3, <2>1, <2>2, <2>3 DEF Insert, TypeOK, dbVars, histVars
  <1>4. CASE ReadKeys(s)
    <2>1. pc' \in [Sessions -> PC]
      BY <1>4 DEF ReadKeys, NextRow, Goto, TypeOK, PC
    <2>2. QED
      BY <1>4, <2>1 DEF ReadKeys, TypeOK, LocksAreOwn, dbVars, histVars, workVars
  <1>5. CASE WriteKeys(s)
    <2>1. cur[s] \in RowIds
      BY DEF TypeOK
    <2>2. held' \in [Sessions -> SUBSET Rows]
      BY <1>5, <2>1, LockType DEF WriteKeys, Rows
    <2>3. LocksAreOwn'
      BY <1>5 DEF WriteKeys, Lock, TypeOK, LocksAreOwn
    <2>4. pc' \in [Sessions -> PC] /\ keyed' \in [Sessions -> SUBSET RowIds]
      BY <1>5, <2>1 DEF WriteKeys, NextRow, Goto, TypeOK, PC
    <2>5. QED
      BY <1>5, <2>2, <2>3, <2>4 DEF WriteKeys, TypeOK, dbVars, histVars
  <1>6. QED
    BY <1>1, <1>2, <1>3, <1>4, <1>5

LEMMA TypeEnd ==
  ASSUME TypeOK, NEW s \in Sessions, Commit(s) \/ Rollback(s) PROVE TypeOK'
  <1>1. CASE Commit(s)
    <2>1. EndSession(s) /\ UNCHANGED <<now, next, started, failures>>
      BY <1>1 DEF Commit
    <2>2. /\ status' \in [RowIds -> Status \cup {"none"}] /\ expires' \in [RowIds -> Nat]
          /\ keys' \in SUBSET RowIds /\ trialUsed' \in BOOLEAN
      BY <1>1, StatusSet DEF Commit, TypeOK
    <2>3. bought' \in [RowIds -> Nat] /\ raced' \in SUBSET RowIds
      BY <1>1 DEF Commit, TypeOK
    <2>4. QED
      BY <2>1, <2>2, <2>3, EndType DEF TypeOK
  <1>2. CASE Rollback(s)
    <2>1. EndSession(s) /\ UNCHANGED <<now, dbVars, next, histVars, started>>
      BY <1>2 DEF Rollback
    <2>2. failures' \in 0 .. MaxFailures
      BY <1>2, Constants DEF Rollback, TypeOK
    <2>3. QED
      BY <2>1, <2>2, EndType DEF TypeOK, dbVars, histVars
  <1>3. QED
    BY <1>1, <1>2

LEMMA TypeStep == TypeOK /\ [Next]_vars => TypeOK'
  <1> SUFFICES ASSUME TypeOK, [Next]_vars PROVE TypeOK'
    OBVIOUS
  <1>1. CASE Tick
    BY <1>1, Constants DEF Tick, TypeOK, LocksAreOwn, dbVars, histVars, workVars
  <1>2. CASE Sweep \/ Refresh
    BY <1>2, TypeBackground
  <1>3. ASSUME NEW s \in Sessions,
               \/ \E k \in Kinds : Request(s, k)
               \/ Step(s) \/ Wait(s) \/ Rollback(s)
        PROVE  TypeOK'
    BY <1>3, TypeRequest, TypeLoad, TypeWork, TypeEnd DEF Step, Wait
  <1>4. CASE UNCHANGED vars
    BY <1>4 DEF vars, TypeOK, LocksAreOwn, dbVars, histVars, workVars
  <1>5. QED
    BY <1>1, <1>2, <1>3, <1>4 DEF Next

\* Whatever sessions do to each other, every variable keeps its type, and a
\* session holds no lock but on the customer and on rows it has written.
THEOREM TypeCorrect == Spec => []TypeOK
  <1>1. QED
    BY TypeInit, TypeStep, PTL DEF Spec

-------------------------------------------------------------------------------
(* Early expiry                                                            *)

\* What session t means to write is right for the rows nobody else wrote.
PlanIsCurrent(t) ==
  /\ setStatus[t] = "EXPIRED" => setExpires[t] = 0
  /\ \A r \in target[t] \ raced :
       /\ setStatus[t] = "EXPIRED" => Lapsed(r)
       /\ setStatus[t] = "keep" => status[r] # "EXPIRED"

\* A row that session t writes without having loaded it is its own new row.
OwnRowsRun(t) ==
  /\ \A r \in wrote[t] \ target[t] : setStatus[t] \in Running
  /\ pc[t] = "insert" \/ (pc[t] = "user" /\ kind[t] = "trial") => setStatus[t] \in Running
  /\ pc[t] \in {"idle", "user", "load"} => target[t] = {} /\ wrote[t] = {}
  /\ kind[t] = "trial" => pc[t] # "idle"

EarlyInv ==
  EarlyExpiryNeedsOverlap /\ \A t \in Sessions : PlanIsCurrent(t) /\ OwnRowsRun(t)

\* The variables a session's plan is made of, apart from the committed rows.
Same(t) ==
  /\ target'[t] = target[t] /\ wrote'[t] = wrote[t]
  /\ setStatus'[t] = setStatus[t] /\ setExpires'[t] = setExpires[t]
  /\ pc'[t] = pc[t] /\ kind'[t] = kind[t]

LEMMA EarlyInit == Init => EarlyInv
  <1> SUFFICES ASSUME Init PROVE EarlyInv
    OBVIOUS
  <1>1. EarlyExpiryNeedsOverlap
    BY DEF Init, EarlyExpiryNeedsOverlap
  <1>2. \A t \in Sessions : PlanIsCurrent(t) /\ OwnRowsRun(t)
    BY DEF Init, PlanIsCurrent, OwnRowsRun
  <1>3. QED
    BY <1>1, <1>2 DEF EarlyInv

\* A step that commits nothing leaves alone whatever it does not plan.
LEMMA EarlyUnlessCommit ==
  ASSUME TypeOK, EarlyInv, NEW s \in Sessions, UNCHANGED <<now, status, expires, raced>>,
         \A t \in Sessions \ {s} : Same(t), PlanIsCurrent(s)', OwnRowsRun(s)'
  PROVE  EarlyInv'
  <1>1. EarlyExpiryNeedsOverlap'
    BY DEF EarlyInv, EarlyExpiryNeedsOverlap, Lapsed
  <1>2. ASSUME NEW t \in Sessions \ {s} PROVE PlanIsCurrent(t)' /\ OwnRowsRun(t)'
    BY <1>2 DEF EarlyInv, PlanIsCurrent, OwnRowsRun, Lapsed, Same
  <1>3. QED
    BY <1>1, <1>2 DEF EarlyInv

LEMMA EndEarly ==
  ASSUME TypeOK, NEW s \in Sessions, EndSession(s)
  PROVE  /\ PlanIsCurrent(s)' /\ OwnRowsRun(s)'
         /\ \A t \in Sessions \ {s} : Same(t)
  <1>1. PlanIsCurrent(s)' /\ OwnRowsRun(s)'
    BY DEF EndSession, Goto, TypeOK, PlanIsCurrent, OwnRowsRun
  <1>2. \A t \in Sessions \ {s} : Same(t)
    BY DEF EndSession, Goto, TypeOK, Same
  <1>3. QED
    BY <1>1, <1>2

LEMMA LeaveEarlyInv ==
  ASSUME TypeOK, EarlyInv, NEW s \in Sessions, LeaveEarly(s) PROVE EarlyInv'
  BY EndEarly, EarlyUnlessCommit DEF LeaveEarly, dbVars, histVars

LEMMA PlanRowsEarly ==
  ASSUME TypeOK, EarlyInv, NEW s \in Sessions, pc[s] = "load", NEW R \in SUBSET RowIds,
         NEW st, NEW e, NEW k, PlanRows(s, R, st, e, k),
         st = "EXPIRED" => e = 0,
         \A r \in R : /\ st = "EXPIRED" => Lapsed(r)
                      /\ st = "keep" => status[r] # "EXPIRED"
  PROVE  EarlyInv'
  <1>1. PlanIsCurrent(s)'
    BY DEF PlanRows, Plan, TypeOK, PlanIsCurrent, Lapsed, dbVars, histVars
  <1>2. wrote[s] = {} /\ wrote'[s] = {} /\ pc'[s] = "write"
    BY DEF PlanRows, Plan, Goto, EarlyInv, OwnRowsRun, TypeOK
  <1>3. OwnRowsRun(s)'
    BY <1>2 DEF OwnRowsRun
  <1>4. \A t \in Sessions \ {s} : Same(t)
    BY DEF PlanRows, Plan, Goto, TypeOK, Same
  <1>5. UNCHANGED <<now, status, expires, raced>>
    BY DEF PlanRows, Plan, dbVars, histVars
  <1>6. QED
    BY <1>1, <1>3, <1>4, <1>5, EarlyUnlessCommit

LEMMA PlanKeysEarly ==
  ASSUME TypeOK, EarlyInv, NEW s \in Sessions, pc[s] = "load", NEW r, NEW k,
         PlanKeys(s, r, k)
  PROVE  EarlyInv'
  <1>1. target'[s] = {} /\ wrote'[s] = {} /\ pc'[s] = "keys" /\ setStatus'[s] = "keep"
    BY DEF PlanKeys, Plan, Goto, EarlyInv, OwnRowsRun, TypeOK
  <1>2. PlanIsCurrent(s)' /\ OwnRowsRun(s)'
    BY <1>1 DEF PlanIsCurrent, OwnRowsRun
  <1>3. \A t \in Sessions \ {s} : Same(t)
    BY DEF PlanKeys, Plan, Goto, TypeOK, Same
  <1>4. UNCHANGED <<now, status, expires, raced>>
    BY DEF PlanKeys, Plan, dbVars, histVars
  <1>5. QED
    BY <1>2, <1>3, <1>4, EarlyUnlessCommit

\* A first purchase and a trial plan a row that runs.
LEMMA PlanNewEarly ==
  ASSUME TypeOK, EarlyInv, NEW s \in Sessions, pc[s] = "load", NEW st \in Running,
         NEW e, NEW at \in {"user", "insert"}, Plan(s, {}, st, e, "ensure"), Goto(s, at)
  PROVE  EarlyInv'
  <1>1. target'[s] = {} /\ wrote'[s] = {} /\ pc'[s] = at /\ setStatus'[s] = st
    BY DEF Plan, Goto, EarlyInv, OwnRowsRun, TypeOK
  <1>2. PlanIsCurrent(s)' /\ OwnRowsRun(s)'
    BY <1>1 DEF PlanIsCurrent, OwnRowsRun, Running
  <1>3. \A t \in Sessions \ {s} : Same(t)
    BY DEF Plan, Goto, TypeOK, Same
  <1>4. UNCHANGED <<now, status, expires, raced>>
    BY DEF Plan, dbVars, histVars
  <1>5. QED
    BY <1>2, <1>3, <1>4, EarlyUnlessCommit

LEMMA EarlyLoad == ASSUME TypeOK, EarlyInv, NEW s \in Sessions, Load(s) PROVE EarlyInv'
  <1>0. pc[s] = "load"
    BY DEF Load
  <1>1. CASE LoadRenewal(s)
    <2>1. ASSUME NEW r \in Renewable, NEW e, NEW k,
                 PlanRows(s, {r}, Unless(r, "ACTIVE"), e, k)
          PROVE  EarlyInv'
      <3>1. /\ Unless(r, "ACTIVE") # "EXPIRED"
            /\ Unless(r, "ACTIVE") = "keep" => status[r] # "EXPIRED"
        BY DEF Unless
      <3> HIDE DEF Unless
      <3>2. QED
        BY <1>0, <2>1, <3>1, Queries, PlanRowsEarly
    <2>2. CASE \E e : Plan(s, {}, "ACTIVE", e, "ensure") /\ Goto(s, "insert")
      BY <1>0, <2>2, PlanNewEarly DEF Running
    <2>3. CASE LeaveEarly(s)
      BY <2>3, LeaveEarlyInv
    <2>4. QED
      BY <1>1, <2>1, <2>2, <2>3 DEF LoadRenewal
  <1>2. CASE LoadTrial(s)
    BY <1>0, <1>2, PlanNewEarly DEF LoadTrial, Running
  <1>3. CASE LoadSuspend(s)
    <2>1. CASE \E r \in ManageableRow : PlanKeys(s, r, "revoke")
      BY <1>0, <2>1, PlanKeysEarly
    <2>2. CASE \E r \in ManageableRow : PlanRows(s, {r}, "SUSPENDED", 0, "revoke")
      BY <1>0, <2>2, Queries, PlanRowsEarly
    <2>3. CASE LeaveEarly(s)
      BY <2>3, LeaveEarlyInv
    <2>4. QED
      BY <1>3, <2>1, <2>2, <2>3 DEF LoadSuspend
  <1>4. CASE LoadLook(s)
    <2>1. CASE \E r \in RowIds : Lapsed(r) /\ PlanRows(s, {r}, "EXPIRED", 0, "keep")
      <3> HIDE DEF Lapsed
      <3>1. QED
        BY <1>0, <2>1, PlanRowsEarly
    <2>2. CASE LeaveEarly(s)
      BY <2>2, LeaveEarlyInv
    <2>3. QED
      BY <1>4, <2>1, <2>2, Queries DEF LoadLook
  <1>5. CASE LoadHub(s)
    BY <1>0, <1>5, PlanKeysEarly, LeaveEarlyInv DEF LoadHub
  <1>6. CASE LoadFeed(s)
    <2>1. CASE \E r \in RowIds : Lapsed(r) /\ PlanRows(s, {r}, "EXPIRED", 0, "revoke")
      BY <1>0, <2>1, PlanRowsEarly
    <2>2. CASE \E r, k : PlanKeys(s, r, k)
      BY <1>0, <2>2, PlanKeysEarly
    <2>3. CASE LeaveEarly(s)
      BY <2>3, LeaveEarlyInv
    <2>4. QED
      BY <1>6, <2>1, <2>2, <2>3, Queries DEF LoadFeed
  <1>7. CASE LoadSweep(s)
    <2>1. \A r \in DueForSweep : Lapsed(r)
      BY DEF DueForSweep
    <2>2. QED
      BY <1>0, <1>7, <2>1, Queries, PlanRowsEarly, LeaveEarlyInv DEF LoadSweep
  <1>8. QED
    BY <1>1, <1>2, <1>3, <1>4, <1>5, <1>6, <1>7 DEF Load

LEMMA EarlyStart ==
  ASSUME TypeOK, EarlyInv, NEW s \in Sessions, NEW k, NEW d, Start(s, k, d)
  PROVE  EarlyInv'
  <1>1. /\ target'[s] = {} /\ wrote'[s] = {} /\ kind'[s] = k
        /\ setStatus'[s] = setStatus[s] /\ setExpires'[s] = setExpires[s]
        /\ pc'[s] = (IF k = "balance" THEN "user" ELSE "load")
    BY DEF Start, Goto, EarlyInv, OwnRowsRun, TypeOK, workVars, PaysFirst
  <1>2. PlanIsCurrent(s)' /\ OwnRowsRun(s)'
    BY <1>1 DEF EarlyInv, PlanIsCurrent, OwnRowsRun
  <1>3. \A t \in Sessions \ {s} : Same(t)
    BY DEF Start, Goto, TypeOK, Same, workVars
  <1>4. UNCHANGED <<now, status, expires, raced>>
    BY DEF Start, dbVars, histVars
  <1>5. QED
    BY <1>2, <1>3, <1>4, EarlyUnlessCommit

LEMMA EarlyWork ==
  ASSUME TypeOK, EarlyInv, NEW s \in Sessions,
         UpdateUser(s) \/ Write(s) \/ Insert(s) \/ ReadKeys(s) \/ WriteKeys(s)
  PROVE  EarlyInv'
  <1>1. UNCHANGED <<now, status, expires, raced, target, setStatus, setExpires, kind>>
    BY DEF UpdateUser, Write, Insert, ReadKeys, WriteKeys, dbVars, histVars, workVars
  <1>2. \A t \in Sessions \ {s} : wrote'[t] = wrote[t] /\ pc'[t] = pc[t]
    BY DEF UpdateUser, Write, Insert, ReadKeys, WriteKeys, workVars, Goto, TypeOK
  <1>3. PlanIsCurrent(s)'
    BY <1>1 DEF EarlyInv, PlanIsCurrent, Lapsed
  <1>4. OwnRowsRun(s)'
    <2>1. CASE UpdateUser(s)
      BY <1>1, <2>1 DEF UpdateUser, workVars, Goto, TypeOK, EarlyInv, OwnRowsRun
    <2>2. CASE Write(s)
      BY <1>1, <2>2 DEF Write, Goto, TypeOK, EarlyInv, OwnRowsRun
    <2>3. CASE Insert(s)
      BY <1>1, <2>3 DEF Insert, Goto, TypeOK, EarlyInv, OwnRowsRun
    <2>4. CASE ReadKeys(s) \/ WriteKeys(s)
      BY <1>1, <2>4 DEF ReadKeys, WriteKeys, NextRow, workVars, Goto, TypeOK, EarlyInv, OwnRowsRun
    <2>5. QED
      BY <2>1, <2>2, <2>3, <2>4
  <1>5. QED
    BY <1>1, <1>2, <1>3, <1>4, EarlyUnlessCommit DEF Same

LEMMA EarlyCommit == ASSUME TypeOK, EarlyInv, NEW s \in Sessions, Commit(s) PROVE EarlyInv'
  <1>1. EndSession(s) /\ now' = now /\ raced \subseteq raced'
    BY DEF Commit
  <1>2. \A r \in RowIds :
          r \in wrote[s] /\ (\E t \in Sessions \ {s} : r \in target[t]) => r \in raced'
    BY DEF Commit, TypeOK
  <1>3. \A r \in RowIds \ wrote[s] : status'[r] = status[r] /\ expires'[r] = expires[r]
    BY DEF Commit, TypeOK
  <1>4. EarlyExpiryNeedsOverlap'
    <2> SUFFICES ASSUME NEW r \in RowIds \ raced', status'[r] = "EXPIRED"
                 PROVE  expires'[r] <= now'
      BY DEF EarlyExpiryNeedsOverlap, Lapsed
    <2>1. CASE r \notin wrote[s]
      BY <1>1, <1>3, <2>1 DEF EarlyInv, EarlyExpiryNeedsOverlap, Lapsed
    <2>2. CASE r \in wrote[s]
      <3>1. setStatus[s] \in {"EXPIRED", "keep"}
        BY <2>2 DEF Commit, TypeOK
      <3>2. r \in target[s] \ raced
        BY <1>1, <2>2, <3>1 DEF EarlyInv, OwnRowsRun, Running
      <3>3. setStatus[s] = "EXPIRED"
        BY <2>2, <3>1, <3>2 DEF Commit, TypeOK, EarlyInv, PlanIsCurrent
      <3>4. Lapsed(r) /\ expires'[r] = expires[r]
        BY <3>2, <3>3 DEF Commit, TypeOK, EarlyInv, PlanIsCurrent
      <3>5. QED
        BY <1>1, <3>4 DEF Lapsed
    <2>3. QED
      BY <2>1, <2>2
  <1>5. ASSUME NEW t \in Sessions \ {s} PROVE PlanIsCurrent(t)' /\ OwnRowsRun(t)'
    <2>1. Same(t)
      BY <1>1, EndEarly
    <2>2. OwnRowsRun(t)'
      BY <2>1 DEF EarlyInv, OwnRowsRun, Same
    <2>3. \A r \in target[t] \ raced' : r \in RowIds \ wrote[s] /\ r \notin raced
      BY <1>1, <1>2 DEF TypeOK
    <2>4. PlanIsCurrent(t)'
      BY <1>1, <1>3, <2>1, <2>3 DEF EarlyInv, PlanIsCurrent, Lapsed, Same
    <2>5. QED
      BY <2>2, <2>4
  <1>6. PlanIsCurrent(s)' /\ OwnRowsRun(s)'
    BY <1>1, EndEarly
  <1>7. QED
    BY <1>4, <1>5, <1>6 DEF EarlyInv

LEMMA EarlyStep == TypeOK /\ EarlyInv /\ [Next]_vars => EarlyInv'
  <1> SUFFICES ASSUME TypeOK, EarlyInv, [Next]_vars PROVE EarlyInv'
    OBVIOUS
  <1>1. CASE Tick
    <2>1. \A r \in RowIds : Lapsed(r) => Lapsed(r)'
      BY <1>1 DEF Tick, TypeOK, Lapsed, dbVars
    <2>2. QED
      BY <1>1, <2>1 DEF Tick, TypeOK, EarlyInv, EarlyExpiryNeedsOverlap, PlanIsCurrent,
                        OwnRowsRun, dbVars, histVars, workVars
  <1>2. CASE Sweep \/ Refresh
    BY <1>2, EarlyStart, Constants DEF Sweep, Refresh, Background
  <1>3. ASSUME NEW s \in Sessions, NEW k \in Kinds, Request(s, k) PROVE EarlyInv'
    BY <1>3, EarlyStart DEF Request
  <1>4. ASSUME NEW s \in Sessions, Step(s) \/ Wait(s) PROVE EarlyInv'
    BY <1>4, EarlyLoad, EarlyWork, EarlyCommit DEF Step, Wait
  <1>5. ASSUME NEW s \in Sessions, Rollback(s) PROVE EarlyInv'
    BY <1>5, EndEarly, EarlyUnlessCommit DEF Rollback, dbVars, histVars
  <1>6. CASE UNCHANGED vars
    BY <1>6 DEF vars, EarlyInv, EarlyExpiryNeedsOverlap, PlanIsCurrent, OwnRowsRun, Lapsed,
                dbVars, histVars, workVars
  <1>7. QED
    BY <1>1, <1>2, <1>3, <1>4, <1>5, <1>6 DEF Next

\* No operation by itself expires a subscription that has time left: it takes
\* two sessions that had the row in hand together.
THEOREM ExpiryIsDue == Spec => []EarlyExpiryNeedsOverlap
  <1>1. TypeOK /\ EarlyInv /\ [Next]_vars => EarlyInv'
    BY EarlyStep
  <1>2. EarlyInv => EarlyExpiryNeedsOverlap
    BY DEF EarlyInv
  <1>3. QED
    BY EarlyInit, <1>1, <1>2, TypeCorrect, PTL DEF Spec

-------------------------------------------------------------------------------
(* Days that were paid for                                                 *)

\* A session that adds days pays from the balance, and has held the
\* customer's row since before it read the subscription.
PaysInTurn(t) ==
  /\ kind[t] \in Renewal \cup {"trial"} => kind[t] = "balance"
  /\ kind[t] # "balance" => days[t] = 0 /\ setExpires[t] = 0
  /\ kind[t] = "balance" => pc[t] = "user" \/ UserRow \in held[t]
  /\ pc[t] = "idle" => setExpires[t] = 0
  /\ pc[t] = "insert" => kind[t] = "balance"
  /\ pc[t] = "insert" => setExpires[t] >= days[t] /\ target[t] = {}

\* The expiry it will write covers what the row has had and what it adds.
CoversDays(t) ==
  kind[t] = "balance" =>
    \A r \in target[t] \cup wrote[t] : setExpires[t] >= bought[r] + days[t]

\* Rows that do not exist yet have had nothing.
FreshRows ==
  /\ \A r \in RowIds : r >= next => bought[r] = 0 /\ status[r] = "none"
  /\ \A t \in Sessions : \A r \in target[t] \cup wrote[t] : r < next
  /\ \A t \in Sessions : pc[t] \in {"idle", "user", "load"} => target[t] = {} /\ wrote[t] = {}

OneHolder ==
  \A t, u \in Sessions : UserRow \in held[t] /\ UserRow \in held[u] => t = u

DaysInv ==
  /\ DaysNotLost /\ FreshRows /\ OneHolder
  /\ \A t \in Sessions : PaysInTurn(t) /\ CoversDays(t)

\* All that the invariant says of a session.
SameDays(t) ==
  /\ target'[t] = target[t] /\ wrote'[t] = wrote[t] /\ setExpires'[t] = setExpires[t]
  /\ pc'[t] = pc[t] /\ kind'[t] = kind[t] /\ days'[t] = days[t] /\ held'[t] = held[t]

LEMMA DaysInit == Init => DaysInv
  <1> SUFFICES ASSUME Init PROVE DaysInv
    OBVIOUS
  <1>1. PICK old \in {"none", "TRIAL", "ACTIVE"} :
          /\ status = [r \in RowIds |-> IF r = 1 /\ old # "none" THEN old ELSE "none"]
          /\ expires = [r \in RowIds |-> IF r = 1 /\ old # "none" THEN 1 ELSE 0]
          /\ next = (IF old = "none" THEN 1 ELSE 2)
    BY DEF Init
  <1>2. DaysNotLost
    BY <1>1 DEF Init, DaysNotLost
  <1>3. FreshRows
    <2>1. \A r \in RowIds : r >= next => expires[r] = 0 /\ status[r] = "none"
      BY <1>1 DEF RowIds
    <2>2. QED
      BY <2>1 DEF Init, FreshRows
  <1>4. OneHolder
    BY DEF Init, OneHolder
  <1>5. \A t \in Sessions : PaysInTurn(t) /\ CoversDays(t)
    BY DEF Init, PaysInTurn, CoversDays, Renewal, Purchase
  <1>6. QED
    BY <1>2, <1>3, <1>4, <1>5 DEF DaysInv

LEMMA DaysUnlessCommit ==
  ASSUME TypeOK, DaysInv, NEW s \in Sessions,
         UNCHANGED <<status, expires, bought>>, next' = next,
         \A t \in Sessions \ {s} : SameDays(t),
         PaysInTurn(s)', CoversDays(s)',
         \A r \in target'[s] \cup wrote'[s] : r < next,
         pc'[s] \in {"idle", "user", "load"} => target'[s] = {} /\ wrote'[s] = {},
         UserRow \in held'[s] =>
           UserRow \in held[s] \/ \A t \in Sessions \ {s} : UserRow \notin held[t]
  PROVE  DaysInv'
  <1>1. DaysNotLost'
    BY DEF DaysInv, DaysNotLost
  <1>2. FreshRows'
    BY DEF DaysInv, FreshRows, SameDays
  <1>3. OneHolder'
    BY DEF DaysInv, OneHolder, SameDays
  <1>4. \A t \in Sessions \ {s} : PaysInTurn(t)' /\ CoversDays(t)'
    BY DEF DaysInv, PaysInTurn, CoversDays, SameDays
  <1>5. QED
    BY <1>1, <1>2, <1>3, <1>4 DEF DaysInv

LEMMA EndDays ==
  ASSUME TypeOK, NEW s \in Sessions, EndSession(s)
  PROVE  /\ PaysInTurn(s)' /\ CoversDays(s)' /\ held'[s] = {}
         /\ target'[s] = {} /\ wrote'[s] = {}
         /\ \A t \in Sessions \ {s} : SameDays(t)
  <1>1. /\ target'[s] = {} /\ wrote'[s] = {} /\ held'[s] = {} /\ kind'[s] = "look"
        /\ days'[s] = 0 /\ setExpires'[s] = 0 /\ pc'[s] = "idle"
    BY DEF EndSession, Goto, TypeOK
  <1>2. PaysInTurn(s)' /\ CoversDays(s)'
    BY <1>1 DEF PaysInTurn, CoversDays, Renewal, Purchase
  <1>3. \A t \in Sessions \ {s} : SameDays(t)
    BY DEF EndSession, Goto, TypeOK, SameDays
  <1>4. QED
    BY <1>1, <1>2, <1>3

LEMMA LeaveDays ==
  ASSUME TypeOK, DaysInv, NEW s \in Sessions,
         EndSession(s), UNCHANGED <<status, expires, bought>>, next' = next
  PROVE  DaysInv'
  BY EndDays, DaysUnlessCommit

LEMMA PlanDays ==
  ASSUME TypeOK, DaysInv, NEW s \in Sessions, pc[s] = "load", NEW R \in SUBSET RowIds,
         NEW st, NEW e \in Nat, NEW k, NEW at \in PC \ {"idle"}, Plan(s, R, st, e, k), Goto(s, at),
         \A r \in R : status[r] # "none",
         kind[s] # "balance" => e = 0,
         kind[s] = "balance" => \A r \in R : e >= bought[r] + days[s],
         at \in {"idle", "user", "load"} => R = {},
         at = "insert" => kind[s] = "balance" /\ e >= days[s] /\ R = {}
  PROVE  DaysInv'
  <1>1. /\ target'[s] = R /\ wrote'[s] = {} /\ pc'[s] = at /\ setExpires'[s] = e
        /\ kind' = kind /\ days' = days /\ held' = held
    BY DEF Plan, Goto, DaysInv, FreshRows, TypeOK
  <1>2. UNCHANGED <<status, expires, bought>> /\ next' = next
    BY DEF Plan, dbVars, histVars
  <1>3. PaysInTurn(s)'
    BY <1>1 DEF DaysInv, PaysInTurn
  <1>4. CoversDays(s)'
    BY <1>1, <1>2 DEF CoversDays
  <1>5. \A t \in Sessions \ {s} : SameDays(t)
    BY DEF Plan, Goto, TypeOK, SameDays
  <1>6. \A r \in target'[s] \cup wrote'[s] : r < next
    <2>1. \A r \in R : r \in RowIds /\ ~ (r >= next)
      BY DEF DaysInv, FreshRows
    <2>2. next \in Nat /\ RowIds \subseteq Nat
      BY Constants DEF TypeOK
    <2>3. \A r \in R : r < next
      BY <2>1, <2>2
    <2>4. target'[s] \cup wrote'[s] = R
      BY <1>1
    <2>5. QED
      BY <2>3, <2>4
  <1>7. QED
    BY <1>1, <1>2, <1>3, <1>4, <1>5, <1>6, DaysUnlessCommit

\* The queries return rows that exist.
LEMMA QueriedRowsExist ==
  /\ \A S, r : "none" \notin S /\ r \in Having(S) => r \in RowIds /\ status[r] # "none"
  /\ \A r \in ManageableRow : r \in RowIds /\ status[r] # "none"
  /\ \A r \in Renewable : r \in RowIds /\ status[r] # "none"
  /\ \A r \in DueForSweep : r \in RowIds /\ status[r] # "none"
  /\ \A r \in LatestOf(Having(Running)) : r \in RowIds /\ status[r] # "none"
  BY DEF ManageableRow, Renewable, DueForSweep, Having, LatestOf, Running, Manageable

LEMMA ExtendedCovers ==
  ASSUME TypeOK, DaysNotLost, NEW r \in RowIds, NEW d \in Nat
  PROVE  Extended(r, d) >= bought[r] + d
  BY DEF TypeOK, DaysNotLost, Extended, Lapsed

LEMMA DaysLoad == ASSUME TypeOK, DaysInv, NEW s \in Sessions, Load(s) PROVE DaysInv'
  <1>0. pc[s] = "load" /\ days[s] \in Nat /\ now \in Nat
    BY DEF Load, TypeOK
  <1>1. ASSUME NEW R \in SUBSET RowIds, NEW st, NEW k, PlanRows(s, R, st, 0, k),
               \A r \in R : status[r] # "none", kind[s] # "balance"
        PROVE  DaysInv'
    BY <1>0, <1>1, PlanDays DEF PlanRows, PC
  <1>2. ASSUME NEW r, NEW k, PlanKeys(s, r, k) PROVE DaysInv'
    BY <1>0, <1>2, PlanDays DEF PlanKeys, PC
  <1>3. ASSUME LeaveEarly(s) PROVE DaysInv'
    BY <1>3, LeaveDays DEF LeaveEarly, dbVars, histVars
  <1>4. CASE LoadRenewal(s)
    <2>0. kind[s] = "balance"
      BY <1>4 DEF LoadRenewal, DaysInv, PaysInTurn
    <2>1. ASSUME NEW r \in Renewable, NEW st, NEW k,
                 PlanRows(s, {r}, st, Extended(r, days[s]), k)
          PROVE  DaysInv'
      <3>1. r \in RowIds /\ status[r] # "none"
        BY QueriedRowsExist
      <3>2. Extended(r, days[s]) \in Nat /\ Extended(r, days[s]) >= bought[r] + days[s]
        BY <1>0, <3>1, ExtendedType, ExtendedCovers DEF DaysInv
      <3> HIDE DEF Extended
      <3>3. QED
        BY <1>0, <2>0, <2>1, <3>1, <3>2, PlanDays DEF PlanRows, PC
    <2>2. CASE Plan(s, {}, "ACTIVE", now + days[s], "ensure") /\ Goto(s, "insert")
      <3>1. now + days[s] \in Nat /\ now + days[s] >= days[s]
        BY <1>0
      <3>2. QED
        BY <1>0, <2>0, <2>2, <3>1, PlanDays DEF PC
    <2>3. QED
      BY <1>3, <1>4, <2>1, <2>2 DEF LoadRenewal
  <1>5. CASE LoadTrial(s)
    BY <1>5 DEF LoadTrial, DaysInv, PaysInTurn
  <1>6. CASE LoadSuspend(s)
    <2>1. ASSUME NEW r \in ManageableRow, PlanRows(s, {r}, "SUSPENDED", 0, "revoke")
          PROVE  DaysInv'
      BY <1>1, <1>6, <2>1, QueriedRowsExist DEF LoadSuspend
    <2>2. QED
      BY <1>2, <1>3, <1>6, <2>1 DEF LoadSuspend
  <1>7. CASE LoadLook(s)
    <2>1. ASSUME NEW r \in LatestOf(Having(Running)) \cup ManageableRow,
                 PlanRows(s, {r}, "EXPIRED", 0, "keep")
          PROVE  DaysInv'
      <3>1. r \in RowIds /\ status[r] # "none"
        BY QueriedRowsExist
      <3>2. QED
        BY <1>1, <1>7, <2>1, <3>1 DEF LoadLook
    <2>2. QED
      BY <1>3, <1>7, <2>1 DEF LoadLook
  <1>8. CASE LoadHub(s)
    BY <1>2, <1>3, <1>8 DEF LoadHub
  <1>9. CASE LoadFeed(s)
    <2>1. \A r \in Having(Status) : r \in RowIds /\ status[r] # "none"
      BY QueriedRowsExist DEF Status, Manageable, Running
    <2>2. QED
      BY <1>1, <1>2, <1>3, <1>9, <2>1 DEF LoadFeed
  <1>10. CASE LoadSweep(s)
    BY <1>1, <1>3, <1>10, Queries, QueriedRowsExist DEF LoadSweep
  <1>11. QED
    BY <1>4, <1>5, <1>6, <1>7, <1>8, <1>9, <1>10 DEF Load

LEMMA DaysStart ==
  ASSUME TypeOK, DaysInv, NEW s \in Sessions, NEW k, NEW d \in Nat, Start(s, k, d),
         k \in Renewal \cup {"trial"} => k = "balance", k # "balance" => d = 0
  PROVE  DaysInv'
  <1>1. /\ target'[s] = {} /\ wrote'[s] = {} /\ kind'[s] = k /\ days'[s] = d
        /\ setExpires' = setExpires /\ held' = held
        /\ pc'[s] = (IF k = "balance" THEN "user" ELSE "load")
    BY DEF Start, Goto, DaysInv, FreshRows, TypeOK, workVars, PaysFirst
  <1>2. setExpires[s] = 0
    BY DEF Start, DaysInv, PaysInTurn
  <1>3. PaysInTurn(s)' /\ CoversDays(s)'
    BY <1>1, <1>2 DEF PaysInTurn, CoversDays
  <1>4. \A t \in Sessions \ {s} : SameDays(t)
    BY DEF Start, Goto, TypeOK, SameDays, workVars
  <1>5. UNCHANGED <<status, expires, bought>> /\ next' = next
    BY DEF Start, dbVars, histVars
  <1>6. QED
    BY <1>1, <1>3, <1>4, <1>5, DaysUnlessCommit

LEMMA DaysWork ==
  ASSUME TypeOK, DaysInv, NEW s \in Sessions,
         UpdateUser(s) \/ Write(s) \/ ReadKeys(s) \/ WriteKeys(s)
  PROVE  DaysInv'
  <1>1. /\ UNCHANGED <<status, expires, bought, target, setExpires, kind, days>>
        /\ next' = next
    BY DEF UpdateUser, Write, ReadKeys, WriteKeys, dbVars, histVars, workVars
  <1>2. \A t \in Sessions \ {s} : SameDays(t)
    BY <1>1 DEF UpdateUser, Write, ReadKeys, WriteKeys, workVars, Goto, Lock, TypeOK, SameDays
  <1>3. wrote[s] \subseteq wrote'[s] /\ wrote'[s] \subseteq wrote[s] \cup target[s]
    BY DEF UpdateUser, Write, ReadKeys, WriteKeys, workVars, TypeOK
  <1>4. CoversDays(s)'
    BY <1>1, <1>3 DEF DaysInv, CoversDays
  <1>5. held[s] \subseteq held'[s]
    BY DEF UpdateUser, Write, ReadKeys, WriteKeys, Lock, TypeOK
  <1>6. UserRow \in held'[s] =>
          UserRow \in held[s] \/ \A t \in Sessions \ {s} : UserRow \notin held[t]
    BY DEF UpdateUser, Write, ReadKeys, WriteKeys, Lock, TypeOK
  <1>7. PaysInTurn(s)'
    <2>1. CASE UpdateUser(s)
      <3>1. UserRow \in held'[s] /\ pc'[s] = (IF kind[s] = "trial" THEN "insert" ELSE "load")
        BY <2>1 DEF UpdateUser, Lock, Goto, TypeOK
      <3>2. QED
        BY <1>1, <3>1 DEF DaysInv, PaysInTurn
    <2>2. CASE ~ UpdateUser(s)
      <3>1. pc[s] # "user" /\ pc'[s] \in {"keys", "keywrite", "write", "done"}
        BY <2>2 DEF Write, ReadKeys, WriteKeys, NextRow, Goto, TypeOK
      <3>2. QED
        BY <1>1, <1>5, <3>1 DEF DaysInv, PaysInTurn
    <2>3. QED
      BY <2>1, <2>2
  <1>8. pc'[s] \in {"idle", "user", "load"} => target'[s] = {} /\ wrote'[s] = {}
    <2>1. CASE UpdateUser(s)
      BY <2>1 DEF UpdateUser, DaysInv, FreshRows, workVars
    <2>2. CASE ~ UpdateUser(s)
      BY <2>2 DEF Write, ReadKeys, WriteKeys, NextRow, Goto, TypeOK
    <2>3. QED
      BY <2>1, <2>2
  <1>9. \A r \in target'[s] \cup wrote'[s] : r < next
    BY <1>1, <1>3 DEF DaysInv, FreshRows
  <1>10. QED
    BY <1>1, <1>2, <1>4, <1>6, <1>7, <1>8, <1>9, DaysUnlessCommit

\* The new row was nobody's.
LEMMA DaysInsert == ASSUME TypeOK, DaysInv, NEW s \in Sessions, Insert(s) PROVE DaysInv'
  <1>1. /\ pc[s] = "insert" /\ next \in RowIds /\ next' = next + 1
        /\ wrote'[s] = wrote[s] \cup {next} /\ pc'[s] = "done"
        /\ UNCHANGED <<status, expires, bought, target, setExpires, kind, days, held>>
    BY DEF Insert, Goto, TypeOK, RowIds, dbVars, histVars
  <1>2. next \in Nat /\ bought[next] = 0 /\ setExpires[s] >= days[s] /\ days[s] \in Nat
        /\ kind[s] = "balance"
    BY <1>1 DEF DaysInv, FreshRows, PaysInTurn, TypeOK
  <1>3. \A t \in Sessions \ {s} : SameDays(t)
    BY <1>1 DEF Insert, Goto, TypeOK, SameDays
  <1>4. DaysNotLost'
    BY <1>1 DEF DaysInv, DaysNotLost
  <1>5. FreshRows'
    <2>1. \A r \in RowIds : r >= next' => r >= next
      BY <1>1, <1>2 DEF RowIds
    <2>2. \A r \in RowIds : r < next => r < next'
      BY <1>1, <1>2 DEF RowIds
    <2>3. \A t \in Sessions : \A r \in target'[t] \cup wrote'[t] : r < next'
      <3> SUFFICES ASSUME NEW t \in Sessions, NEW r \in target'[t] \cup wrote'[t]
                   PROVE  r < next'
        OBVIOUS
      <3>1. r \in RowIds /\ (r < next \/ r = next)
        BY <1>1, <1>3 DEF DaysInv, FreshRows, SameDays, TypeOK
      <3>2. QED
        BY <1>1, <1>2, <2>2, <3>1
    <2>4. QED
      BY <1>1, <1>3, <2>1, <2>3 DEF DaysInv, FreshRows, SameDays
  <1>6. OneHolder'
    BY <1>1 DEF DaysInv, OneHolder
  <1>7. \A t \in Sessions \ {s} : PaysInTurn(t)' /\ CoversDays(t)'
    BY <1>1, <1>3 DEF DaysInv, PaysInTurn, CoversDays, SameDays
  <1>8. PaysInTurn(s)'
    BY <1>1 DEF DaysInv, PaysInTurn
  <1>9. CoversDays(s)'
    <2>1. target'[s] \cup wrote'[s] = target[s] \cup wrote[s] \cup {next}
      BY <1>1
    <2>2. QED
      BY <1>1, <1>2, <2>1 DEF DaysInv, CoversDays
  <1>10. QED
    BY <1>4, <1>5, <1>6, <1>7, <1>8, <1>9 DEF DaysInv

LEMMA DaysCommit == ASSUME TypeOK, DaysInv, NEW s \in Sessions, Commit(s) PROVE DaysInv'
  <1>1. EndSession(s) /\ next' = next /\ pc[s] = "done"
    BY DEF Commit
  <1>2. \A t \in Sessions \ {s} : SameDays(t)
    BY <1>1, EndDays
  <1>3. \A r \in RowIds : r \notin wrote[s] \/ kind[s] # "balance" =>
          expires'[r] = expires[r] /\ bought'[r] = bought[r]
    BY DEF Commit, TypeOK, DaysInv, PaysInTurn
  <1>4. DaysNotLost'
    <2> SUFFICES ASSUME NEW r \in RowIds PROVE expires'[r] >= bought'[r]
      BY DEF DaysNotLost
    <2>1. CASE r \notin wrote[s] \/ kind[s] # "balance"
      BY <1>3, <2>1 DEF DaysInv, DaysNotLost
    <2>2. CASE r \in wrote[s] /\ kind[s] = "balance"
      <3>1. bought'[r] = bought[r] + days[s] /\ setExpires[s] >= bought[r] + days[s]
        BY <2>2 DEF Commit, TypeOK, DaysInv, CoversDays
      <3>2. expires'[r] = (IF setExpires[s] # 0 THEN setExpires[s] ELSE expires[r])
        BY <2>2 DEF Commit, TypeOK
      <3>3. bought[r] \in Nat /\ days[s] \in Nat /\ setExpires[s] \in Nat /\ expires[r] \in Nat
        BY DEF TypeOK
      <3>4. QED
        BY <3>1, <3>2, <3>3
    <2>3. QED
      BY <2>1, <2>2
  <1>5. FreshRows'
    <2>1. \A r \in RowIds : r >= next => r \notin wrote[s]
      BY DEF DaysInv, FreshRows, TypeOK, RowIds
    <2>2. \A r \in RowIds : r >= next => bought'[r] = 0 /\ status'[r] = "none"
      BY <2>1 DEF Commit, DaysInv, FreshRows, TypeOK
    <2>3. target'[s] = {} /\ wrote'[s] = {}
      BY <1>1, EndDays
    <2>4. QED
      BY <1>1, <1>2, <2>2, <2>3 DEF DaysInv, FreshRows, SameDays
  <1>6. OneHolder'
    BY <1>1, <1>2, EndDays DEF DaysInv, OneHolder, SameDays
  <1>7. ASSUME NEW t \in Sessions \ {s} PROVE PaysInTurn(t)' /\ CoversDays(t)'
    <2>1. PaysInTurn(t)'
      BY <1>2 DEF DaysInv, PaysInTurn, SameDays
    <2>2. CASE kind[s] = "balance" /\ kind[t] = "balance"
      <3>1. pc[t] = "user"
        BY <1>1, <2>2 DEF DaysInv, PaysInTurn, OneHolder
      <3>2. target[t] = {} /\ wrote[t] = {}
        BY <3>1 DEF DaysInv, FreshRows
      <3>3. QED
        BY <1>2, <2>1, <3>2 DEF CoversDays, SameDays
    <2>3. CASE kind[s] # "balance" \/ kind[t] # "balance"
      <3>1. \A r \in target[t] \cup wrote[t] : r \in RowIds
        BY DEF TypeOK
      <3>2. QED
        BY <1>2, <1>3, <2>1, <2>3, <3>1 DEF DaysInv, CoversDays, SameDays
    <2>4. QED
      BY <2>2, <2>3
  <1>8. PaysInTurn(s)' /\ CoversDays(s)'
    BY <1>1, EndDays
  <1>9. QED
    BY <1>4, <1>5, <1>6, <1>7, <1>8 DEF DaysInv

LEMMA DaysStep ==
  ASSUME Serialised, TypeOK, DaysInv, [Next]_vars PROVE DaysInv'
  <1>1. CASE Tick
    BY <1>1 DEF Tick, TypeOK, DaysInv, DaysNotLost, FreshRows, OneHolder, PaysInTurn,
                CoversDays, dbVars, histVars, workVars
  <1>2. CASE Sweep \/ Refresh
    BY <1>2, DaysStart, Constants DEF Sweep, Refresh, Background, Renewal, Purchase
  <1>3. ASSUME NEW s \in Sessions, NEW k \in Kinds, Request(s, k) PROVE DaysInv'
    <2>1. k \in Renewal \cup {"trial"} => k = "balance"
      BY DEF Serialised
    <2>2. PICK d \in Nat : Start(s, k, d) /\ (k # "balance" => d = 0)
      BY <1>3, <2>1, Constants DEF Request
    <2>3. QED
      BY <2>1, <2>2, DaysStart
  <1>4. ASSUME NEW s \in Sessions, Step(s) \/ Wait(s) PROVE DaysInv'
    BY <1>4, DaysLoad, DaysWork, DaysInsert, DaysCommit DEF Step, Wait
  <1>5. ASSUME NEW s \in Sessions, Rollback(s) PROVE DaysInv'
    BY <1>5, LeaveDays DEF Rollback, dbVars, histVars
  <1>6. CASE UNCHANGED vars
    BY <1>6 DEF vars, DaysInv, DaysNotLost, FreshRows, OneHolder, PaysInTurn, CoversDays,
                dbVars, histVars, workVars
  <1>7. QED
    BY <1>1, <1>2, <1>3, <1>4, <1>5, <1>6 DEF Next

\* When every renewal pays from the balance, overlapping renewals queue on the
\* customer's row before they read the expiry, and each adds its days to it.
THEOREM BalanceKeepsDays == Spec => []DaysKept
  <1>1. Serialised /\ TypeOK /\ DaysInv /\ [Next]_vars => DaysInv'
    BY DaysStep
  <1>2. DaysInv => DaysNotLost
    BY DEF DaysInv
  <1>3. CASE Serialised
    <2>1. DaysNotLost => DaysKept
      BY DEF DaysKept
    <2>2. TypeOK /\ DaysInv /\ [Next]_vars => DaysInv'
      BY <1>1, <1>3
    <2>3. QED
      BY DaysInit, <1>2, <2>1, <2>2, TypeCorrect, PTL DEF Spec
  <1>4. CASE ~ Serialised
    <2>1. DaysKept
      BY <1>4 DEF DaysKept
    <2>2. QED
      BY <2>1, PTL
  <1>5. QED
    BY <1>3, <1>4

-------------------------------------------------------------------------------
(* Renewals are atomic                                                     *)

\* What a session that pays from the balance will write is exactly one plan on
\* top of what is left of one row, counted from a moment that has been.
ExactPlan(t) ==
  kind[t] = "balance" =>
    /\ days[t] \in Days
    /\ pc[t] = "insert" => wrote[t] = {} /\ \E at \in 0 .. now : setExpires[t] = at + days[t]
    /\ \A q, r \in target[t] \cup wrote[t] : q = r
    /\ \A r \in target[t] \cup wrote[t] :
         \E at \in 0 .. now : setExpires[t] = Account!Later(expires[r], at) + days[t]

NewRowsBlank == \A r \in RowIds : r >= next => expires[r] = 0

ExactInv == NewRowsBlank /\ \A t \in Sessions : ExactPlan(t)

LEMMA ExactInit == Init => ExactInv
  <1> SUFFICES ASSUME Init PROVE ExactInv
    OBVIOUS
  <1>1. PICK old \in {"none", "TRIAL", "ACTIVE"} :
          /\ expires = [r \in RowIds |-> IF r = 1 /\ old # "none" THEN 1 ELSE 0]
          /\ next = (IF old = "none" THEN 1 ELSE 2)
    BY DEF Init
  <1>2. NewRowsBlank
    BY <1>1 DEF NewRowsBlank, RowIds
  <1>3. \A t \in Sessions : ExactPlan(t)
    BY DEF Init, ExactPlan
  <1>4. QED
    BY <1>2, <1>3 DEF ExactInv

LEMMA ExactUnlessCommit ==
  ASSUME ExactInv, NEW s \in Sessions, UNCHANGED <<now, expires, next>>,
         \A t \in Sessions \ {s} : SameDays(t), ExactPlan(s)'
  PROVE  ExactInv'
  <1>1. NewRowsBlank'
    BY DEF ExactInv, NewRowsBlank
  <1>2. \A t \in Sessions \ {s} : ExactPlan(t)'
    BY DEF ExactInv, ExactPlan, SameDays
  <1>3. QED
    BY <1>1, <1>2 DEF ExactInv

LEMMA ExactEnd ==
  ASSUME TypeOK, ExactInv, NEW s \in Sessions, EndSession(s), UNCHANGED <<now, expires, next>>
  PROVE  ExactInv'
  <1>1. kind'[s] = "look"
    BY DEF EndSession, TypeOK
  <1>2. ExactPlan(s)'
    BY <1>1 DEF ExactPlan
  <1>3. QED
    BY <1>2, EndDays, ExactUnlessCommit

LEMMA ExactStart ==
  ASSUME TypeOK, DaysInv, ExactInv, NEW s \in Sessions, NEW k, NEW d, Start(s, k, d),
         k = "balance" => d \in Days
  PROVE  ExactInv'
  <1>1. /\ target'[s] = {} /\ wrote'[s] = {} /\ kind'[s] = k /\ days'[s] = d
        /\ pc'[s] \in {"user", "load"}
    BY DEF Start, Goto, DaysInv, FreshRows, TypeOK, workVars
  <1>2. ExactPlan(s)'
    BY <1>1 DEF ExactPlan
  <1>3. \A t \in Sessions \ {s} : SameDays(t)
    BY DEF Start, Goto, TypeOK, SameDays, workVars
  <1>4. UNCHANGED <<now, expires, next>>
    BY DEF Start, dbVars
  <1>5. QED
    BY <1>2, <1>3, <1>4, ExactUnlessCommit

\* extend_expiry adds to the later of the expiry and the present.
LEMMA ExtendedExactly ==
  ASSUME TypeOK, NEW r \in RowIds, NEW d \in Nat
  PROVE  Extended(r, d) = Account!Later(expires[r], now) + d
  <1>1. now \in Nat /\ expires[r] \in Nat
    BY Constants DEF TypeOK
  <1>2. QED
    BY <1>1 DEF Extended, Lapsed, Account!Later

LEMMA PlanExactly ==
  ASSUME TypeOK, DaysInv, ExactInv, NEW s \in Sessions, pc[s] = "load", kind[s] = "balance",
         NEW R, NEW st, NEW e, NEW k, NEW at, Plan(s, R, st, e, k), Goto(s, at),
         at # "insert" => \E r \in RowIds : R = {r} /\ e = Account!Later(expires[r], now) + days[s],
         at = "insert" => R = {} /\ e = now + days[s]
  PROVE  ExactInv'
  <1>1. /\ target'[s] = R /\ wrote'[s] = {} /\ pc'[s] = at /\ setExpires'[s] = e
        /\ kind' = kind /\ days' = days
    BY DEF Plan, Goto, DaysInv, FreshRows, TypeOK
  <1>2. UNCHANGED <<now, expires, next>>
    BY DEF Plan, dbVars
  <1>3. now \in 0 .. now
    BY DEF TypeOK
  <1>4. ExactPlan(s)'
    <2>1. days[s] \in Days
      BY DEF ExactInv, ExactPlan
    <2>2. CASE at = "insert"
      BY <1>1, <1>2, <1>3, <2>1, <2>2 DEF ExactPlan
    <2>3. CASE at # "insert"
      BY <1>1, <1>2, <1>3, <2>1, <2>3 DEF ExactPlan
    <2>4. QED
      BY <2>2, <2>3
  <1>5. \A t \in Sessions \ {s} : SameDays(t)
    BY DEF Plan, Goto, TypeOK, SameDays
  <1>6. QED
    BY <1>2, <1>4, <1>5, ExactUnlessCommit

LEMMA ExactLoad == ASSUME TypeOK, DaysInv, ExactInv, NEW s \in Sessions, Load(s) PROVE ExactInv'
  <1>0. pc[s] = "load" /\ days[s] \in Nat
    BY DEF Load, TypeOK
  <1>1. ASSUME LeaveEarly(s) PROVE ExactInv'
    BY <1>1, ExactEnd DEF LeaveEarly, dbVars
  <1>2. ASSUME kind[s] # "balance", NEW R, NEW st, NEW e, NEW k, Plan(s, R, st, e, k),
               NEW at, Goto(s, at)
        PROVE  ExactInv'
    <2>1. ExactPlan(s)'
      BY <1>2 DEF Plan, ExactPlan
    <2>2. \A t \in Sessions \ {s} : SameDays(t)
      BY <1>2 DEF Plan, Goto, TypeOK, SameDays
    <2>3. QED
      BY <1>2, <2>1, <2>2, ExactUnlessCommit DEF Plan, dbVars
  <1>3. CASE LoadRenewal(s)
    <2>0. kind[s] = "balance"
      BY <1>3 DEF LoadRenewal, DaysInv, PaysInTurn
    <2>1. ASSUME NEW r \in Renewable, NEW st, NEW k,
                 PlanRows(s, {r}, st, Extended(r, days[s]), k)
          PROVE  ExactInv'
      <3>1. r \in RowIds
        BY QueriedRowsExist
      <3>2. Extended(r, days[s]) = Account!Later(expires[r], now) + days[s]
        BY <1>0, <3>1, ExtendedExactly
      <3> HIDE DEF Extended
      <3>3. QED
        BY <1>0, <2>0, <2>1, <3>1, <3>2, PlanExactly DEF PlanRows
    <2>2. CASE Plan(s, {}, "ACTIVE", now + days[s], "ensure") /\ Goto(s, "insert")
      BY <1>0, <2>0, <2>2, PlanExactly
    <2>3. QED
      BY <1>1, <1>3, <2>1, <2>2 DEF LoadRenewal
  <1>4. CASE LoadTrial(s)
    BY <1>2, <1>4 DEF LoadTrial
  <1>5. CASE LoadSuspend(s)
    BY <1>1, <1>2, <1>5 DEF LoadSuspend, PlanRows, PlanKeys
  <1>6. CASE LoadLook(s)
    BY <1>1, <1>2, <1>6 DEF LoadLook, PlanRows
  <1>7. CASE LoadHub(s)
    BY <1>1, <1>2, <1>7 DEF LoadHub, PlanKeys
  <1>8. CASE LoadFeed(s)
    BY <1>1, <1>2, <1>8 DEF LoadFeed, PlanRows, PlanKeys
  <1>9. CASE LoadSweep(s)
    BY <1>1, <1>2, <1>9 DEF LoadSweep, PlanRows
  <1>10. QED
    BY <1>3, <1>4, <1>5, <1>6, <1>7, <1>8, <1>9 DEF Load

LEMMA ExactWork ==
  ASSUME TypeOK, DaysInv, ExactInv, NEW s \in Sessions,
         UpdateUser(s) \/ Write(s) \/ ReadKeys(s) \/ WriteKeys(s)
  PROVE  ExactInv'
  <1>1. UNCHANGED <<now, expires, next, target, setExpires, kind, days>>
    BY DEF UpdateUser, Write, ReadKeys, WriteKeys, dbVars, workVars
  <1>2. \A t \in Sessions \ {s} : SameDays(t)
    BY <1>1 DEF UpdateUser, Write, ReadKeys, WriteKeys, workVars, Goto, Lock, TypeOK, SameDays
  <1>3. target'[s] \cup wrote'[s] = target[s] \cup wrote[s]
    BY <1>1 DEF UpdateUser, Write, ReadKeys, WriteKeys, workVars, TypeOK
  <1>4. pc'[s] = "insert" => kind[s] = "trial"
    BY DEF UpdateUser, Write, ReadKeys, WriteKeys, NextRow, Goto, TypeOK
  <1>5. ExactPlan(s)'
    BY <1>1, <1>3, <1>4 DEF ExactInv, ExactPlan
  <1>6. QED
    BY <1>1, <1>2, <1>5, ExactUnlessCommit

\* A first subscription: nothing is left of a row that does not exist.
LEMMA ExactInsert == ASSUME TypeOK, DaysInv, ExactInv, NEW s \in Sessions, Insert(s) PROVE ExactInv'
  <1>1. /\ pc[s] = "insert" /\ next \in RowIds /\ next' = next + 1
        /\ wrote'[s] = wrote[s] \cup {next} /\ pc'[s] = "done"
        /\ UNCHANGED <<now, expires, target, setExpires, kind, days, held>>
    BY DEF Insert, Goto, TypeOK, RowIds, dbVars
  <1>2. /\ kind[s] = "balance" /\ days[s] \in Days /\ wrote[s] = {} /\ target[s] = {}
        /\ expires[next] = 0
    BY <1>1 DEF DaysInv, PaysInTurn, ExactInv, ExactPlan, NewRowsBlank, RowIds
  <1>3. PICK at \in 0 .. now : setExpires[s] = at + days[s]
    BY <1>1, <1>2 DEF ExactInv, ExactPlan
  <1>4. Account!Later(0, at) = at
    BY DEF Account!Later
  <1>5. target'[s] \cup wrote'[s] = {next}
    BY <1>1, <1>2
  <1>6. ExactPlan(s)'
    BY <1>1, <1>2, <1>3, <1>4, <1>5 DEF ExactPlan
  <1>7. NewRowsBlank'
    BY <1>1 DEF ExactInv, NewRowsBlank, RowIds
  <1>8. \A t \in Sessions \ {s} : SameDays(t)
    BY <1>1 DEF Insert, Goto, TypeOK, SameDays
  <1>9. \A t \in Sessions \ {s} : ExactPlan(t)'
    BY <1>1, <1>8 DEF ExactInv, ExactPlan, SameDays
  <1>10. QED
    BY <1>6, <1>7, <1>9 DEF ExactInv

\* Only sessions that pay from the balance move an expiry or add days.
LEMMA OthersKeepDays ==
  ASSUME TypeOK, DaysInv, NEW s \in Sessions, Commit(s), NEW r \in RowIds,
         r \notin wrote[s] \/ kind[s] # "balance"
  PROVE  expires'[r] = expires[r] /\ bought'[r] = bought[r]
  BY DEF Commit, TypeOK, DaysInv, PaysInTurn

\* The session that commits held the customer's row: the others that pay have not
\* read the subscription.
LEMMA ExactCommit == ASSUME TypeOK, DaysInv, ExactInv, NEW s \in Sessions, Commit(s) PROVE ExactInv'
  <1>1. EndSession(s) /\ UNCHANGED <<now, next>> /\ pc[s] = "done"
    BY DEF Commit
  <1>2. \A t \in Sessions \ {s} : SameDays(t)
    BY <1>1, EndDays
  <1>3. NewRowsBlank'
    <2>1. \A r \in RowIds : r >= next => r \notin wrote[s]
      BY DEF DaysInv, FreshRows, TypeOK, RowIds
    <2>2. QED
      BY <1>1, <2>1, OthersKeepDays DEF ExactInv, NewRowsBlank
  <1>4. ASSUME NEW t \in Sessions \ {s}, kind[t] = "balance" PROVE ExactPlan(t)'
    <2>1. CASE kind[s] = "balance"
      <3>1. pc[t] = "user"
        BY <1>1, <1>4, <2>1 DEF DaysInv, PaysInTurn, OneHolder
      <3>2. target[t] = {} /\ wrote[t] = {}
        BY <3>1 DEF DaysInv, FreshRows
      <3>3. QED
        BY <1>2, <1>4, <3>1, <3>2 DEF ExactInv, ExactPlan, SameDays
    <2>2. CASE kind[s] # "balance"
      <3>1. \A r \in target[t] \cup wrote[t] : expires'[r] = expires[r]
        BY <2>2, OthersKeepDays DEF TypeOK
      <3>2. QED
        BY <1>1, <1>2, <3>1 DEF ExactInv, ExactPlan, SameDays
    <2>3. QED
      BY <2>1, <2>2
  <1>5. kind'[s] = "look"
    BY <1>1 DEF EndSession, TypeOK
  <1>6. \A t \in Sessions : ExactPlan(t)'
    <2> SUFFICES ASSUME NEW t \in Sessions PROVE ExactPlan(t)'
      OBVIOUS
    <2>1. CASE t = s
      BY <1>5, <2>1 DEF ExactPlan
    <2>2. CASE t # s /\ kind[t] # "balance"
      BY <1>2, <2>2 DEF ExactPlan, SameDays
    <2>3. QED
      BY <1>4, <2>1, <2>2
  <1>7. QED
    BY <1>3, <1>6 DEF ExactInv

LEMMA ExactTick == ASSUME TypeOK, ExactInv, Tick PROVE ExactInv'
  <1>1. UNCHANGED <<expires, next, target, wrote, setExpires, pc, kind, days>>
    BY DEF Tick, dbVars, workVars
  <1>2. 0 .. now \subseteq (0 .. now)'
    BY DEF Tick, TypeOK
  <1>3. NewRowsBlank'
    BY <1>1 DEF ExactInv, NewRowsBlank
  <1>4. \A t \in Sessions : ExactPlan(t)'
    BY <1>1, <1>2 DEF ExactInv, ExactPlan
  <1>5. QED
    BY <1>3, <1>4 DEF ExactInv

LEMMA ExactStep ==
  ASSUME Serialised, TypeOK, DaysInv, ExactInv, [Next]_vars PROVE ExactInv'
  <1>1. CASE Sweep \/ Refresh
    BY <1>1, ExactStart, Constants DEF Sweep, Refresh, Background
  <1>2. ASSUME NEW s \in Sessions, NEW k \in Kinds, Request(s, k) PROVE ExactInv'
    <2>1. PICK d : Start(s, k, d) /\ (k = "balance" => d \in Days)
      BY <1>2 DEF Request, Renewal, Purchase
    <2>2. QED
      BY <2>1, ExactStart
  <1>3. ASSUME NEW s \in Sessions, Step(s) \/ Wait(s) PROVE ExactInv'
    BY <1>3, ExactLoad, ExactWork, ExactInsert, ExactCommit DEF Step, Wait
  <1>4. ASSUME NEW s \in Sessions, Rollback(s) PROVE ExactInv'
    BY <1>4, ExactEnd DEF Rollback, dbVars
  <1>5. CASE UNCHANGED vars
    BY <1>5 DEF vars, ExactInv, NewRowsBlank, ExactPlan, dbVars, workVars
  <1>6. QED
    BY <1>1, <1>2, <1>3, <1>4, <1>5, ExactTick DEF Next

\* A commit is a purchase, or changes nothing of the account.
LEMMA CommitAddsUp ==
  ASSUME TypeOK, DaysInv, ExactInv, NEW s \in Sessions, Commit(s)
  PROVE  [Account!PaidTimeNext]_(Account!accountVars)
  <1>1. now' = now
    BY DEF Commit
  <1>2. /\ expires \in [RowIds -> Nat] /\ bought \in [RowIds -> Nat]
        /\ expires' = [r \in RowIds |-> expires'[r]] /\ bought' = [r \in RowIds |-> bought'[r]]
    BY DEF Commit, TypeOK
  <1>3. CASE kind[s] # "balance" \/ wrote[s] = {}
    <2>1. \A r \in RowIds : expires'[r] = expires[r] /\ bought'[r] = bought[r]
      BY <1>3, OthersKeepDays
    <2>2. UNCHANGED <<expires, bought>>
      BY <1>2, <2>1
    <2>3. QED
      BY <1>1, <2>2 DEF Account!accountVars
  <1>4. CASE kind[s] = "balance" /\ wrote[s] # {}
    <2>1. PICK r \in RowIds : wrote[s] = {r}
      BY <1>4 DEF TypeOK, ExactInv, ExactPlan
    <2>2. days[s] \in Days /\ days[s] \in Nat \ {0}
      BY <1>4, SubscriptionAssumption DEF SubscriptionAssumption, ExactInv, ExactPlan
    <2>3. PICK at \in 0 .. now : setExpires[s] = Account!Later(expires[r], at) + days[s]
      BY <1>4, <2>1 DEF ExactInv, ExactPlan
    <2>4. setExpires[s] # 0
      BY <2>2, <2>3, <1>2 DEF TypeOK, Account!Later
    <2>5. expires'[r] = setExpires[s] /\ bought'[r] = bought[r] + days[s]
      BY <2>1, <2>4 DEF Commit
    <2>6. \A q \in RowIds \ {r} : expires'[q] = expires[q] /\ bought'[q] = bought[q]
      BY <2>1, OthersKeepDays
    <2>7. expires' = [expires EXCEPT ![r] = Account!Later(@, at) + days[s]]
      BY <1>2, <2>3, <2>5, <2>6
    <2>8. bought' = [bought EXCEPT ![r] = @ + days[s]]
      BY <1>2, <2>5, <2>6
    <2>9. Account!Renew(r, days[s], at)
      BY <1>1, <2>7, <2>8 DEF Account!Renew
    <2>10. QED
      BY <2>2, <2>9 DEF Account!PaidTimeNext
  <1>5. QED
    BY <1>3, <1>4

LEMMA AccountStep ==
  ASSUME TypeOK, DaysInv, ExactInv, [Next]_vars
  PROVE  [Account!PaidTimeNext]_(Account!accountVars)
  <1>1. CASE Tick
    BY <1>1 DEF Tick, dbVars, histVars, Account!PaidTimeNext, Account!Pass
  <1>2. CASE Sweep \/ Refresh \/ UNCHANGED vars
    BY <1>2 DEF Sweep, Refresh, Background, Start, vars, dbVars, histVars, Account!accountVars
  <1>3. ASSUME NEW s \in Sessions, NEW k \in Kinds, Request(s, k)
        PROVE  UNCHANGED Account!accountVars
    BY <1>3 DEF Request, Start, dbVars, histVars, Account!accountVars
  <1>4. ASSUME NEW s \in Sessions, Load(s) PROVE UNCHANGED Account!accountVars
    BY <1>4 DEF Load, LoadRenewal, LoadTrial, LoadSuspend, LoadLook, LoadHub, LoadFeed, LoadSweep,
                PlanRows, PlanKeys, Plan, LeaveEarly, dbVars, histVars, Account!accountVars
  <1>5. ASSUME NEW s \in Sessions,
               Insert(s) \/ ReadKeys(s) \/ UpdateUser(s) \/ Write(s) \/ WriteKeys(s) \/ Rollback(s)
        PROVE  UNCHANGED Account!accountVars
    BY <1>5 DEF Insert, ReadKeys, UpdateUser, Write, WriteKeys, Rollback, dbVars, histVars,
                Account!accountVars
  <1>6. QED
    BY <1>1, <1>2, <1>3, <1>4, <1>5, CommitAddsUp DEF Next, Step, Wait

\* When every renewal pays from the balance, a purchase is atomic: though it reads,
\* charges, writes and commits in steps of its own, what it does to the account is
\* to add its plan to what is left, once, and nothing else moves the end.
THEOREM RenewalsAreAtomic == ASSUME Serialised PROVE Spec => RenewalsAddUp
  <1>1. Init => Account!PaidTimeInit
    <2> SUFFICES ASSUME Init PROVE Account!PaidTimeInit
      OBVIOUS
    <2>1. TypeOK
      BY TypeInit
    <2>2. QED
      BY <2>1 DEF Init, TypeOK, Account!PaidTimeInit
  <1>2. TypeOK /\ DaysInv /\ [Next]_vars => DaysInv'
    BY DaysStep
  <1>3. TypeOK /\ DaysInv /\ ExactInv /\ [Next]_vars => ExactInv'
    BY ExactStep
  <1>4. TypeOK /\ DaysInv /\ ExactInv /\ [Next]_vars => [Account!PaidTimeNext]_(Account!accountVars)
    BY AccountStep
  <1>5. QED
    BY DaysInit, ExactInit, TypeCorrect, <1>1, <1>2, <1>3, <1>4, PTL
       DEF Spec, RenewalsAddUp, Account!PaidTimeSpec

-------------------------------------------------------------------------------
(* One subscription                                                        *)

OneRow ==
  \A q, r \in RowIds : status[q] # "none" /\ status[r] # "none" => q = r

NoRowYet == \A r \in RowIds : status[r] = "none"

\* A session inserts a row, or has inserted one, only while there is none; the
\* rows it loaded exist.
FirstRow(t) ==
  /\ pc[t] = "insert" => NoRowYet /\ wrote[t] = {}
  /\ \A r \in wrote[t] : status[r] = "none" => kind[t] = "balance" /\ wrote[t] = {r} /\ NoRowYet
  /\ \A r \in target[t] : status[r] # "none"

OneInv == OneRow /\ \A t \in Sessions : FirstRow(t)

LEMMA OneInit == Init => OneInv
  <1> SUFFICES ASSUME Init PROVE OneInv
    OBVIOUS
  <1>1. PICK old \in {"none", "TRIAL", "ACTIVE"} :
          status = [r \in RowIds |-> IF r = 1 /\ old # "none" THEN old ELSE "none"]
    BY DEF Init
  <1>2. OneRow
    BY <1>1 DEF OneRow
  <1>3. \A t \in Sessions : FirstRow(t)
    BY DEF Init, FirstRow
  <1>4. QED
    BY <1>2, <1>3 DEF OneInv

LEMMA OneUnlessCommit ==
  ASSUME TypeOK, OneInv, NEW s \in Sessions, status' = status,
         \A t \in Sessions \ {s} : SameDays(t), FirstRow(s)'
  PROVE  OneInv'
  <1>1. OneRow' /\ NoRowYet' = NoRowYet
    BY DEF OneInv, OneRow, NoRowYet
  <1>2. \A t \in Sessions \ {s} : FirstRow(t)'
    BY <1>1 DEF OneInv, FirstRow, SameDays, NoRowYet
  <1>3. QED
    BY <1>1, <1>2 DEF OneInv

LEMMA LeaveOne ==
  ASSUME TypeOK, OneInv, NEW s \in Sessions, EndSession(s), status' = status
  PROVE  OneInv'
  <1>1. pc'[s] = "idle" /\ target'[s] = {} /\ wrote'[s] = {}
    BY DEF EndSession, Goto, TypeOK
  <1>2. FirstRow(s)'
    BY <1>1 DEF FirstRow
  <1>3. QED
    BY <1>2, EndDays, OneUnlessCommit

LEMMA PlanOne ==
  ASSUME TypeOK, DaysInv, OneInv, NEW s \in Sessions, pc[s] = "load", NEW R \in SUBSET RowIds,
         NEW st, NEW e, NEW k, NEW at \in PC, Plan(s, R, st, e, k), Goto(s, at),
         \A r \in R : status[r] # "none", at = "insert" => NoRowYet
  PROVE  OneInv'
  <1>1. target'[s] = R /\ wrote'[s] = {} /\ pc'[s] = at /\ status' = status
    BY DEF Plan, Goto, DaysInv, FreshRows, TypeOK, dbVars
  <1>2. \A t \in Sessions \ {s} : SameDays(t)
    BY DEF Plan, Goto, TypeOK, SameDays
  <1>3. FirstRow(s)'
    BY <1>1 DEF FirstRow, NoRowYet
  <1>4. QED
    BY <1>1, <1>2, <1>3, OneUnlessCommit

\* With one row at most, the query finds it if it is there.
LEMMA FoundIfAny == ASSUME TypeOK, OneInv, Renewable = {} PROVE NoRowYet
  <1> SUFFICES ASSUME NEW r \in RowIds, status[r] # "none" PROVE FALSE
    BY DEF NoRowYet
  <1>1. \A q \in RowIds : status[q] # "none" => q = r
    BY DEF OneInv, OneRow
  <1>2. status[r] \in Manageable \/ status[r] = "EXPIRED"
    BY DEF TypeOK, Status
  <1>3. expires[r] <= expires[r] /\ r <= r
    <2>1. expires[r] \in Nat /\ r \in Nat
      BY Constants DEF TypeOK
    <2>2. QED
      BY <2>1
  <1>4. CASE status[r] \in Manageable
    <2>1. \A q \in Having(Manageable) : q = r
      BY <1>1 DEF Having, Manageable, Running
    <2>2. r \in ManageableRow
      BY <1>3, <1>4, <2>1 DEF ManageableRow, LatestOf, Having
    <2>3. QED
      BY <2>2 DEF Renewable
  <1>5. CASE status[r] = "EXPIRED" /\ ManageableRow = {}
    <2>1. \A q \in Having({"EXPIRED"}) : q = r
      BY <1>1 DEF Having
    <2>2. r \in LatestOf(Having({"EXPIRED"})) /\ \A q \in LatestOf(Having({"EXPIRED"})) : q = r
      BY <1>3, <1>5, <2>1 DEF LatestOf, Having
    <2>3. QED
      BY <1>3, <1>5, <2>2 DEF Renewable
  <1>6. CASE ManageableRow # {}
    BY <1>6 DEF Renewable
  <1>7. QED
    BY <1>2, <1>4, <1>5, <1>6

LEMMA OneLoad == ASSUME TypeOK, DaysInv, OneInv, NEW s \in Sessions, Load(s) PROVE OneInv'
  <1>0. pc[s] = "load"
    BY DEF Load
  <1>1. ASSUME NEW R \in SUBSET RowIds, NEW st, NEW e, NEW k, PlanRows(s, R, st, e, k),
               \A r \in R : status[r] # "none"
        PROVE  OneInv'
    BY <1>0, <1>1, PlanOne DEF PlanRows, PC
  <1>2. ASSUME NEW r, NEW k, PlanKeys(s, r, k) PROVE OneInv'
    BY <1>0, <1>2, PlanOne DEF PlanKeys, PC
  <1>3. ASSUME LeaveEarly(s) PROVE OneInv'
    BY <1>3, LeaveOne DEF LeaveEarly, dbVars
  <1>4. CASE LoadRenewal(s)
    <2>1. ASSUME NEW r \in Renewable, NEW st, NEW e, NEW k, PlanRows(s, {r}, st, e, k)
          PROVE  OneInv'
      <3>1. r \in RowIds /\ status[r] # "none"
        BY QueriedRowsExist
      <3>2. QED
        BY <1>1, <2>1, <3>1
    <2>2. CASE Renewable = {} /\ Plan(s, {}, "ACTIVE", now + days[s], "ensure") /\ Goto(s, "insert")
      BY <1>0, <2>2, FoundIfAny, PlanOne DEF PC
    <2> HIDE DEF Renewable
    <2>3. QED
      BY <1>3, <1>4, <2>1, <2>2 DEF LoadRenewal
  <1>5. CASE LoadTrial(s)
    BY <1>5 DEF LoadTrial, DaysInv, PaysInTurn
  <1>6. CASE LoadSuspend(s)
    <2>1. ASSUME NEW r \in ManageableRow, PlanRows(s, {r}, "SUSPENDED", 0, "revoke")
          PROVE  OneInv'
      <3>1. r \in RowIds /\ status[r] # "none"
        BY QueriedRowsExist
      <3>2. QED
        BY <1>1, <2>1, <3>1
    <2>2. QED
      BY <1>2, <1>3, <1>6, <2>1 DEF LoadSuspend
  <1>7. CASE LoadLook(s)
    <2>1. ASSUME NEW r \in LatestOf(Having(Running)) \cup ManageableRow,
                 PlanRows(s, {r}, "EXPIRED", 0, "keep")
          PROVE  OneInv'
      <3>1. r \in RowIds /\ status[r] # "none"
        BY QueriedRowsExist
      <3>2. QED
        BY <1>1, <2>1, <3>1
    <2>2. QED
      BY <1>3, <1>7, <2>1 DEF LoadLook
  <1>8. CASE LoadHub(s)
    BY <1>2, <1>3, <1>8 DEF LoadHub
  <1>9. CASE LoadFeed(s)
    <2>1. \A r \in Having(Status) : r \in RowIds /\ status[r] # "none"
      BY QueriedRowsExist DEF Status, Manageable, Running
    <2>2. QED
      BY <1>1, <1>2, <1>3, <1>9, <2>1 DEF LoadFeed
  <1>10. CASE LoadSweep(s)
    BY <1>1, <1>3, <1>10, Queries, QueriedRowsExist DEF LoadSweep
  <1>11. QED
    BY <1>4, <1>5, <1>6, <1>7, <1>8, <1>9, <1>10 DEF Load

LEMMA OneWork ==
  ASSUME TypeOK, DaysInv, OneInv, NEW s \in Sessions,
         UpdateUser(s) \/ Write(s) \/ ReadKeys(s) \/ WriteKeys(s) \/ Insert(s)
  PROVE  OneInv'
  <1>1. status' = status /\ target' = target /\ kind' = kind
    BY DEF UpdateUser, Write, ReadKeys, WriteKeys, Insert, dbVars, workVars
  <1>2. \A t \in Sessions \ {s} : SameDays(t)
    BY <1>1 DEF UpdateUser, Write, ReadKeys, WriteKeys, Insert, workVars, Goto, Lock, TypeOK, SameDays
  <1>3. FirstRow(s)'
    <2>1. CASE UpdateUser(s)
      <3>1. wrote'[s] = {} /\ target'[s] = {} /\ pc'[s] # "insert"
        BY <2>1 DEF UpdateUser, Goto, TypeOK, DaysInv, FreshRows, PaysInTurn, workVars, Renewal, Purchase
      <3>2. QED
        BY <3>1 DEF FirstRow
    <2>2. CASE Write(s)
      <3>1. PICK r \in target[s] : wrote'[s] = wrote[s] \cup {r}
        BY <2>2 DEF Write, TypeOK
      <3>2. r \in RowIds /\ status[r] # "none" /\ ~ NoRowYet
        BY <3>1 DEF OneInv, FirstRow, NoRowYet, TypeOK
      <3>3. \A q \in wrote[s] : status[q] # "none"
        BY <3>2 DEF OneInv, FirstRow
      <3>4. pc'[s] # "insert"
        BY <2>2 DEF Write, Goto, TypeOK
      <3>5. QED
        BY <1>1, <3>1, <3>2, <3>3, <3>4 DEF OneInv, FirstRow
    <2>3. CASE ReadKeys(s) \/ WriteKeys(s)
      <3>1. wrote' = wrote /\ pc'[s] # "insert"
        BY <2>3 DEF ReadKeys, WriteKeys, NextRow, Goto, TypeOK, workVars
      <3>2. QED
        BY <1>1, <3>1 DEF OneInv, FirstRow, NoRowYet
    <2>4. CASE Insert(s)
      <3>1. kind[s] = "balance" /\ target[s] = {} /\ NoRowYet /\ wrote[s] = {}
        BY <2>4 DEF Insert, DaysInv, PaysInTurn, OneInv, FirstRow
      <3>2. wrote'[s] = {next} /\ pc'[s] = "done"
        BY <2>4, <3>1 DEF Insert, Goto, TypeOK
      <3>3. QED
        BY <1>1, <3>1, <3>2 DEF FirstRow, NoRowYet
    <2>5. QED
      BY <2>1, <2>2, <2>3, <2>4
  <1>4. QED
    BY <1>1, <1>2, <1>3, OneUnlessCommit

\* Whoever inserts holds the customer's row, so the others neither insert now
\* nor have inserted.
LEMMA OneCommit == ASSUME TypeOK, DaysInv, OneInv, NEW s \in Sessions, Commit(s) PROVE OneInv'
  <1>1. EndSession(s) /\ pc[s] = "done"
    BY DEF Commit
  <1>2. /\ \A t \in Sessions \ {s} : SameDays(t)
        /\ pc'[s] = "idle" /\ target'[s] = {} /\ wrote'[s] = {}
    BY <1>1, EndDays DEF EndSession, Goto, TypeOK
  <1>3. FirstRow(s)'
    BY <1>2 DEF FirstRow
  <1>4. \A r \in RowIds : status'[r] = IF r \in wrote[s] /\ setStatus[s] # "keep"
                                       THEN setStatus[s] ELSE status[r]
    BY DEF Commit
  <1>5. setStatus[s] # "none"
    BY DEF TypeOK, Status, Manageable, Running
  <1>6. CASE \A r \in wrote[s] : status[r] # "none"
    <2>1. \A r \in RowIds : status'[r] = "none" <=> status[r] = "none"
      BY <1>4, <1>5, <1>6
    <2>2. OneRow' /\ (NoRowYet' <=> NoRowYet)
      BY <2>1 DEF OneInv, OneRow, NoRowYet
    <2>3. \A t \in Sessions \ {s} : target[t] \subseteq RowIds /\ wrote[t] \subseteq RowIds
      BY DEF TypeOK
    <2>4. \A t \in Sessions \ {s} : FirstRow(t)'
      BY <1>2, <2>1, <2>2, <2>3 DEF OneInv, FirstRow, SameDays
    <2>5. QED
      BY <1>3, <2>2, <2>4 DEF OneInv
  <1>7. ASSUME NEW r \in wrote[s], status[r] = "none" PROVE OneInv'
    <2>1. kind[s] = "balance" /\ wrote[s] = {r} /\ NoRowYet
      BY <1>7 DEF OneInv, FirstRow
    <2>2. OneRow'
      BY <1>4, <2>1 DEF OneRow, NoRowYet
    <2>3. UserRow \in held[s]
      BY <1>1, <2>1 DEF DaysInv, PaysInTurn
    <2>4. ASSUME NEW t \in Sessions \ {s} PROVE FirstRow(t)'
      <3>1. kind[t] = "balance" => pc[t] = "user"
        BY <2>3 DEF DaysInv, PaysInTurn, OneHolder
      <3>2. pc[t] # "insert"
        BY <3>1 DEF DaysInv, PaysInTurn
      <3>3. target[t] = {}
        BY <2>1 DEF OneInv, FirstRow, NoRowYet, TypeOK
      <3>4. wrote[t] = {}
        <4>1. ASSUME NEW q \in wrote[t] PROVE FALSE
          <5>1. kind[t] = "balance"
            BY <2>1, <4>1 DEF OneInv, FirstRow, NoRowYet, TypeOK
          <5>2. QED
            BY <3>1, <4>1, <5>1 DEF DaysInv, FreshRows
        <4>2. QED
          BY <4>1
      <3>5. QED
        BY <1>2, <3>2, <3>3, <3>4 DEF FirstRow, SameDays
    <2>5. QED
      BY <1>3, <2>2, <2>4 DEF OneInv
  <1>8. QED
    BY <1>6, <1>7

LEMMA OneStep ==
  ASSUME Serialised, TypeOK, DaysInv, OneInv, [Next]_vars PROVE OneInv'
  <1>1. CASE Tick
    BY <1>1 DEF Tick, OneInv, OneRow, FirstRow, NoRowYet, dbVars, workVars
  <1>2. ASSUME NEW s \in Sessions, NEW k, NEW d, Start(s, k, d) PROVE OneInv'
    <2>1. /\ target'[s] = {} /\ wrote'[s] = {} /\ pc'[s] # "insert" /\ status' = status
          /\ \A t \in Sessions \ {s} : SameDays(t)
      BY <1>2 DEF Start, Goto, DaysInv, FreshRows, TypeOK, workVars, dbVars, SameDays
    <2>2. FirstRow(s)'
      BY <2>1 DEF FirstRow
    <2>3. QED
      BY <2>1, <2>2, OneUnlessCommit
  <1>3. CASE Sweep \/ Refresh
    BY <1>2, <1>3, Constants DEF Sweep, Refresh, Background
  <1>4. ASSUME NEW s \in Sessions, NEW k \in Kinds, Request(s, k) PROVE OneInv'
    BY <1>2, <1>4 DEF Request
  <1>5. ASSUME NEW s \in Sessions, Step(s) \/ Wait(s) PROVE OneInv'
    BY <1>5, OneLoad, OneWork, OneCommit DEF Step, Wait
  <1>6. ASSUME NEW s \in Sessions, Rollback(s) PROVE OneInv'
    BY <1>6, LeaveOne DEF Rollback, dbVars
  <1>7. CASE UNCHANGED vars
    BY <1>7 DEF vars, OneInv, OneRow, FirstRow, NoRowYet, dbVars, workVars
  <1>8. QED
    BY <1>1, <1>3, <1>4, <1>5, <1>6, <1>7 DEF Next

\* When every purchase pays from the balance, two first purchases that overlap
\* make one subscription: the second reads after the first has committed.
THEOREM BalanceMakesOne == Spec => []OneSubscription
  <1>1. TypeOK /\ OneInv => Cardinality(Having(Status)) <= 1
    <2> SUFFICES ASSUME TypeOK, OneInv PROVE Cardinality(Having(Status)) <= 1
      OBVIOUS
    <2>1. \A q, r \in Having(Status) : q = r
      BY DEF OneInv, OneRow, Having, Status, Manageable, Running
    <2>2. CASE Having(Status) = {}
      BY <2>2, FS_EmptySet
    <2>3. ASSUME NEW r \in Having(Status) PROVE Cardinality(Having(Status)) <= 1
      <3>1. Having(Status) = {r}
        BY <2>1
      <3>2. Cardinality({r}) = 1
        BY FS_Singleton
      <3>3. QED
        BY <3>1, <3>2
    <2>4. QED
      BY <2>2, <2>3
  <1>2. CASE Serialised
    <2>1. TypeOK /\ DaysInv /\ [Next]_vars => DaysInv'
      BY <1>2, DaysStep
    <2>2. TypeOK /\ DaysInv /\ OneInv /\ [Next]_vars => OneInv'
      BY <1>2, OneStep
    <2>3. TypeOK /\ OneInv => OneSubscription
      BY <1>1 DEF OneSubscription
    <2>4. QED
      BY DaysInit, OneInit, <2>1, <2>2, <2>3, TypeCorrect, PTL DEF Spec
  <1>3. CASE ~ Serialised
    <2>1. OneSubscription
      BY <1>3 DEF OneSubscription
    <2>2. QED
      BY <2>1, PTL
  <1>4. QED
    BY <1>2, <1>3
================================================================================
