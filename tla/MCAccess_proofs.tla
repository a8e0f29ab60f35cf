---------------------------- MODULE MCAccess_proofs -----------------------------
(***************************************************************************)
(* What is proved of DeviceSlots, here, and of Credentials, in its own     *)
(* module, each by itself, holds of the run that has both.                 *)
(***************************************************************************)
EXTENDS MCAccess, FiniteSetTheorems, TLAPS

-----------------------------------------------------------------------------
(* DeviceSlots                                                             *)

\* What a request has done by the step it is at.
Control ==
  \A s \in Sessions :
    /\ added[s] \/ touched[s] => pc[s] \in {"decide", "tell", "mark", "done"}
    /\ pc[s] = "decide" => added[s] \/ touched[s]
    /\ answer[s] # "none" => pc[s] \in {"tell", "mark", "done"} /\ (added[s] \/ touched[s])
    /\ pc[s] \in {"tell", "mark", "done"} /\ added[s] => answer[s] # "none"
    /\ pc[s] = "record" /\ found[s] => dev[s] \notin gone[s]

\* A row is deleted, updated or inserted by one request at a time, and what is
\* held is what was there.
Locks ==
  /\ \A s, t \in Sessions :
       /\ s # t => gone[s] \cap gone[t] = {}
       /\ s # t => ~ (added[s] /\ added[t] /\ dev[s] = dev[t])
       /\ touched[s] => dev[s] \notin gone[t]
  /\ \A s \in Sessions :
       /\ \A d \in gone[s] : rows[d] # 0
       /\ touched[s] => rows[dev[s]] # 0
       /\ added[s] => rows[dev[s]] = 0 \/ dev[s] \in gone[s]

\* A device about to be served is among the first, in what its request sees now,
\* unless an earlier row has been committed since the decision.
WillKeepSlot ==
  \A s \in Sessions :
    answer[s] = "serve" /\ dev[s] \notin overtaken => Allowed(View(s), dev[s])

\* A message that was sent is noted, or will be by the request that sent it,
\* or there is a reason to send another.
ToldIsNoted ==
  /\ told > 1 => again
  /\ told > 0 => again \/ notified \/ \E t \in Sessions : Telling(t)

-------------------------------------------------------------------------------
LEMMA AnyDeviceType == AnyDevice \in Devices
  BY DeviceSlotsAssumption DEF DeviceSlotsAssumption, AnyDevice

LEMMA TypeInit == Init => TypeOK
<1> SUFFICES ASSUME Init PROVE TypeOK
  OBVIOUS
<1>1. rows \in [Devices -> Nat] /\ idle \in SUBSET Devices
  BY DEF Init
<1>2. dev \in [Sessions -> Devices]
  BY AnyDeviceType DEF Init
<1> QED BY <1>1, <1>2 DEF Init, TypeOK, Steps, Kinds

LEMMA ViewType == ASSUME TypeOK, NEW s \in Sessions
                  PROVE View(s) \in [Devices -> Nat]
  BY DEF TypeOK, View

LEMMA DeleteType == ASSUME TypeOK, NEW s \in Sessions, NEW at \in Steps \ {"idle"},
                           NEW D \in SUBSET Devices, Delete(s, D), Goto(s, at)
                    PROVE TypeOK'
  BY DEF TypeOK, Delete, Goto, dbVars, histVars, loaded

LEMMA NextSteps == ASSUME NEW s \in Sessions, TypeOK
                   PROVE /\ AfterLift(s) \in Steps \ {"idle"} /\ LiftIfFrozen(s) \in Steps \ {"idle"}
                         /\ AfterPurge(s) \in Steps \ {"idle"} /\ AfterPrune(s) \in Steps \ {"idle"}
  BY DEF AfterLift, LiftIfFrozen, AfterPurge, AfterPrune, Steps, TypeOK, Kinds

LEMMA ForgetType == ASSUME TypeOK, NEW s \in Sessions, Forget(s)
                    PROVE TypeOK'
  BY AnyDeviceType DEF TypeOK, Forget, EndSession, Goto, dbVars, Steps, Kinds

LEMMA WriteType == ASSUME TypeOK, NEW s \in Sessions, NEW at \in Steps \ {"idle"},
                          NEW what \in {"thawed", "notified"}, WriteSubscription(s, what), Goto(s, at)
                   PROVE TypeOK'
  BY DEF TypeOK, WriteSubscription, Goto, dbVars, histVars, loaded

LEMMA TypeStep == TypeOK /\ [Next]_vars => TypeOK'
<1> SUFFICES ASSUME TypeOK, [Next]_vars PROVE TypeOK'
  OBVIOUS
<1>1. ASSUME NEW s \in Sessions, NEW k \in Kinds, NEW d \in Devices, Begin(s, k, d) PROVE TypeOK'
  <2>1. First(k) \in Steps \ {"idle"}
    BY DEF First, Steps, Kinds
  <2> QED BY <1>1, <2>1 DEF TypeOK, Begin, Goto, dbVars, histVars, writes
<1>2. ASSUME NEW s \in Sessions, Waiting(s) PROVE TypeOK'
  <2>1. CASE Purge(s)
    BY <2>1, DeleteType, NextSteps DEF Purge, Seen
  <2>2. CASE Prune(s)
    BY <2>2, DeleteType, NextSteps DEF Prune, Seen
  <2>3. CASE Remove(s)
    <3>1. {dev[s]} \in SUBSET Devices BY DEF TypeOK
    <3> QED BY <2>3, <3>1, DeleteType, NextSteps DEF Remove
  <2>4. CASE Clear(s)
    BY <2>4, DeleteType DEF Clear, Seen, Steps
  <2>5. CASE Lift(s)
    BY <2>5, WriteType, NextSteps DEF Lift
  <2>6. CASE Renew(s)
    BY <2>6, WriteType DEF Renew, Steps
  <2>7. CASE Touch(s)
    BY <2>7 DEF TypeOK, Touch, Goto, dbVars, histVars, loaded, Steps
  <2>8. CASE Insert(s)
    BY <2>8 DEF TypeOK, Insert, Goto, dbVars, histVars, loaded, Steps
  <2>9. CASE MarkTold(s)
    BY <2>9, WriteType DEF MarkTold, Mark, Steps
  <2>10. CASE Conflict(s)
    BY <2>10, ForgetType DEF Conflict
  <2> QED BY <1>2, <2>1, <2>2, <2>3, <2>4, <2>5, <2>6, <2>7, <2>8, <2>9, <2>10 DEF Waiting
<1>3. ASSUME NEW s \in Sessions, Step(s) PROVE TypeOK'
  <2>1. CASE RemoveUnknown(s)
    BY <2>1 DEF TypeOK, RemoveUnknown, Goto, dbVars, histVars, loaded, writes, Steps
  <2>2. CASE Lookup(s)
    BY <2>2 DEF TypeOK, Lookup, Goto, dbVars, histVars, loaded, Steps
  <2>3. CASE Decide(s)
    BY <2>3 DEF TypeOK, Decide, Goto, dbVars, histVars, loaded, Steps
  <2>4. CASE Tell(s)
    <3>1. again' \in BOOLEAN
      BY <2>4, Zenon DEF TypeOK, Tell
    <3>2. told' \in Nat
      BY <2>4 DEF TypeOK, Tell
    <3>3. UNCHANGED <<dbVars, served, overtaken, loaded, writes, clock>>
      BY <2>4 DEF Tell
    <3>4. pc' = [pc EXCEPT ![s] = "mark"] \/ pc' = [pc EXCEPT ![s] = "done"]
      BY <2>4 DEF Tell, Goto
    <3> QED BY <3>1, <3>2, <3>3, <3>4 DEF TypeOK, dbVars, loaded, writes, Steps
  <2>5. CASE Commit(s)
    <3>1. rows' \in [Devices -> Nat] /\ idle' \in SUBSET Devices
      BY <2>5, ViewType DEF Commit, TypeOK
    <3>2. frozen' \in BOOLEAN /\ notified' \in BOOLEAN /\ again' \in BOOLEAN
      BY <2>5 DEF Commit, TypeOK
    <3>3. served' \in SUBSET Devices /\ overtaken' \in SUBSET Devices
      BY <2>5 DEF Commit, TypeOK, Overtakes, Others
    <3> QED BY <2>5, <3>1, <3>2, <3>3, AnyDeviceType DEF TypeOK, Commit, EndSession, Goto, Steps, Kinds
  <2>6. CASE DeadlockAbort(s)
    BY <2>6, ForgetType DEF DeadlockAbort
  <2> QED BY <1>3, <2>1, <2>2, <2>3, <2>4, <2>5, <2>6 DEF Step
<1>4. ASSUME NEW s \in Sessions, Rollback(s) PROVE TypeOK'
  BY <1>4, ForgetType DEF Rollback
<1>5. ASSUME NEW d \in Devices, GoIdle(d) PROVE TypeOK'
  BY <1>5 DEF TypeOK, GoIdle, histVars, loaded, writes
<1>6. CASE UNCHANGED vars
  BY <1>6 DEF TypeOK, vars, dbVars, histVars, loaded, writes
<1> QED BY <1>1, <1>2, <1>3, <1>4, <1>5, <1>6 DEF Next

\* The types, and that a request that has ended holds no rows.
THEOREM TypeCorrect == Spec => []TypeOK
  BY TypeInit, TypeStep, PTL DEF Spec

-------------------------------------------------------------------------------
(* The overflow message                                                    *)

LEMMA ToldStep == TypeOK /\ ToldIsNoted /\ [Next]_vars => ToldIsNoted'
<1> SUFFICES ASSUME TypeOK, ToldIsNoted, [Next]_vars PROVE ToldIsNoted'
  OBVIOUS
<1>q. ASSUME told' = told, again' = again, notified' = notified,
             \A t \in Sessions : Telling(t) => Telling(t)'
      PROVE ToldIsNoted'
  BY <1>q DEF ToldIsNoted
<1>f. ASSUME NEW s \in Sessions, Forget(s) PROVE ToldIsNoted'
  <2>1. \A t \in Sessions : t # s /\ Telling(t) => Telling(t)'
    BY <1>f DEF Forget, EndSession, Goto, Telling, TypeOK
  <2> QED BY <1>f, <2>1 DEF Forget, dbVars, ToldIsNoted
<1>1. ASSUME NEW s \in Sessions, NEW k \in Kinds, NEW d \in Devices, Begin(s, k, d) PROVE ToldIsNoted'
  <2>1. \A t \in Sessions : Telling(t) => Telling(t)'
    BY <1>1 DEF Begin, Goto, Telling, TypeOK, writes
  <2> QED BY <1>1, <2>1, <1>q DEF Begin, dbVars, histVars
<1>2. ASSUME NEW s \in Sessions, Waiting(s) PROVE ToldIsNoted'
  <2>1. ASSUME NEW D, NEW at, Delete(s, D), Goto(s, at), pc[s] \notin {"mark", "done"} PROVE ToldIsNoted'
    <3>1. \A t \in Sessions : Telling(t) => Telling(t)'
      BY <2>1 DEF Delete, Goto, Telling, TypeOK
    <3> QED BY <2>1, <3>1, <1>q DEF Delete, dbVars, histVars
  <2>2. ASSUME NEW at, WriteSubscription(s, "thawed"), Goto(s, at), pc[s] \notin {"mark", "done"}
        PROVE ToldIsNoted'
    <3>1. \A t \in Sessions : Telling(t) => Telling(t)'
      BY <2>2 DEF WriteSubscription, Goto, Telling, TypeOK
    <3> QED BY <2>2, <3>1, <1>q DEF WriteSubscription, dbVars, histVars
  <2>3. CASE Purge(s) \/ Prune(s) \/ Remove(s) \/ Clear(s)
    BY <2>1, <2>3 DEF Purge, Prune, Remove, Clear
  <2>4. CASE Lift(s) \/ Renew(s)
    BY <2>2, <2>4 DEF Lift, Renew
  <2>5. CASE Touch(s) \/ Insert(s)
    <3>1. \A t \in Sessions : Telling(t) => Telling(t)'
      BY <2>5 DEF Touch, Insert, Goto, Telling, TypeOK
    <3> QED BY <2>5, <3>1, <1>q DEF Touch, Insert, dbVars, histVars
  <2>6. CASE MarkTold(s)
    <3>1. \A t \in Sessions : Telling(t) => Telling(t)'
      BY <2>6 DEF MarkTold, Mark, WriteSubscription, Goto, Telling, TypeOK
    <3> QED BY <2>6, <3>1, <1>q DEF MarkTold, WriteSubscription, dbVars, histVars
  <2>7. CASE Conflict(s)
    BY <2>7, <1>f DEF Conflict
  <2> QED BY <1>2, <2>3, <2>4, <2>5, <2>6, <2>7 DEF Waiting
<1>3. ASSUME NEW s \in Sessions, Step(s) PROVE ToldIsNoted'
  <2>1. CASE RemoveUnknown(s) \/ Lookup(s) \/ Decide(s)
    <3>1. \A t \in Sessions : Telling(t) => Telling(t)'
      BY <2>1 DEF RemoveUnknown, Lookup, Decide, Goto, Telling, TypeOK, writes
    <3> QED BY <2>1, <3>1, <1>q DEF RemoveUnknown, Lookup, Decide, dbVars, histVars
  <2>2. CASE Tell(s)
    <3>1. \A t \in Sessions : Telling(t) => t \in Others(s) /\ Telling(t)'
      BY <2>2 DEF Tell, Goto, Telling, TypeOK, writes, Others
    <3>2. CASE told' = told + 1
      <4>1. Telling(s)'
        BY <2>2, <3>2 DEF Tell, Goto, Telling, TypeOK
      <4>2. again' = (again \/ notified \/ \E t \in Others(s) : Telling(t))
        BY <2>2, <3>2 DEF Tell, TypeOK
      <4>3. told' > 1 => told > 0
        BY <3>2 DEF TypeOK
      <4> QED BY <3>1, <4>1, <4>2, <4>3 DEF ToldIsNoted
    <3>3. CASE UNCHANGED <<told, again>>
      BY <2>2, <3>1, <3>3, <1>q DEF Tell, dbVars
    <3> QED BY <2>2, <3>2, <3>3 DEF Tell
  <2>3. CASE Commit(s)
    <3>1. \A t \in Sessions : t # s /\ Telling(t) => Telling(t)'
      BY <2>3 DEF Commit, EndSession, Goto, Telling, TypeOK
    <3>2. Telling(s) => notified'
      BY <2>3 DEF Commit, Telling
    <3>3. notified => notified' \/ again'
      BY <2>3 DEF Commit, TypeOK
    <3>4. told' = told /\ (again => again')
      BY <2>3 DEF Commit
    <3> QED BY <3>1, <3>2, <3>3, <3>4 DEF ToldIsNoted
  <2>4. CASE DeadlockAbort(s)
    BY <2>4, <1>f DEF DeadlockAbort
  <2> QED BY <1>3, <2>1, <2>2, <2>3, <2>4 DEF Step
<1>4. ASSUME NEW s \in Sessions, Rollback(s) PROVE ToldIsNoted'
  BY <1>4, <1>f DEF Rollback
<1>5. ASSUME NEW d \in Devices, GoIdle(d) PROVE ToldIsNoted'
  BY <1>5, <1>q DEF GoIdle, histVars, writes, Telling
<1>6. CASE UNCHANGED vars
  BY <1>6, <1>q DEF vars, dbVars, histVars, writes, Telling
<1> QED BY <1>1, <1>2, <1>3, <1>4, <1>5, <1>6 DEF Next

\* _notify_overflow_once tells the customer once, but for the reasons it states.
THEOREM ToldOnce == Spec => []OverflowToldOnce
<1>1. Init => ToldIsNoted
  BY DEF Init, ToldIsNoted
<1>2. ToldIsNoted => OverflowToldOnce
  BY DEF ToldIsNoted, OverflowToldOnce
<1> QED BY <1>1, <1>2, TypeInit, TypeStep, ToldStep, PTL DEF Spec

-------------------------------------------------------------------------------
(* The slots                                                               *)

LEMMA ControlStep == TypeOK /\ Control /\ [Next]_vars => Control'
<1> SUFFICES ASSUME TypeOK, Control, [Next]_vars PROVE Control'
  OBVIOUS
<1>f. ASSUME NEW s \in Sessions, Forget(s) PROVE Control'
  BY <1>f DEF Forget, EndSession, Goto, Control, TypeOK
<1>1. ASSUME NEW s \in Sessions, NEW k \in Kinds, NEW d \in Devices, Begin(s, k, d) PROVE Control'
  <2>1. First(k) \notin {"decide", "tell", "mark", "done", "record"}
    BY DEF First, Kinds
  <2> QED BY <1>1, <2>1 DEF Begin, Goto, Control, TypeOK, writes
<1>2. ASSUME NEW s \in Sessions, Waiting(s) PROVE Control'
  <2> DEFINE Early == Steps \ {"record", "decide", "tell", "mark"}
  <2>n. /\ AfterLift(s) \in Early /\ LiftIfFrozen(s) \in Early
        /\ AfterPurge(s) \in Early /\ AfterPrune(s) \in Early
    BY DEF AfterLift, LiftIfFrozen, AfterPurge, AfterPrune, Steps
  <2>1. ASSUME NEW D, NEW at \in Early, Delete(s, D), Goto(s, at),
               pc[s] \in {"purge", "prune", "remove", "clear"}
        PROVE Control'
    BY <2>1 DEF Delete, Goto, Control, TypeOK, loaded, Steps
  <2>2. ASSUME NEW what, NEW at \in Early, WriteSubscription(s, what), Goto(s, at),
               pc[s] \in {"lift", "renew", "mark"}, pc[s] = "mark" => at = "done"
        PROVE Control'
    BY <2>2 DEF WriteSubscription, Goto, Control, TypeOK, loaded, Steps
  <2>3. CASE Purge(s) \/ Prune(s) \/ Remove(s)
    BY <2>1, <2>3, <2>n DEF Purge, Prune, Remove
  <2>4. CASE Clear(s)
    BY <2>1, <2>4 DEF Clear, Steps
  <2>5. CASE Lift(s) \/ Renew(s)
    BY <2>2, <2>5, <2>n DEF Lift, Renew, Steps
  <2>6. CASE MarkTold(s)
    BY <2>2, <2>6 DEF MarkTold, Steps
  <2>7. CASE Touch(s)
    BY <2>7 DEF Touch, Goto, Control, TypeOK, loaded
  <2>8. CASE Insert(s)
    BY <2>8 DEF Insert, Goto, Control, TypeOK, loaded
  <2>9. CASE Conflict(s)
    BY <2>9, <1>f DEF Conflict
  <2> QED BY <1>2, <2>3, <2>4, <2>5, <2>6, <2>7, <2>8, <2>9 DEF Waiting
<1>3. ASSUME NEW s \in Sessions, Step(s) PROVE Control'
  <2>1. CASE RemoveUnknown(s)
    BY <2>1 DEF RemoveUnknown, Goto, Control, TypeOK, loaded, writes
  <2>2. CASE Lookup(s)
    BY <2>2 DEF Lookup, Goto, Control, TypeOK, loaded, Seen, View
  <2>3. CASE Decide(s)
    BY <2>3 DEF Decide, Goto, Control, TypeOK, loaded
  <2>4. CASE Tell(s)
    <3>1. pc' = [pc EXCEPT ![s] = "mark"] \/ pc' = [pc EXCEPT ![s] = "done"]
      BY <2>4 DEF Tell, Goto
    <3>2. pc[s] = "tell" /\ UNCHANGED <<loaded, writes>>
      BY <2>4 DEF Tell
    <3> QED BY <3>1, <3>2 DEF Control, TypeOK, loaded, writes
  <2>5. CASE Commit(s)
    BY <2>5 DEF Commit, EndSession, Goto, Control, TypeOK
  <2>6. CASE DeadlockAbort(s)
    BY <2>6, <1>f DEF DeadlockAbort
  <2> QED BY <1>3, <2>1, <2>2, <2>3, <2>4, <2>5, <2>6 DEF Step
<1>4. ASSUME NEW s \in Sessions, Rollback(s) PROVE Control'
  BY <1>4, <1>f DEF Rollback
<1>5. ASSUME NEW d \in Devices, GoIdle(d) PROVE Control'
  BY <1>5 DEF GoIdle, Control, loaded, writes
<1>6. CASE UNCHANGED vars
  BY <1>6 DEF vars, Control, loaded, writes
<1> QED BY <1>1, <1>2, <1>3, <1>4, <1>5, <1>6 DEF Next

\* A commit leaves alone what other requests hold.
LEMMA CommitRows ==
  ASSUME TypeOK, Control, Locks, NEW s \in Sessions, Commit(s), NEW d \in Devices
  PROVE /\ rows'[d] = (IF added[s] /\ d = dev[s] THEN stamp[s] ELSE IF d \in gone[s] THEN 0 ELSE rows[d])
        /\ \A t \in Others(s) : d \in gone[t] => rows'[d] # 0 /\ rows'[d] = rows[d]
        /\ \A t \in Others(s) : touched[t] /\ d = dev[t] => rows'[d] = rows[d]
        /\ \A t \in Others(s) : added[t] /\ d = dev[t] => rows'[d] = 0 \/ d \in gone[t]
<1>1. rows'[d] = (IF added[s] /\ d = dev[s] THEN stamp[s] ELSE IF d \in gone[s] THEN 0 ELSE rows[d])
  BY DEF Commit, View
<1>2. ASSUME NEW t \in Others(s), d \in gone[t] PROVE rows'[d] # 0 /\ rows'[d] = rows[d]
  BY <1>1, <1>2 DEF Locks, Others
<1>3. ASSUME NEW t \in Others(s), touched[t], d = dev[t] PROVE rows'[d] = rows[d]
  BY <1>1, <1>3 DEF Locks, Others
<1>4. ASSUME NEW t \in Others(s), added[t], d = dev[t] PROVE rows'[d] = 0 \/ d \in gone[t]
  BY <1>1, <1>4 DEF Locks, Others
<1> QED BY <1>1, <1>2, <1>3, <1>4

LEMMA LocksStep == TypeOK /\ Control /\ Locks /\ [Next]_vars => Locks'
<1> SUFFICES ASSUME TypeOK, Control, Locks, [Next]_vars PROVE Locks'
  OBVIOUS
<1>q. ASSUME UNCHANGED <<rows, dev, gone, added, touched>> PROVE Locks'
  BY <1>q DEF Locks
<1>f. ASSUME NEW s \in Sessions, Forget(s) PROVE Locks'
  BY <1>f DEF Forget, EndSession, dbVars, Locks, TypeOK
<1>1. ASSUME NEW s \in Sessions, NEW k \in Kinds, NEW d \in Devices, Begin(s, k, d) PROVE Locks'
  BY <1>1 DEF Begin, dbVars, writes, Locks, TypeOK
<1>2. ASSUME NEW s \in Sessions, Waiting(s) PROVE Locks'
  <2>1. ASSUME NEW D \in SUBSET Devices, Delete(s, D), \A d \in D : View(s)[d] # 0,
               ~ added[s], ~ touched[s]
        PROVE Locks'
    <3>1. gone' = [gone EXCEPT ![s] = gone[s] \cup D] /\ UNCHANGED <<rows, dev, added, touched>>
      BY <2>1 DEF Delete, dbVars, loaded
    <3>2. \A d \in D : rows[d] # 0 /\ \A t \in Others(s) : d \notin gone[t] /\ ~ (touched[t] /\ dev[t] = d)
      BY <2>1 DEF Delete, RowFree, View
    <3> QED BY <2>1, <3>1, <3>2 DEF Locks, TypeOK, Others
  <2>2. CASE Purge(s)
    BY <2>2, <2>1 DEF Purge, Seen, Control
  <2>3. CASE Prune(s)
    BY <2>3, <2>1 DEF Prune, Seen, Control
  <2>4. CASE Remove(s)
    <3>1. {dev[s]} \in SUBSET Devices /\ \A d \in {dev[s]} : View(s)[d] # 0
      BY <2>4 DEF Remove, Seen, TypeOK
    <3> QED BY <2>4, <3>1, <2>1 DEF Remove, Control
  <2>5. CASE Clear(s)
    BY <2>5, <2>1 DEF Clear, Seen, Control
  <2>6. CASE Lift(s) \/ Renew(s) \/ MarkTold(s)
    BY <2>6, <1>q DEF Lift, Renew, MarkTold, WriteSubscription, dbVars, loaded
  <2>7. CASE Touch(s)
    <3>1. dev[s] \notin gone[s]
      BY <2>7 DEF Touch, Control
    <3> QED BY <2>7, <3>1 DEF Touch, RowFree, Others, dbVars, loaded, Locks, TypeOK
  <2>8. CASE Insert(s)
    <3>1. rows[dev[s]] = 0 \/ dev[s] \in gone[s]
      BY <2>8 DEF Insert, Seen, View, TypeOK, Control
    <3> QED BY <2>8, <3>1 DEF Insert, KeyFree, Others, dbVars, loaded, Locks, TypeOK
  <2>9. CASE Conflict(s)
    BY <2>9, <1>f DEF Conflict
  <2> QED BY <1>2, <2>2, <2>3, <2>4, <2>5, <2>6, <2>7, <2>8, <2>9 DEF Waiting
<1>3. ASSUME NEW s \in Sessions, Step(s) PROVE Locks'
  <2>1. CASE RemoveUnknown(s) \/ Lookup(s) \/ Decide(s) \/ Tell(s)
    BY <2>1, <1>q DEF RemoveUnknown, Lookup, Decide, Tell, dbVars, loaded, writes
  <2>2. CASE Commit(s)
    <3>1. /\ \A t \in Others(s) : UNCHANGED <<dev[t], gone[t], added[t], touched[t]>>
          /\ gone'[s] = {} /\ ~ added'[s] /\ ~ touched'[s]
      BY <2>2 DEF Commit, EndSession, TypeOK, Others
    <3>2. \A t \in Others(s) : dev[t] \in Devices /\ gone[t] \subseteq Devices
      BY DEF TypeOK, Others
    <3> QED BY <2>2, <3>1, <3>2, CommitRows DEF Locks, Others
  <2>3. CASE DeadlockAbort(s)
    BY <2>3, <1>f DEF DeadlockAbort
  <2> QED BY <1>3, <2>1, <2>2, <2>3 DEF Step
<1>4. ASSUME NEW s \in Sessions, Rollback(s) PROVE Locks'
  BY <1>4, <1>f DEF Rollback
<1>5. ASSUME NEW d \in Devices, GoIdle(d) PROVE Locks'
  BY <1>5, <1>q DEF GoIdle, loaded, writes
<1>6. CASE UNCHANGED vars
  BY <1>6, <1>q DEF vars, dbVars, loaded, writes
<1> QED BY <1>1, <1>2, <1>3, <1>4, <1>5, <1>6 DEF Next

LEMMA FewerBefore ==
  ASSUME NEW rs, NEW ts, NEW d, NEW e, Before(ts, e) \subseteq Before(rs, d), Allowed(rs, d)
  PROVE  Allowed(ts, e)
<1>1. IsFiniteSet(Before(rs, d))
  BY DeviceSlotsAssumption, FS_Subset DEF DeviceSlotsAssumption, Before
<1>2. Cardinality(Before(ts, e)) <= Cardinality(Before(rs, d))
  BY <1>1, FS_Subset
<1>3. Cardinality(Before(ts, e)) \in Nat /\ Cardinality(Before(rs, d)) \in Nat
  BY <1>1, FS_Subset, FS_CardinalityType
<1> QED BY <1>2, <1>3, DeviceSlotsAssumption DEF DeviceSlotsAssumption, Allowed

\* What may disturb a pending answer is a commit: not a later row, which the
\* answer comes before, nor an earlier one, which overtakes it.
LEMMA CommitKeepsAnswer ==
  ASSUME TypeOK, Control, Locks, NEW s \in Sessions, Commit(s), NEW t \in Others(s),
         answer[t] # "none", dev[t] \notin overtaken'
  PROVE /\ dev[t] \notin overtaken
        /\ Before(View(t)', dev'[t]) \subseteq Before(View(t), dev[t])
<1>1. /\ added[t] \/ touched[t]
      /\ t \in Sessions /\ dev[t] \in Devices /\ stamp[t] \in Nat /\ stamp[s] \in Nat
  BY DEF Control, TypeOK, Others
<1>2. dev[t] \notin gone[s]
  BY <1>1 DEF Locks, Others
<1>3. overtaken' = (overtaken \ {d \in gone[s] : View(s)[d] = 0})
                       \cup (IF added[s] THEN Overtakes(s) ELSE {})
  BY DEF Commit
<1>4. dev[t] \notin overtaken
  BY <1>2, <1>3
<1>5. UNCHANGED <<dev[t], stamp[t], gone[t], added[t]>>
  BY <1>1 DEF Commit, EndSession, TypeOK, Others
<1> DEFINE old == View(t)
           new == View(t)'
<1>6. \A e \in Devices : new[e] = (IF added[t] /\ e = dev[t] THEN stamp[t]
                                   ELSE IF e \in gone[t] THEN 0 ELSE rows'[e])
  BY <1>5 DEF View
<1>7. \A e \in Devices : old[e] = (IF added[t] /\ e = dev[t] THEN stamp[t]
                                   ELSE IF e \in gone[t] THEN 0 ELSE rows[e])
  BY DEF View
<1>8. new[dev[t]] = old[dev[t]]
  BY <1>1, <1>6, <1>7, CommitRows
<1>9. added[s] => ~ stamp[s] < old[dev[t]]
  <2> SUFFICES ASSUME added[s], stamp[s] < old[dev[t]] PROVE FALSE
    OBVIOUS
  <2>1. dev[t] \notin Overtakes(s)
    BY <1>3
  <2>2. CASE added[t]
    BY <1>1, <1>7, <2>1, <2>2 DEF Overtakes
  <2>3. CASE ~ added[t]
    <3>1. old[dev[t]] = rows[dev[t]] \/ old[dev[t]] = 0
      BY <1>1, <1>7, <2>3
    <3> QED BY <1>1, <2>1, <3>1 DEF Overtakes
  <2> QED BY <2>2, <2>3
<1>10. ASSUME NEW e \in Devices, new[e] # 0, new[e] < new[dev[t]]
       PROVE  old[e] # 0 /\ old[e] < old[dev[t]]
  <2>1. new[e] = old[e] \/ (added[s] /\ e = dev[s] /\ new[e] = stamp[s])
    BY <1>6, <1>7, <1>10, CommitRows
  <2> QED BY <1>8, <1>9, <1>10, <2>1
<1>11. Before(View(t)', dev'[t]) \subseteq Before(View(t), dev[t])
  BY <1>5, <1>10 DEF Before
<1> QED BY <1>4, <1>11

LEMMA ForgetKeepsAnswer ==
  ASSUME TypeOK, Control, Locks, NEW s \in Sessions, Forget(s), NEW t \in Others(s),
         answer[t] # "none", dev[t] \notin overtaken'
  PROVE dev[t] \notin overtaken
<1>1. overtaken' = IF added[s] /\ rows[dev[s]] = 0 THEN overtaken \ {dev[s]} ELSE overtaken
  BY DEF Forget
<1>2. added[t] \/ touched[t]
  BY DEF Control, Others
<1> QED BY <1>1, <1>2 DEF Locks, Others

LEMMA AnswerUnchanged ==
  ASSUME WillKeepSlot, rows' = rows, overtaken \subseteq overtaken', NEW t \in Sessions,
         answer'[t] = "serve" =>
           answer[t] = "serve" /\ UNCHANGED <<dev[t], stamp[t], gone[t], added[t]>>
  PROVE answer'[t] = "serve" /\ dev'[t] \notin overtaken' => Allowed(View(t)', dev'[t])
<1> SUFFICES ASSUME answer'[t] = "serve", dev'[t] \notin overtaken' PROVE Allowed(View(t)', dev'[t])
  OBVIOUS
<1>1. View(t)' = View(t)
  BY DEF View
<1> QED BY <1>1 DEF WillKeepSlot

LEMMA WillKeepSlotStep ==
  TypeOK /\ Control /\ Locks /\ WillKeepSlot /\ [Next]_vars => WillKeepSlot'
<1> SUFFICES ASSUME TypeOK, Control, Locks, WillKeepSlot, [Next]_vars,
                    NEW t \in Sessions
             PROVE answer'[t] = "serve" /\ dev'[t] \notin overtaken' => Allowed(View(t)', dev'[t])
  BY DEF WillKeepSlot
<1> DEFINE Kept == answer'[t] = "serve" /\ dev'[t] \notin overtaken' => Allowed(View(t)', dev'[t])
<1>f. ASSUME NEW s \in Sessions, Forget(s) PROVE Kept
  <2>1. answer' = [answer EXCEPT ![s] = "none"] /\ rows' = rows
    BY <1>f DEF Forget, EndSession, dbVars
  <2>2. CASE t # s
    <3>1. UNCHANGED <<answer[t], dev[t], stamp[t], gone[t], added[t]>>
      BY <1>f, <2>2 DEF Forget, EndSession, TypeOK
    <3>2. View(t)' = View(t)
      BY <2>1, <3>1 DEF View
    <3> QED BY <1>f, <2>2, <3>1, <3>2, ForgetKeepsAnswer DEF WillKeepSlot, Others
  <2> QED BY <2>1, <2>2 DEF TypeOK
<1>1. ASSUME NEW s \in Sessions, NEW k \in Kinds, NEW d \in Devices, Begin(s, k, d) PROVE Kept
  <2>1. answer[s] = "none" /\ answer' = answer
    BY <1>1 DEF Begin, Control, TypeOK, writes
  <2>2. t # s => UNCHANGED <<dev[t], stamp[t], gone[t], added[t]>>
    BY <1>1 DEF Begin, TypeOK, writes
  <2> QED BY <1>1, <2>1, <2>2, AnswerUnchanged DEF Begin, dbVars, histVars
<1>2. ASSUME NEW s \in Sessions, Waiting(s) PROVE Kept
  <2>1. CASE Conflict(s)
    BY <2>1, <1>f DEF Conflict
  <2>2. CASE MarkTold(s)
    BY <2>2, AnswerUnchanged DEF MarkTold, WriteSubscription, dbVars, histVars, loaded
  <2>3. CASE Lift(s) \/ Renew(s)
    BY <2>3, AnswerUnchanged DEF Lift, Renew, WriteSubscription, dbVars, histVars, loaded
  <2>4. CASE Purge(s) \/ Prune(s) \/ Remove(s) \/ Clear(s)
    <3>1. answer[s] = "none"
      BY <2>4 DEF Purge, Prune, Remove, Clear, Control, TypeOK
    <3>2. PICK D : Delete(s, D)
      BY <2>4 DEF Purge, Prune, Remove, Clear
    <3>3. t # s => UNCHANGED <<dev[t], stamp[t], gone[t], added[t]>>
      BY <3>2 DEF Delete, TypeOK, loaded
    <3> QED BY <3>1, <3>2, <3>3, AnswerUnchanged DEF Delete, dbVars, histVars
  <2>5. CASE Touch(s)
    BY <2>5, AnswerUnchanged DEF Touch, dbVars, histVars, loaded
  <2>6. CASE Insert(s)
    <3>1. answer[s] = "none" /\ answer' = answer
      BY <2>6 DEF Insert, Control, TypeOK
    <3>2. t # s => UNCHANGED <<dev[t], stamp[t], gone[t], added[t]>>
      BY <2>6 DEF Insert, TypeOK, loaded
    <3> QED BY <2>6, <3>1, <3>2, AnswerUnchanged DEF Insert, dbVars, histVars
  <2> QED BY <1>2, <2>1, <2>2, <2>3, <2>4, <2>5, <2>6 DEF Waiting
<1>3. ASSUME NEW s \in Sessions, Step(s) PROVE Kept
  <2>1. CASE RemoveUnknown(s) \/ Lookup(s) \/ Tell(s)
    BY <2>1, AnswerUnchanged DEF RemoveUnknown, Lookup, Tell, dbVars, histVars, loaded, writes
  <2>2. CASE Decide(s)
    <3>1. UNCHANGED <<rows, overtaken, dev, stamp, gone, added>>
      BY <2>2 DEF Decide, dbVars, histVars, loaded
    <3>2. answer' = [answer EXCEPT ![s] = IF Allowed(View(s), dev[s]) THEN "serve" ELSE "refuse"]
      BY <2>2 DEF Decide
    <3>3. CASE t = s
      <4>1. answer'[t] = "serve" => Allowed(View(t), dev[t])
        BY <3>2, <3>3 DEF TypeOK
      <4>2. View(t)' = View(t)
        BY <3>1 DEF View
      <4> QED BY <3>1, <4>1, <4>2
    <3>4. CASE t # s
      BY <3>1, <3>2, <3>4, AnswerUnchanged DEF TypeOK
    <3> QED BY <3>3, <3>4
  <2>3. CASE Commit(s)
    <3>1. answer' = [answer EXCEPT ![s] = "none"]
      BY <2>3 DEF Commit, EndSession
    <3>2. t # s => dev'[t] = dev[t] /\ answer'[t] = answer[t]
      BY <2>3 DEF Commit, EndSession, TypeOK
    <3>3. CASE t # s /\ answer'[t] = "serve" /\ dev'[t] \notin overtaken'
      <4>1. dev[t] \notin overtaken /\ Before(View(t)', dev'[t]) \subseteq Before(View(t), dev[t])
        BY <2>3, <3>2, <3>3, CommitKeepsAnswer DEF Others
      <4>2. Allowed(View(t), dev[t])
        BY <3>2, <3>3, <4>1 DEF WillKeepSlot
      <4> QED BY <4>1, <4>2, FewerBefore
    <3> QED BY <3>1, <3>3 DEF TypeOK
  <2>4. CASE DeadlockAbort(s)
    BY <2>4, <1>f DEF DeadlockAbort
  <2> QED BY <1>3, <2>1, <2>2, <2>3, <2>4 DEF Step
<1>4. ASSUME NEW s \in Sessions, Rollback(s) PROVE Kept
  BY <1>4, <1>f DEF Rollback
<1>5. ASSUME NEW d \in Devices, GoIdle(d) PROVE Kept
  BY <1>5, AnswerUnchanged DEF GoIdle, histVars, loaded, writes
<1>6. CASE UNCHANGED vars
  BY <1>6, AnswerUnchanged DEF vars, dbVars, histVars, loaded, writes
<1> QED BY <1>1, <1>2, <1>3, <1>4, <1>5, <1>6 DEF Next

-------------------------------------------------------------------------------
LEMMA KeepsSlotIsAllowed ==
  ASSUME TypeOK
  PROVE KeepsSlot <=> \A d \in served : rows[d] # 0 /\ d \notin overtaken => Allowed(rows, d)
<1>1. \A d \in served : {e \in Devices : 0 < rows[e] /\ rows[e] < rows[d]} = Before(rows, d)
  BY DEF Before, TypeOK
<1> QED BY <1>1 DEF KeepsSlot, Allowed

\* A commit serves a device that its request saw among the first, and disturbs no
\* other whose row is not later than the one it brings.
LEMMA CommitKeepsSlot ==
  ASSUME TypeOK, Control, Locks, WillKeepSlot, KeepsSlot, NEW s \in Sessions, Commit(s),
         NEW d \in served', rows'[d] # 0, d \notin overtaken'
  PROVE Allowed(rows', d)
<1>1. /\ dev[s] \in Devices /\ stamp[s] \in Nat /\ gone[s] \subseteq Devices
      /\ pc[s] = "done" /\ rows' = View(s)
      /\ overtaken' = (overtaken \ {e \in gone[s] : View(s)[e] = 0})
                         \cup (IF added[s] THEN Overtakes(s) ELSE {})
  BY DEF Commit, TypeOK
<1>2. d \in Devices /\ d \notin overtaken
  BY <1>1 DEF Commit, TypeOK
<1>3. CASE answer[s] = "serve" /\ d = dev[s]
  BY <1>1, <1>2, <1>3 DEF WillKeepSlot
<1>4. CASE ~ (answer[s] = "serve" /\ d = dev[s])
  <2>1. d \in served /\ (d = dev[s] => ~ added[s])
    BY <1>1, <1>4 DEF Commit, Control, TypeOK
  <2>2. rows'[d] = rows[d]
    BY <1>2, <2>1, CommitRows
  <2>3. Allowed(rows, d)
    BY <1>2, <2>1, <2>2, KeepsSlotIsAllowed
  <2>4. added[s] => ~ stamp[s] < rows[d]
    BY <1>1, <1>2 DEF Overtakes, TypeOK
  <2>5. ASSUME NEW e \in Devices, rows'[e] # 0, rows'[e] < rows'[d] PROVE rows[e] # 0 /\ rows[e] < rows[d]
    <3>1. rows'[e] = rows[e] \/ (added[s] /\ rows'[e] = stamp[s])
      BY <2>5, CommitRows
    <3> QED BY <2>2, <2>4, <2>5, <3>1
  <2>6. Before(rows', d) \subseteq Before(rows, d)
    BY <2>5 DEF Before
  <2> QED BY <2>3, <2>6, FewerBefore
<1> QED BY <1>3, <1>4

LEMMA KeepsSlotStep ==
  TypeOK /\ Control /\ Locks /\ WillKeepSlot /\ KeepsSlot /\ [Next]_vars => KeepsSlot'
<1> SUFFICES ASSUME TypeOK, Control, Locks, WillKeepSlot, KeepsSlot, [Next]_vars PROVE KeepsSlot'
  OBVIOUS
<1>q. ASSUME UNCHANGED <<rows, served, overtaken>> PROVE KeepsSlot'
  BY <1>q DEF KeepsSlot
<1>f. ASSUME NEW s \in Sessions, Forget(s) PROVE KeepsSlot'
  <2>1. /\ UNCHANGED <<rows, served>>
        /\ \A d \in overtaken \ overtaken' : rows[d] = 0
    BY <1>f DEF Forget, dbVars
  <2> QED BY <2>1 DEF KeepsSlot
<1>1. ASSUME NEW s \in Sessions, NEW k \in Kinds, NEW d \in Devices, Begin(s, k, d) PROVE KeepsSlot'
  BY <1>1, <1>q DEF Begin, dbVars, histVars
<1>2. ASSUME NEW s \in Sessions, Waiting(s) PROVE KeepsSlot'
  <2>1. CASE Purge(s) \/ Prune(s) \/ Remove(s) \/ Clear(s)
    BY <2>1, <1>q DEF Purge, Prune, Remove, Clear, Delete, dbVars, histVars
  <2>2. CASE Lift(s) \/ Renew(s) \/ MarkTold(s)
    BY <2>2, <1>q DEF Lift, Renew, MarkTold, WriteSubscription, dbVars, histVars
  <2>3. CASE Touch(s) \/ Insert(s)
    BY <2>3, <1>q DEF Touch, Insert, dbVars, histVars
  <2>4. CASE Conflict(s)
    BY <2>4, <1>f DEF Conflict
  <2> QED BY <1>2, <2>1, <2>2, <2>3, <2>4 DEF Waiting
<1>3. ASSUME NEW s \in Sessions, Step(s) PROVE KeepsSlot'
  <2>1. CASE RemoveUnknown(s) \/ Lookup(s) \/ Decide(s) \/ Tell(s)
    BY <2>1, <1>q DEF RemoveUnknown, Lookup, Decide, Tell, dbVars, histVars
  <2>2. CASE Commit(s)
    <3>1. TypeOK'
      BY TypeStep
    <3>2. (\A d \in served : rows[d] # 0 /\ d \notin overtaken => Allowed(rows, d))'
      BY <2>2, CommitKeepsSlot
    <3> QED BY <3>1, <3>2, KeepsSlotIsAllowed, PTL
  <2>3. CASE DeadlockAbort(s)
    BY <2>3, <1>f DEF DeadlockAbort
  <2> QED BY <1>3, <2>1, <2>2, <2>3 DEF Step
<1>4. ASSUME NEW s \in Sessions, Rollback(s) PROVE KeepsSlot'
  BY <1>4, <1>f DEF Rollback
<1>5. ASSUME NEW d \in Devices, GoIdle(d) PROVE KeepsSlot'
  BY <1>5, <1>q DEF GoIdle, histVars
<1>6. CASE UNCHANGED vars
  BY <1>6, <1>q DEF vars, dbVars, histVars
<1> QED BY <1>1, <1>2, <1>3, <1>4, <1>5, <1>6 DEF Next

\* "The first devices go on working" (device_limit.py:24).
THEOREM SlotKept == Spec => []KeepsSlot
<1>1. Init => Control /\ Locks /\ WillKeepSlot /\ KeepsSlot
  BY DEF Init, Control, Locks, WillKeepSlot, KeepsSlot
<1> QED BY <1>1, TypeInit, TypeStep, ControlStep, LocksStep, WillKeepSlotStep, KeepsSlotStep, PTL DEF Spec

-----------------------------------------------------------------------------
(* The run                                                                 *)
\* A behaviour of the run is one of the credentials, which may stand still.
LEMMA CredentialsPart == AccessSpec => C!Spec
<1>1. AccessInit => C!Init
  BY DEF AccessInit
<1>2. [AccessNext]_<<part, vars, credentialVars>> => [C!Next]_(C!vars)
  BY DEF AccessNext, credentialVars, C!vars, C!db, C!history
<1> QED BY <1>1, <1>2, PTL DEF AccessSpec, C!Spec

\* And one of the slots.
LEMMA SlotsPart == AccessSpec => Spec
<1>1. AccessInit => Init
  BY DEF AccessInit
<1>2. [AccessNext]_<<part, vars, credentialVars>> => [Next]_vars
  BY DEF AccessNext
<1> QED BY <1>1, <1>2, PTL DEF AccessSpec, Spec

\* Types: the rows, the links, the slots and the requests of both components,
\* and that every credential belongs to a device that exists.
THEOREM AccessTypes == AccessSpec => []AccessTypeOK
<1>1. C!Spec => []C!TypeOK
  BY AccessAssumption, C!TypeCorrect
<1>2. Spec => []TypeOK
  BY TypeCorrect
<1>3. C!TypeOK /\ TypeOK => AccessTypeOK
  BY DEF AccessTypeOK
<1> QED BY <1>1, <1>2, <1>3, CredentialsPart, SlotsPart, PTL

\* A link handed out works until its uuid is revoked or its device removed.
THEOREM LinksHold == AccessSpec => []LinksLast
<1>1. C!Spec => []C!LinksLast
  BY AccessAssumption, C!LinksHold
<1>2. C!LinksLast => LinksLast
  BY DEF LinksLast
<1> QED BY <1>1, <1>2, CredentialsPart, PTL

\* After a reset of the link or an expiry no link handed out before works.
THEOREM OldLinks == AccessSpec => []OldLinksDie
<1>1. C!Spec => []C!OldLinksDie
  BY AccessAssumption, C!OldLinks
<1>2. C!OldLinksDie => OldLinksDie
  BY DEF OldLinksDie
<1> QED BY <1>1, <1>2, CredentialsPart, PTL

\* Overlapping additions exceed the limit by at most one each.
THEOREM Limited == AccessSpec => []DeviceLimit
<1>1. C!Spec => []C!DeviceLimit
  BY AccessAssumption, C!Limited
<1>2. C!DeviceLimit => DeviceLimit
  BY DEF DeviceLimit
<1> QED BY <1>1, <1>2, CredentialsPart, PTL

\* Whatever refreshes, renewals, removals and resets interleave, each of them
\* is one step on the customer's links: it withdraws those of whole configurations,
\* of its device or all, and gives none for a second time.
THEOREM PromisedLinks == AccessSpec => KeepsLinks
<1>1. C!Spec => C!KeepsLinks
  BY AccessAssumption, C!LinksPromised
<1>2. C!KeepsLinks => KeepsLinks
  BY DEF KeepsLinks
<1> QED BY <1>1, <1>2, CredentialsPart
===============================================================================
