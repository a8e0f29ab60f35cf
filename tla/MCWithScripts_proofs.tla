-------------------------- MODULE MCWithScripts_proofs -------------------------
(***************************************************************************)
(* What is proved of XraySync, for any number of clients and sessions, and *)
(* what the run of MCWithScripts checks of the imported subscriptions, for *)
(* any number of nodes and refreshes, and of the rollouts, for any number  *)
(* of scripts, deaths and files that may not import.                       *)
(***************************************************************************)
EXTENDS MCWithScripts, SequenceTheorems, TLAPS

-----------------------------------------------------------------------------
(* XraySync                                                                *)

LEMMA TypeInit == Init => TypeOK
  BY SyncAssumption DEF Init, TypeOK, PC, SyncAssumption

LEMMA ViewType ==
  ASSUME TypeOK, NEW s \in Sessions
  PROVE  View(s) \in SUBSET Clients
  BY DEF TypeOK, View

LEMMA BeginType ==
  ASSUME TypeOK, NEW s \in Sessions, NEW c \in Clients, Begin(s, c)
  PROVE  TypeOK'
  <1>1. /\ pc' \in [Sessions -> PC] /\ pc'[s] = "work"
        /\ \A t \in Sessions \ {s} : pc'[t] = pc[t]
    BY DEF Begin, Goto, TypeOK, PC
  <1>2. /\ draft' \in [Sessions -> Clients \cup {NoClient}] /\ draft'[s] = c
        /\ \A t \in Sessions \ {s} : draft'[t] = draft[t] /\ draft[t] # c
        /\ gives' \in [Sessions -> BOOLEAN]
    BY DEF Begin, TypeOK
  <1>3. started' \in 0 .. MaxOps
    BY SyncAssumption DEF Begin, TypeOK, SyncAssumption
  <1>4. \A t \in Sessions : draft'[t] # NoClient =>
          pc'[t] # "idle" /\ \A u \in Sessions \ {t} : draft'[u] # draft'[t]
    BY <1>1, <1>2 DEF TypeOK
  <1>5. QED
    BY <1>1, <1>2, <1>3, <1>4 DEF Begin, TypeOK

LEMMA LapseType ==
  ASSUME TypeOK, NEW c \in Clients, Lapse(c)
  PROVE  TypeOK'
  <1>1. lapses' \in 0 .. MaxLapses
    BY SyncAssumption DEF Lapse, TypeOK, SyncAssumption
  <1>2. QED
    BY <1>1 DEF Lapse, TypeOK

LEMMA EndType ==
  ASSUME TypeOK, NEW s \in Sessions, EndSession(s)
  PROVE  /\ pc' \in [Sessions -> PC]
         /\ draft' \in [Sessions -> Clients \cup {NoClient}] /\ gives' \in [Sessions -> BOOLEAN]
         /\ list' \in [Sessions -> SUBSET Clients] /\ seenFile' \in [Sessions -> SUBSET Clients]
         /\ \A t \in Sessions : draft'[t] # NoClient =>
              pc'[t] # "idle" /\ \A u \in Sessions \ {t} : draft'[u] # draft'[t]
  BY DEF TypeOK, EndSession, Goto, PC

\* A step from one control point to another within a sync.
LEMMA MoveType ==
  ASSUME TypeOK, NEW s \in Sessions, NEW at \in PC \ {"idle"}, Goto(s, at),
         UNCHANGED <<draft, gives>>
  PROVE  /\ pc' \in [Sessions -> PC]
         /\ \A t \in Sessions : draft'[t] # NoClient =>
              pc'[t] # "idle" /\ \A u \in Sessions \ {t} : draft'[u] # draft'[t]
  BY DEF TypeOK, Goto

LEMMA WorkType ==
  ASSUME TypeOK, NEW s \in Sessions,
         \/ TakeList(s) \/ ReadFile(s) \/ Merge(s) \/ WriteFile(s) \/ Reload(s) \/ SkipSync(s)
  PROVE  TypeOK'
  <1>1. CASE TakeList(s)
    <2>1. Goto(s, "read") /\ UNCHANGED <<draft, gives>> /\ list' \in [Sessions -> SUBSET Clients]
      BY <1>1, ViewType DEF TakeList, TypeOK
    <2>2. QED
      BY <1>1, <2>1, MoveType DEF TakeList, TypeOK, PC, bounds
  <1>2. CASE ReadFile(s)
    <2>1. /\ Goto(s, "merge") /\ UNCHANGED <<draft, gives>>
          /\ seenFile' \in [Sessions -> SUBSET Clients]
      BY <1>2 DEF ReadFile, TypeOK
    <2>2. QED
      BY <1>2, <2>1, MoveType DEF ReadFile, TypeOK, PC, bounds
  <1>3. CASE Merge(s)
    <2>1. (Goto(s, "synced") \/ Goto(s, "write")) /\ UNCHANGED <<draft, gives>>
      BY <1>3 DEF Merge
    <2>2. QED
      BY <1>3, <2>1, MoveType DEF Merge, TypeOK, PC, bounds
  <1>4. CASE WriteFile(s)
    <2>1. Goto(s, "reload") /\ UNCHANGED <<draft, gives>> /\ file' \in SUBSET Clients
      BY <1>4 DEF WriteFile, WriteAndReload, TypeOK
    <2>2. QED
      BY <1>4, <2>1, MoveType DEF WriteFile, TypeOK, PC, bounds
  <1>5. CASE Reload(s)
    <2>1. Goto(s, "synced") /\ UNCHANGED <<draft, gives>> /\ running' \in SUBSET Clients
      BY <1>5 DEF Reload, TypeOK
    <2>2. QED
      BY <1>5, <2>1, MoveType DEF Reload, TypeOK, PC, bounds
  <1>6. CASE SkipSync(s)
    <2>1. Goto(s, "synced") /\ UNCHANGED <<draft, gives>>
      BY <1>6 DEF SkipSync
    <2>2. QED
      BY <1>6, <2>1, MoveType DEF SkipSync, TypeOK, PC, bounds
  <1>7. QED
    BY <1>1, <1>2, <1>3, <1>4, <1>5, <1>6

LEMMA FailType ==
  ASSUME TypeOK, NEW s \in Sessions, SyncFails(s) \/ Rollback(s) \/ Commit(s)
  PROVE  TypeOK'
  <1>1. Fails => failures' \in 0 .. MaxFailures
    BY SyncAssumption DEF Fails, TypeOK, SyncAssumption
  <1>2. CASE SyncFails(s)
    <2>1. Goto(s, "synced") /\ UNCHANGED <<draft, gives>>
      BY <1>2 DEF SyncFails
    <2>2. QED
      BY <1>1, <1>2, <2>1, MoveType DEF SyncFails, TypeOK, PC
  <1>3. CASE Rollback(s)
    BY <1>1, <1>3, EndType DEF Rollback, TypeOK
  <1>4. CASE Commit(s)
    BY <1>4, EndType, ViewType DEF Commit, TypeOK, bounds
  <1>5. QED
    BY <1>2, <1>3, <1>4

\* Every variable keeps its type, and no two sessions change one client.
THEOREM TypeCorrect == Spec => []TypeOK
  <1>1. TypeOK /\ [Next]_vars => TypeOK'
    <2> SUFFICES ASSUME TypeOK, [Next]_vars PROVE TypeOK'
      OBVIOUS
    <2>1. CASE UNCHANGED vars
      BY <2>1 DEF TypeOK, vars, bounds
    <2>2. CASE CronBegin
      <3>1. Goto(Cron, "work") /\ Cron \in Sessions /\ UNCHANGED <<draft, gives>>
        BY <2>2 DEF CronBegin, Sessions
      <3>2. QED
        BY <2>2, <3>1, MoveType DEF CronBegin, TypeOK, PC, bounds
    <2>3. ASSUME NEW c \in Clients, Lapse(c) \/ \E s \in Sessions : Begin(s, c) PROVE TypeOK'
      BY <2>3, LapseType, BeginType
    <2>4. ASSUME NEW s \in Sessions, Step(s) \/ SkipSync(s) \/ SyncFails(s) \/ Rollback(s)
          PROVE  TypeOK'
      BY <2>4, WorkType, FailType DEF Step
    <2>5. QED
      BY <2>1, <2>2, <2>3, <2>4 DEF Next
  <1>2. QED
    BY TypeInit, <1>1, PTL DEF Spec

-------------------------------------------------------------------------------
LEMMA LoadedStep == TypeOK /\ FileGetsLoaded /\ [Next]_vars => FileGetsLoaded'
  <1> SUFFICES ASSUME TypeOK, FileGetsLoaded, [Next]_vars, failures' = 0, running' # file'
               PROVE  \E t \in Sessions : pc'[t] = "reload"
    BY DEF FileGetsLoaded
  <1>1. CASE UNCHANGED vars
    BY <1>1 DEF vars, bounds, FileGetsLoaded
  <1>2. ASSUME NEW s \in Sessions, NEW at \in PC, Goto(s, at), pc[s] # "reload",
               UNCHANGED <<running, file, failures>>
        PROVE  \E t \in Sessions : pc'[t] = "reload"
    BY <1>2 DEF FileGetsLoaded, Goto, TypeOK
  <1>3. CASE CronBegin
    BY <1>2, <1>3 DEF CronBegin, Sessions, PC, bounds
  <1>4. ASSUME NEW c \in Clients, Lapse(c) PROVE \E t \in Sessions : pc'[t] = "reload"
    BY <1>4 DEF Lapse, FileGetsLoaded
  <1>5. ASSUME NEW s \in Sessions, NEW c \in Clients, Begin(s, c)
        PROVE  \E t \in Sessions : pc'[t] = "reload"
    BY <1>2, <1>5 DEF Begin, PC
  <1>6. ASSUME NEW s \in Sessions,
               TakeList(s) \/ ReadFile(s) \/ Merge(s) \/ SkipSync(s) \/ Commit(s)
        PROVE  \E t \in Sessions : pc'[t] = "reload"
    BY <1>2, <1>6 DEF TakeList, ReadFile, Merge, SkipSync, Commit, EndSession, PC, bounds
  <1>7. ASSUME NEW s \in Sessions, WriteFile(s) PROVE pc'[s] = "reload"
    BY <1>7 DEF WriteFile, WriteAndReload, Goto, TypeOK
  <1>8. ASSUME NEW s \in Sessions, Reload(s) PROVE FALSE
    BY <1>8 DEF Reload
  <1>9. ASSUME NEW s \in Sessions, SyncFails(s) \/ Rollback(s) PROVE FALSE
    BY <1>9 DEF SyncFails, Rollback, Fails, TypeOK
  <1>10. QED
    BY <1>1, <1>3, <1>4, <1>5, <1>6, <1>7, <1>8, <1>9 DEF Next, Step

\* A file that Xray has not loaded yet has a session that will reload it.
THEOREM NoFileForgotten == Spec => []FileGetsLoaded
  <1>1. Init => FileGetsLoaded
    BY DEF Init, FileGetsLoaded
  <1>2. QED
    BY <1>1, LoadedStep, TypeCorrect, PTL DEF Spec

-----------------------------------------------------------------------------
(* Imported subscriptions                                                  *)

NodeStates == {"none", "alive", "dead"}

RefreshRecords ==
  [at : {"idle", "fetch", "probe", "select", "flush", "flushed"}, list : SUBSET Nodes,
   up : SUBSET Nodes, loaded : [Nodes -> NodeStates], alone : BOOLEAN]

RowTypes ==
  /\ rows \in [Nodes -> NodeStates] /\ active \in BOOLEAN /\ exists \in BOOLEAN
  /\ answered \in SUBSET Nodes /\ undisturbed \in BOOLEAN

RefreshTypes ==
  /\ refresh \in [Refreshes -> RefreshRecords]
  /\ \A r \in Refreshes :
       /\ refresh[r].up \subseteq refresh[r].list
       /\ refresh[r].at = "fetch" => refresh[r].up = {}
       /\ refresh[r].at = "idle" => refresh[r] = I!Idle

ImportTypes == RowTypes /\ RefreshTypes

\* A refresh that believes itself alone is the only one that runs.
OnlyOne ==
  \A r, q \in Refreshes : r # q /\ I!Running(r) /\ I!Running(q) => ~ refresh[r].alone

\* What it has loaded is still what is committed.
Current ==
  \A r \in Refreshes :
    /\ refresh[r].at = "flushed" => exists
    /\ refresh[r].at \in {"flush", "flushed"} /\ refresh[r].alone /\ exists => refresh[r].loaded = rows

Answering == undisturbed => {n \in Nodes : rows[n] = "alive"} = answered

ImportsInv == ImportTypes /\ OnlyOne /\ Current /\ Answering

LEMMA ImportsIdle == I!Idle \in RefreshRecords
  BY DEF I!Idle, RefreshRecords, I!NoRows, NodeStates

LEMMA ImportsInit == I!Init => ImportsInv
<1> SUFFICES ASSUME I!Init PROVE ImportsInv
  OBVIOUS
<1>1. I!Idle.up \subseteq I!Idle.list /\ I!Idle.at = "idle"
  BY DEF I!Idle
<1>2. ImportTypes
  BY <1>1, ImportsIdle DEF I!Init, ImportTypes, RowTypes, RefreshTypes, I!NoRows, NodeStates
<1>3. OnlyOne /\ Current
  BY <1>1 DEF I!Init, OnlyOne, Current, I!Running
<1>4. Answering
  BY DEF I!Init, Answering, I!NoRows
<1> QED BY <1>2, <1>3, <1>4 DEF ImportsInv

\* What a step of a refresh that runs makes of it.
LEMMA OwnStep ==
  ASSUME ImportTypes, NEW r \in Refreshes,
         \/ I!Fetch(r) \/ I!FetchFails(r) \/ I!Probe(r) \/ I!Select(r) \/ I!Flush(r) \/ I!Fail(r) \/ I!Commit(r)
  PROVE  /\ refresh[r].at # "idle"
         /\ \E new \in RefreshRecords :
              /\ refresh' = [refresh EXCEPT ![r] = new]
              /\ new.up \subseteq new.list /\ new.at # "fetch"
              /\ new.at = "idle" => new = I!Idle
              /\ new.at # "idle" => new.alone = refresh[r].alone /\ ~ I!Commit(r)
              /\ new.at \in {"flush", "flushed"} =>
                   \/ new.loaded = rows
                   \/ refresh[r].at = "flush" /\ new.loaded = refresh[r].loaded /\ exists
              /\ new.at = "flushed" => exists
<1> DEFINE old == refresh[r]
<1>1. old \in RefreshRecords /\ old.up \subseteq old.list /\ (old.at = "fetch" => old.up = {})
  BY DEF ImportTypes, RefreshTypes
<1>2. CASE I!Fetch(r)
  <2>1. PICK L \in SUBSET Nodes : I!Goto(r, "fetch", [old EXCEPT !.at = "probe", !.list = L])
    BY <1>2 DEF I!Fetch
  <2> DEFINE new == [old EXCEPT !.at = "probe", !.list = L]
  <2>2. new \in RefreshRecords /\ new.up = old.up /\ new.list = L /\ new.at = "probe" /\ new.alone = old.alone
    BY <1>1 DEF RefreshRecords
  <2>3. refresh' = [refresh EXCEPT ![r] = new] /\ old.at = "fetch"
    BY <2>1 DEF I!Goto
  <2> HIDE DEF old, new
  <2> QED BY <1>1, <2>2, <2>3 DEF I!Commit, I!Goto, old
<1>3. CASE I!Probe(r)
  <2>1. PICK A \in SUBSET old.list : I!Goto(r, "probe", [old EXCEPT !.at = "select", !.up = A])
    BY <1>3 DEF I!Probe
  <2> DEFINE new == [old EXCEPT !.at = "select", !.up = A]
  <2>2. new \in RefreshRecords /\ new.up = A /\ new.list = old.list /\ new.at = "select" /\ new.alone = old.alone
    BY <1>1 DEF RefreshRecords
  <2>3. refresh' = [refresh EXCEPT ![r] = new] /\ old.at = "probe"
    BY <2>1 DEF I!Goto
  <2> HIDE DEF old, new
  <2> QED BY <1>1, <2>2, <2>3 DEF I!Commit, I!Goto, old
<1>4. CASE I!Select(r)
  <2> DEFINE new == [old EXCEPT !.at = "flush", !.loaded = rows]
  <2>1. /\ new \in RefreshRecords /\ new.up = old.up /\ new.list = old.list /\ new.at = "flush"
        /\ new.alone = old.alone /\ new.loaded = rows
    BY <1>1 DEF RefreshRecords, ImportTypes, RowTypes
  <2>2. refresh' = [refresh EXCEPT ![r] = new] /\ old.at = "select"
    BY <1>4 DEF I!Select, I!Goto
  <2> HIDE DEF old, new
  <2> QED BY <1>1, <2>1, <2>2 DEF I!Commit, I!Goto, old
<1>5. CASE I!Flush(r)
  <2> DEFINE new == [old EXCEPT !.at = "flushed"]
  <2>1. /\ new \in RefreshRecords /\ new.up = old.up /\ new.list = old.list /\ new.at = "flushed"
        /\ new.alone = old.alone /\ new.loaded = old.loaded
    BY <1>1 DEF RefreshRecords
  <2>2. refresh' = [refresh EXCEPT ![r] = new] /\ old.at = "flush" /\ exists
    BY <1>5 DEF I!Flush, I!Goto, I!Collides
  <2> HIDE DEF old, new
  <2> QED BY <1>1, <2>1, <2>2 DEF I!Commit, I!Goto, old
<1>6. CASE I!FetchFails(r) \/ I!Fail(r) \/ I!Commit(r)
  <2>1. refresh' = [refresh EXCEPT ![r] = I!Idle] /\ refresh[r].at # "idle"
    BY <1>6 DEF I!FetchFails, I!Fail, I!Commit, I!Goto, I!Running
  <2>2. I!Idle.up \subseteq I!Idle.list /\ I!Idle.at = "idle"
    BY DEF I!Idle
  <2> QED BY <2>1, <2>2, ImportsIdle
<1> QED BY <1>2, <1>3, <1>4, <1>5, <1>6

LEMMA RefreshBegins ==
  ASSUME RefreshTypes, NEW r \in Refreshes, I!Begin(r)
  PROVE  /\ RefreshTypes'
         /\ \A q \in Refreshes \ {r} :
              /\ refresh'[q].at = refresh[q].at /\ refresh'[q].loaded = refresh[q].loaded
              /\ refresh'[q].alone <=> refresh[q].alone /\ ~ I!Running(q)
         /\ refresh'[r].at = "fetch"
         /\ refresh'[r].alone <=> \A q \in Refreshes \ {r} : ~ I!Running(q)
<1> DEFINE b == \A q \in Refreshes \ {r} : ~ I!Running(q)
<1> DEFINE new == [I!Idle EXCEPT !.at = "fetch", !.alone = b]
<1>1. refresh' = [q \in Refreshes |-> IF q = r THEN new
                    ELSE [refresh[q] EXCEPT !.alone = refresh[q].alone /\ ~ I!Running(q)]]
  BY DEF I!Begin
<1>2. new \in RefreshRecords /\ new.at = "fetch" /\ new.up = {} /\ new.alone = b
  BY ImportsIdle DEF RefreshRecords, I!Idle
<1>3. ASSUME NEW q \in Refreshes \ {r}, NEW a \in BOOLEAN
      PROVE  /\ [refresh[q] EXCEPT !.alone = a] \in RefreshRecords
             /\ [refresh[q] EXCEPT !.alone = a].up = refresh[q].up
             /\ [refresh[q] EXCEPT !.alone = a].list = refresh[q].list
             /\ [refresh[q] EXCEPT !.alone = a].at = refresh[q].at
             /\ [refresh[q] EXCEPT !.alone = a].loaded = refresh[q].loaded
             /\ [refresh[q] EXCEPT !.alone = a].alone = a
  BY DEF RefreshTypes, RefreshRecords
<1>4. \A q \in Refreshes : (refresh[q].alone /\ ~ I!Running(q)) \in BOOLEAN
  OBVIOUS
<1>5. ASSUME NEW q \in Refreshes \ {r}, refresh[q].at = "idle"
      PROVE  [refresh[q] EXCEPT !.alone = refresh[q].alone /\ ~ I!Running(q)] = I!Idle
  <2>1. refresh[q] = I!Idle /\ (refresh[q].alone /\ ~ I!Running(q)) = TRUE
    BY <1>5 DEF RefreshTypes, I!Idle, I!Running
  <2>2. \A x \in RefreshRecords : x.alone = TRUE => [x EXCEPT !.alone = TRUE] = x
    BY DEF RefreshRecords
  <2>3. I!Idle.alone = TRUE
    BY DEF I!Idle
  <2> QED BY <2>1, <2>2, <2>3, ImportsIdle
<1> HIDE DEF new, b
<1>6. \A q \in Refreshes \ {r} :
        refresh'[q] = [refresh[q] EXCEPT !.alone = refresh[q].alone /\ ~ I!Running(q)]
  BY <1>1
<1>7. refresh'[r] = new
  BY <1>1
<1>8. refresh' = [q \in Refreshes |-> refresh'[q]]
  BY <1>1
<1>9. ASSUME NEW q \in Refreshes \ {r}
      PROVE  /\ refresh'[q] \in RefreshRecords /\ refresh'[q].at = refresh[q].at
             /\ refresh'[q].up = refresh[q].up /\ refresh'[q].list = refresh[q].list
             /\ refresh'[q].loaded = refresh[q].loaded
             /\ refresh'[q].alone = (refresh[q].alone /\ ~ I!Running(q))
             /\ refresh[q].at = "idle" => refresh'[q] = I!Idle
  <2> DEFINE a == refresh[q].alone /\ ~ I!Running(q)
  <2>1. a \in BOOLEAN /\ refresh'[q] = [refresh[q] EXCEPT !.alone = a]
    BY <1>4, <1>6
  <2>2. refresh[q].at = "idle" => refresh'[q] = I!Idle
    BY <1>5, <2>1
  <2> HIDE DEF a
  <2>3. /\ refresh'[q] \in RefreshRecords /\ refresh'[q].at = refresh[q].at
        /\ refresh'[q].up = refresh[q].up /\ refresh'[q].list = refresh[q].list
        /\ refresh'[q].loaded = refresh[q].loaded /\ refresh'[q].alone = a
    BY <1>3, <2>1
  <2> QED BY <2>2, <2>3 DEF a
<1>10. RefreshTypes'
  <2>1. refresh' \in [Refreshes -> RefreshRecords]
    BY <1>2, <1>7, <1>8, <1>9
  <2>2. ASSUME NEW q \in Refreshes
        PROVE  /\ refresh'[q].up \subseteq refresh'[q].list
               /\ refresh'[q].at = "fetch" => refresh'[q].up = {}
               /\ refresh'[q].at = "idle" => refresh'[q] = I!Idle
    <3>1. CASE q = r
      BY <1>2, <1>7, <3>1
    <3>2. CASE q # r
      BY <1>9, <3>2 DEF RefreshTypes
    <3> QED BY <3>1, <3>2
  <2> QED BY <2>1, <2>2 DEF RefreshTypes
<1> QED BY <1>2, <1>7, <1>9, <1>10 DEF b

LEMMA RefreshType == ASSUME ImportTypes, [I!Next]_(I!vars) PROVE ImportTypes'
<1>1. RowTypes'
  <2>1. ASSUME NEW r \in Refreshes, I!Commit(r) PROVE RowTypes'
    BY <2>1 DEF ImportTypes, RowTypes, RefreshTypes, RefreshRecords, I!Commit, I!Goto, I!Checked, NodeStates
  <2>2. CASE UNCHANGED I!vars
    BY <2>2 DEF ImportTypes, RowTypes, I!vars
  <2>3. CASE I!Toggle \/ I!Delete
    BY <2>3 DEF ImportTypes, RowTypes, I!Toggle, I!Delete, I!NoRows, NodeStates
  <2>4. CASE UNCHANGED <<rows, active, exists, answered, undisturbed>>
    BY <2>4 DEF ImportTypes, RowTypes
  <2> QED BY <2>1, <2>2, <2>3, <2>4 DEF I!Next, I!Begin, I!Fetch, I!FetchFails, I!Probe, I!Select, I!Flush, I!Fail
<1>2. RefreshTypes'
  <2>1. CASE UNCHANGED I!vars \/ I!Toggle \/ I!Delete
    BY <2>1 DEF ImportTypes, RefreshTypes, I!vars, I!Toggle, I!Delete
  <2>2. ASSUME NEW r \in Refreshes, I!Begin(r) PROVE RefreshTypes'
    BY <2>2, RefreshBegins DEF ImportTypes
  <2>3. ASSUME NEW r \in Refreshes,
               \/ I!Fetch(r) \/ I!FetchFails(r) \/ I!Probe(r) \/ I!Select(r) \/ I!Flush(r) \/ I!Fail(r) \/ I!Commit(r)
        PROVE  RefreshTypes'
    BY <2>3, OwnStep DEF ImportTypes, RefreshTypes
  <2> QED BY <2>1, <2>2, <2>3 DEF I!Next
<1> QED BY <1>1, <1>2, ZenonT(40) DEF ImportTypes

LEMMA StepOnlyOne == ASSUME ImportTypes, OnlyOne, [I!Next]_(I!vars) PROVE OnlyOne'
<1>0. CASE UNCHANGED I!vars \/ I!Toggle \/ I!Delete
  BY <1>0 DEF OnlyOne, I!Running, I!vars, I!Toggle, I!Delete
<1>1. ASSUME NEW r \in Refreshes, I!Begin(r) PROVE OnlyOne'
  <2> SUFFICES ASSUME NEW p \in Refreshes, NEW q \in Refreshes, p # q,
                      refresh'[p].at # "idle", refresh'[q].at # "idle"
               PROVE  ~ refresh'[p].alone
    BY DEF OnlyOne, I!Running
  <2>1. CASE p = r
    BY <1>1, <2>1, RefreshBegins DEF ImportTypes, I!Running
  <2>2. CASE p # r
    BY <1>1, <2>2, RefreshBegins DEF ImportTypes, I!Running
  <2> QED BY <2>1, <2>2
<1>2. ASSUME NEW r \in Refreshes,
             \/ I!Fetch(r) \/ I!FetchFails(r) \/ I!Probe(r) \/ I!Select(r) \/ I!Flush(r) \/ I!Fail(r) \/ I!Commit(r)
      PROVE  OnlyOne'
  BY <1>2, OwnStep DEF OnlyOne, I!Running, ImportTypes, RefreshTypes
<1> QED BY <1>0, <1>1, <1>2 DEF I!Next

LEMMA StepCurrent == ASSUME ImportTypes, OnlyOne, Current, [I!Next]_(I!vars) PROVE Current'
<1>0. CASE UNCHANGED I!vars \/ I!Toggle \/ I!Delete
  BY <1>0 DEF Current, I!vars, I!Toggle, I!Delete
<1>1. ASSUME NEW r \in Refreshes, I!Begin(r) PROVE Current'
  BY <1>1, RefreshBegins, ZenonT(40) DEF ImportTypes, Current, I!Running, I!Begin
<1>2. ASSUME NEW r \in Refreshes,
             \/ I!Fetch(r) \/ I!FetchFails(r) \/ I!Probe(r) \/ I!Select(r) \/ I!Flush(r) \/ I!Fail(r)
      PROVE  Current'
  <2>1. UNCHANGED <<rows, exists>>
    BY <1>2 DEF I!Fetch, I!FetchFails, I!Probe, I!Select, I!Flush, I!Fail
  <2> QED BY <1>2, <2>1, OwnStep DEF Current, ImportTypes, RefreshTypes
<1>3. ASSUME NEW r \in Refreshes, I!Commit(r) PROVE Current'
  <2>1. /\ refresh' = [refresh EXCEPT ![r] = I!Idle] /\ refresh[r].at = "flushed"
        /\ UNCHANGED exists /\ I!Idle.at = "idle"
    BY <1>3 DEF I!Commit, I!Goto, I!Idle
  <2>2. \A q \in Refreshes \ {r} : I!Running(q) => ~ refresh[q].alone
    BY <2>1 DEF OnlyOne, I!Running
  <2> QED BY <2>1, <2>2 DEF Current, ImportTypes, RefreshTypes, I!Running
<1> QED BY <1>0, <1>1, <1>2, <1>3 DEF I!Next

LEMMA StepAnswering == ASSUME ImportTypes, Current, Answering, [I!Next]_(I!vars) PROVE Answering'
<1>1. ASSUME NEW r \in Refreshes, I!Commit(r) PROVE Answering'
  <2> DEFINE s == refresh[r]
  <2>1. s.at = "flushed" /\ answered' = s.up /\ undisturbed' = s.alone
    BY <1>1 DEF I!Commit, I!Goto
  <2> SUFFICES ASSUME s.alone, NEW n \in Nodes PROVE rows'[n] = "alive" <=> n \in s.up
    BY <2>1 DEF Answering, ImportTypes, RowTypes, RefreshTypes, RefreshRecords
  <2>2. s.loaded = rows
    BY <2>1 DEF Current
  <2>3. s.up \subseteq s.list /\ s.loaded[n] \in NodeStates
    BY DEF ImportTypes, RefreshTypes, RefreshRecords
  <2> DEFINE v == I!Checked(s, n, s.loaded[n])
  <2>4. rows'[n] = IF (I!Touches(s, n) \/ I!Inserts(s, n)) /\ v # s.loaded[n] THEN v ELSE rows[n]
    BY <1>1 DEF I!Commit
  <2>5. v = "alive" <=> n \in s.up
    BY <2>3 DEF I!Checked, NodeStates
  <2> HIDE DEF s, v
  <2> QED BY <2>2, <2>3, <2>4, <2>5 DEF I!Touches, I!Inserts, NodeStates
<1>2. CASE UNCHANGED <<rows, answered, undisturbed>> \/ I!Delete
  BY <1>2 DEF Answering, I!Delete, I!NoRows
<1> QED BY <1>1, <1>2 DEF I!Next, I!vars, I!Begin, I!Fetch, I!FetchFails, I!Probe, I!Select, I!Flush, I!Fail, I!Toggle

LEMMA Shows == I!Spec => []I!ShownAnswered
<1>1. ImportsInv => I!ShownAnswered
  BY DEF ImportsInv, Answering, I!ShownAnswered, I!Shown
<1>2. ImportsInv /\ [I!Next]_(I!vars) => ImportsInv'
  BY RefreshType, StepOnlyOne, StepCurrent, StepAnswering DEF ImportsInv
<1> QED BY <1>1, <1>2, ImportsInit, PTL DEF I!Spec

LEMMA ImportTypesHold == I!Spec => []I!TypeOK
<1>1. ImportsInv => I!TypeOK
  BY DEF ImportsInv, ImportTypes, RowTypes, RefreshTypes, I!TypeOK, NodeStates
<1>2. ImportsInv /\ [I!Next]_(I!vars) => ImportsInv'
  BY RefreshType, StepOnlyOne, StepCurrent, StepAnswering DEF ImportsInv
<1> QED BY <1>1, <1>2, ImportsInit, PTL DEF I!Spec

-----------------------------------------------------------------------------
(* Rollouts                                                                *)

(* What is left of a script.  The steps of a script are a sequence p.      *)

Steps ==
  [do : {"put"}, file : R!Files] \cup [do : {"putall", "migrate", "migrate or go on"}]
    \cup [do : {"put version"}, number : 1 .. R!Latest]
    \cup [do : {"check"}, files : SUBSET R!Files]
    \cup [do : {"restart"}, services : SUBSET R!Services]

Brings(step) == step.do = "putall" \/ (step.do = "put" /\ step.file = "models")
BringsAlone(step) == step.do = "put" /\ step.file = "models"
Supplies(step) == step.do = "put version" /\ step.number = R!Latest
Migrates(step) == step.do \in {"migrate", "migrate or go on"}
Copies(step) == step.do \in {"put", "putall"}
Reads(s, step) ==
  step.do = "putall" \/ (step.do = "put" /\ step.file \in R!Loaded[s] \cup R!LoadedLate[s])
Restores(s, step) == step.do = "restart" /\ s \in step.services
Imports(s, step) == step.do = "check" /\ R!Loaded[s] \subseteq step.files

\* A migration comes, and no service restarts before it.
WillMigrate(p) ==
  \E j \in 1 .. Len(p) : Migrates(p[j]) /\ \A k \in 1 .. j - 1 : p[k].do # "restart"

\* It comes after every copy of the models.
MigratesFirst(p) ==
  \A i \in 1 .. Len(p) :
    Brings(p[i]) => \E j \in i + 1 .. Len(p) :
                      Migrates(p[j]) /\ \A k \in i + 1 .. j - 1 : p[k].do # "restart"

\* Before a copy of the models alone, their migration is on the disk or comes there.
SuppliesFirst(p, on) ==
  \A i \in 1 .. Len(p) :
    BringsAlone(p[i]) => R!Latest \in on \/ \E j \in 1 .. i - 1 : Supplies(p[j])

\* The service s is restarted.
WillRestore(s, p) == \E j \in 1 .. Len(p) : Restores(s, p[j])

\* Every reader of a file is restarted after its copy.
Covers(p) ==
  \A i \in 1 .. Len(p), s \in R!Services :
    Reads(s, p[i]) => \E j \in i + 1 .. Len(p) : Restores(s, p[j])

\* Before a restart, and with no copy in between, everything that the service
\* imports is checked, or is sound now (does not meet the files that are broken).
ChecksFirst(p, b) ==
  \A i \in 1 .. Len(p), s \in R!Services :
    Restores(s, p[i]) =>
      \/ \E j \in 1 .. i - 1 : Imports(s, p[j]) /\ \A k \in j .. i - 1 : ~ Copies(p[k])
      \/ b \cap R!Loaded[s] = {} /\ \A k \in 1 .. i - 1 : ~ Copies(p[k])

LEMMA TailSteps ==
  ASSUME NEW p \in Seq(Steps), p # <<>>
  PROVE  /\ Tail(p) \in Seq(Steps) /\ Len(Tail(p)) = Len(p) - 1 /\ Len(p) \in Nat \ {0}
         /\ Head(p) = p[1] /\ Head(p) \in Steps
         /\ \A i \in 1 .. Len(p) - 1 : Tail(p)[i] = p[i + 1]
  OBVIOUS

\* One step on, the migration is still to come.
LEMMA TailMigrates ==
  ASSUME NEW p \in Seq(Steps), p # <<>>
  PROVE  /\ WillMigrate(p) /\ ~ Migrates(Head(p)) => WillMigrate(Tail(p)) /\ Head(p).do # "restart"
         /\ MigratesFirst(p) => MigratesFirst(Tail(p))
         /\ MigratesFirst(p) /\ Brings(Head(p)) => WillMigrate(Tail(p))
<1>0. /\ Len(Tail(p)) = Len(p) - 1 /\ Len(p) \in Nat \ {0} /\ Head(p) = p[1]
      /\ \A i \in 1 .. Len(p) - 1 : Tail(p)[i] = p[i + 1]
  BY TailSteps
<1>1. ASSUME WillMigrate(p), ~ Migrates(Head(p))
      PROVE  WillMigrate(Tail(p)) /\ Head(p).do # "restart"
  <2>1. PICK j \in 1 .. Len(p) : Migrates(p[j]) /\ \A k \in 1 .. j - 1 : p[k].do # "restart"
    BY <1>1 DEF WillMigrate
  <2>2. j - 1 \in 1 .. Len(p) - 1
    BY <1>0, <1>1, <2>1
  <2>3. Migrates(Tail(p)[j - 1])
    BY <1>0, <2>1, <2>2
  <2>4. \A k \in 1 .. j - 1 - 1 : Tail(p)[k].do # "restart"
    BY <1>0, <2>1, <2>2
  <2>5. p[1].do # "restart"
    BY <1>0, <2>1, <2>2
  <2> QED BY <1>0, <2>2, <2>3, <2>4, <2>5 DEF WillMigrate
<1>2. ASSUME MigratesFirst(p) PROVE MigratesFirst(Tail(p))
  <2> SUFFICES ASSUME NEW i \in 1 .. Len(Tail(p)), Brings(Tail(p)[i])
               PROVE  \E j \in i + 1 .. Len(Tail(p)) :
                        Migrates(Tail(p)[j]) /\ \A k \in i + 1 .. j - 1 : Tail(p)[k].do # "restart"
    BY DEF MigratesFirst
  <2>1. i + 1 \in 1 .. Len(p) /\ Brings(p[i + 1])
    BY <1>0
  <2>2. PICK j \in i + 1 + 1 .. Len(p) :
          Migrates(p[j]) /\ \A k \in i + 1 + 1 .. j - 1 : p[k].do # "restart"
    BY <1>2, <2>1 DEF MigratesFirst
  <2>3. j - 1 \in i + 1 .. Len(Tail(p)) /\ Migrates(Tail(p)[j - 1])
    BY <1>0, <2>2
  <2>4. \A k \in i + 1 .. j - 1 - 1 : Tail(p)[k].do # "restart"
    BY <1>0, <2>2
  <2> QED BY <2>3, <2>4
<1>3. ASSUME MigratesFirst(p), Brings(Head(p)) PROVE WillMigrate(Tail(p))
  <2>1. PICK j \in 2 .. Len(p) : Migrates(p[j]) /\ \A k \in 2 .. j - 1 : p[k].do # "restart"
    BY <1>0, <1>3 DEF MigratesFirst
  <2>2. j - 1 \in 1 .. Len(Tail(p)) /\ Migrates(Tail(p)[j - 1])
    BY <1>0, <2>1
  <2>3. \A k \in 1 .. j - 1 - 1 : Tail(p)[k].do # "restart"
    BY <1>0, <2>1
  <2> QED BY <2>2, <2>3 DEF WillMigrate
<1> QED BY <1>1, <1>2, <1>3

\* The migration that the models need has come, or is still to come before them.
LEMMA TailSupplies ==
  ASSUME NEW p \in Seq(Steps), p # <<>>, NEW v, SuppliesFirst(p, v), NEW w, v \subseteq w,
         Supplies(Head(p)) => R!Latest \in w
  PROVE  /\ SuppliesFirst(Tail(p), w)
         /\ BringsAlone(Head(p)) => R!Latest \in v
<1>0. /\ Len(Tail(p)) = Len(p) - 1 /\ Len(p) \in Nat \ {0} /\ Head(p) = p[1]
      /\ \A i \in 1 .. Len(p) - 1 : Tail(p)[i] = p[i + 1]
  BY TailSteps
<1>1. ASSUME NEW i \in 1 .. Len(Tail(p)), BringsAlone(Tail(p)[i]), R!Latest \notin w
      PROVE  \E j \in 1 .. i - 1 : Supplies(Tail(p)[j])
  <2>1. i + 1 \in 1 .. Len(p) /\ BringsAlone(p[i + 1]) /\ R!Latest \notin v
    BY <1>0, <1>1
  <2>2. PICK j \in 1 .. i : Supplies(p[j])
    BY <2>1 DEF SuppliesFirst
  <2>3. j # 1
    BY <1>0, <1>1, <2>2
  <2>4. j - 1 \in 1 .. i - 1 /\ Tail(p)[j - 1] = p[j]
    BY <1>0, <2>2, <2>3
  <2> QED BY <2>2, <2>4
<1>2. SuppliesFirst(Tail(p), w)
  BY <1>1 DEF SuppliesFirst
<1>3. ASSUME BringsAlone(Head(p)) PROVE R!Latest \in v
  <2>1. 1 \in 1 .. Len(p) /\ 1 .. 1 - 1 = {} /\ BringsAlone(p[1])
    BY <1>0, <1>3
  <2> QED BY <2>1 DEF SuppliesFirst
<1> QED BY <1>2, <1>3

\* So are the restarts.
LEMMA TailRestores ==
  ASSUME NEW p \in Seq(Steps), p # <<>>, NEW s \in R!Services
  PROVE  /\ WillRestore(s, p) /\ ~ Restores(s, Head(p)) => WillRestore(s, Tail(p))
         /\ Covers(p) /\ Reads(s, Head(p)) => WillRestore(s, Tail(p))
<1>0. /\ Len(Tail(p)) = Len(p) - 1 /\ Len(p) \in Nat \ {0} /\ Head(p) = p[1]
      /\ \A i \in 1 .. Len(p) - 1 : Tail(p)[i] = p[i + 1]
  BY TailSteps
<1>1. ASSUME NEW j \in 2 .. Len(p), Restores(s, p[j]) PROVE WillRestore(s, Tail(p))
  <2>1. j - 1 \in 1 .. Len(Tail(p)) /\ Tail(p)[j - 1] = p[j]
    BY <1>0
  <2> QED BY <1>1, <2>1 DEF WillRestore
<1>2. ASSUME WillRestore(s, p), ~ Restores(s, Head(p)) PROVE \E j \in 2 .. Len(p) : Restores(s, p[j])
  BY <1>0, <1>2 DEF WillRestore
<1>3. ASSUME Covers(p), Reads(s, Head(p)) PROVE \E j \in 2 .. Len(p) : Restores(s, p[j])
  <2>1. 1 \in 1 .. Len(p) /\ Reads(s, p[1])
    BY <1>0, <1>3
  <2> QED BY <1>3, <2>1 DEF Covers
<1> QED BY <1>1, <1>2, <1>3

LEMMA TailCovers ==
  ASSUME NEW p \in Seq(Steps), p # <<>>, Covers(p)
  PROVE  Covers(Tail(p))
<1>0. /\ Len(Tail(p)) = Len(p) - 1 /\ Len(p) \in Nat \ {0}
      /\ \A i \in 1 .. Len(p) - 1 : Tail(p)[i] = p[i + 1]
  BY TailSteps
<1> SUFFICES ASSUME NEW i \in 1 .. Len(Tail(p)), NEW s \in R!Services, Reads(s, Tail(p)[i])
             PROVE  \E j \in i + 1 .. Len(Tail(p)) : Restores(s, Tail(p)[j])
  BY DEF Covers
<1>1. i + 1 \in 1 .. Len(p) /\ Reads(s, p[i + 1])
  BY <1>0
<1>2. PICK j \in i + 1 + 1 .. Len(p) : Restores(s, p[j])
  BY <1>1 DEF Covers
<1>3. j - 1 \in i + 1 .. Len(Tail(p)) /\ Restores(s, Tail(p)[j - 1])
  BY <1>0, <1>2
<1> QED BY <1>3

\* A copy may break files, since a check comes after it; a check leaves b sound.
LEMMA TailChecks ==
  ASSUME NEW p \in Seq(Steps), p # <<>>, NEW b, ChecksFirst(p, b), NEW c,
         \A s \in R!Services : \/ Copies(Head(p))
                               \/ b \cap R!Loaded[s] = {} => c \cap R!Loaded[s] = {},
         \A s \in R!Services : Imports(s, Head(p)) => c \cap R!Loaded[s] = {}
  PROVE  ChecksFirst(Tail(p), c)
<1>0. /\ Len(Tail(p)) = Len(p) - 1 /\ Len(p) \in Nat \ {0} /\ Head(p) = p[1]
      /\ \A i \in 1 .. Len(p) - 1 : Tail(p)[i] = p[i + 1]
  BY TailSteps
<1> SUFFICES ASSUME NEW i \in 1 .. Len(Tail(p)), NEW s \in R!Services, Restores(s, Tail(p)[i])
             PROVE  \/ \E j \in 1 .. i - 1 :
                         Imports(s, Tail(p)[j]) /\ \A k \in j .. i - 1 : ~ Copies(Tail(p)[k])
                    \/ c \cap R!Loaded[s] = {} /\ \A k \in 1 .. i - 1 : ~ Copies(Tail(p)[k])
  BY DEF ChecksFirst
<1>1. i + 1 \in 1 .. Len(p) /\ Restores(s, p[i + 1])
  BY <1>0
<1>2. \/ \E j \in 1 .. i : Imports(s, p[j]) /\ \A k \in j .. i : ~ Copies(p[k])
      \/ b \cap R!Loaded[s] = {} /\ \A k \in 1 .. i : ~ Copies(p[k])
  BY <1>1 DEF ChecksFirst
<1>3. CASE b \cap R!Loaded[s] = {} /\ \A k \in 1 .. i : ~ Copies(p[k])
  <2>1. ~ Copies(p[1]) /\ \A k \in 1 .. i - 1 : ~ Copies(Tail(p)[k])
    BY <1>0, <1>3
  <2> QED BY <1>0, <1>3, <2>1
<1>4. ASSUME NEW j \in 1 .. i, Imports(s, p[j]), \A k \in j .. i : ~ Copies(p[k])
      PROVE  \/ \E q \in 1 .. i - 1 :
                  Imports(s, Tail(p)[q]) /\ \A k \in q .. i - 1 : ~ Copies(Tail(p)[k])
             \/ c \cap R!Loaded[s] = {} /\ \A k \in 1 .. i - 1 : ~ Copies(Tail(p)[k])
  <2>0. \A k \in j .. i - 1 : ~ Copies(Tail(p)[k])
    BY <1>0, <1>4
  <2>1. CASE j = 1
    BY <1>0, <1>4, <2>0, <2>1
  <2>2. CASE j # 1
    <3>1. j - 1 \in 1 .. i - 1 /\ Tail(p)[j - 1] = p[j]
      BY <1>0, <2>2
    <3>2. \A k \in j - 1 .. i - 1 : ~ Copies(Tail(p)[k])
      BY <1>0, <1>4, <2>2
    <3> QED BY <1>4, <3>1, <3>2
  <2> QED BY <2>1, <2>2
<1> QED BY <1>2, <1>3, <1>4

-----------------------------------------------------------------------------
(* The scripts.  Their plans are put together from short sequences.        *)

\* Two parts of a script, one after the other.
LEMMA Joined ==
  ASSUME NEW p \in Seq(Steps), NEW q \in Seq(Steps)
  PROVE  /\ p \o q \in Seq(Steps) /\ Len(p) \in Nat /\ Len(q) \in Nat
         /\ Len(p \o q) = Len(p) + Len(q)
         /\ \A i \in 1 .. Len(p) : (p \o q)[i] = p[i]
         /\ \A i \in Len(p) + 1 .. Len(p) + Len(q) : (p \o q)[i] = q[i - Len(p)]
         /\ \A i \in 1 .. Len(q) : (p \o q)[i + Len(p)] = q[i]
  OBVIOUS

Restartless(p) == \A i \in 1 .. Len(p) : p[i].do # "restart"
Copyless(p) == \A i \in 1 .. Len(p) : ~ Copies(p[i])
ReadBy(services, p) ==
  \A i \in 1 .. Len(p), s \in R!Services : Reads(s, p[i]) => s \in services

LEMMA JoinedPlain ==
  ASSUME NEW p \in Seq(Steps), NEW q \in Seq(Steps), NEW services
  PROVE  /\ Restartless(p) /\ Restartless(q) => Restartless(p \o q)
         /\ ReadBy(services, p) /\ ReadBy(services, q) => ReadBy(services, p \o q)
<1>0. /\ Len(p \o q) = Len(p) + Len(q) /\ Len(p) \in Nat /\ Len(q) \in Nat
      /\ \A i \in 1 .. Len(p) : (p \o q)[i] = p[i]
      /\ \A i \in Len(p) + 1 .. Len(p) + Len(q) : (p \o q)[i] = q[i - Len(p)]
  BY Joined
<1>1. ASSUME NEW i \in 1 .. Len(p \o q)
      PROVE  \/ i \in 1 .. Len(p) /\ (p \o q)[i] = p[i]
             \/ i - Len(p) \in 1 .. Len(q) /\ (p \o q)[i] = q[i - Len(p)]
  BY <1>0
<1>2. ASSUME Restartless(p), Restartless(q) PROVE Restartless(p \o q)
  BY <1>1, <1>2 DEF Restartless
<1>3. ASSUME ReadBy(services, p), ReadBy(services, q) PROVE ReadBy(services, p \o q)
  BY <1>1, <1>3 DEF ReadBy
<1> QED BY <1>2, <1>3

LEMMA JoinedMigrates ==
  ASSUME NEW p \in Seq(Steps), NEW q \in Seq(Steps), MigratesFirst(q),
         MigratesFirst(p) \/ (Restartless(p) /\ WillMigrate(q))
  PROVE  MigratesFirst(p \o q)
<1>0. /\ Len(p \o q) = Len(p) + Len(q) /\ Len(p) \in Nat /\ Len(q) \in Nat
      /\ \A i \in 1 .. Len(p) : (p \o q)[i] = p[i]
      /\ \A i \in Len(p) + 1 .. Len(p) + Len(q) : (p \o q)[i] = q[i - Len(p)]
      /\ \A i \in 1 .. Len(q) : (p \o q)[i + Len(p)] = q[i]
  BY Joined
<1> SUFFICES ASSUME NEW i \in 1 .. Len(p \o q), Brings((p \o q)[i])
             PROVE  \E j \in i + 1 .. Len(p \o q) :
                      /\ Migrates((p \o q)[j])
                      /\ \A k \in i + 1 .. j - 1 : (p \o q)[k].do # "restart"
  BY DEF MigratesFirst
<1>1. CASE i > Len(p)
  <2>1. i - Len(p) \in 1 .. Len(q) /\ Brings(q[i - Len(p)])
    BY <1>0, <1>1
  <2>2. PICK j \in i - Len(p) + 1 .. Len(q) :
          Migrates(q[j]) /\ \A k \in i - Len(p) + 1 .. j - 1 : q[k].do # "restart"
    BY <2>1 DEF MigratesFirst
  <2>0. PICK n : n = j + Len(p)
    OBVIOUS
  <2>3. n \in i + 1 .. Len(p \o q) /\ Migrates((p \o q)[n])
    BY <1>0, <1>1, <2>0, <2>2
  <2>4. \A k \in i + 1 .. n - 1 : (p \o q)[k].do # "restart"
    <3> TAKE k \in i + 1 .. n - 1
    <3>1. k - Len(p) \in i - Len(p) + 1 .. j - 1 /\ (p \o q)[k] = q[k - Len(p)]
      BY <1>0, <1>1, <2>0, <2>2, SMTT(20)
    <3> QED BY <2>2, <3>1
  <2> QED BY <2>3, <2>4
<1>2. CASE i <= Len(p) /\ MigratesFirst(p)
  <2>1. i \in 1 .. Len(p) /\ Brings(p[i])
    BY <1>0, <1>2
  <2>2. PICK j \in i + 1 .. Len(p) :
          Migrates(p[j]) /\ \A k \in i + 1 .. j - 1 : p[k].do # "restart"
    BY <1>2, <2>1 DEF MigratesFirst
  <2>3. j \in i + 1 .. Len(p \o q) /\ Migrates((p \o q)[j])
    BY <1>0, <2>2
  <2>4. \A k \in i + 1 .. j - 1 : (p \o q)[k] = p[k]
    BY <1>0, <2>2
  <2> QED BY <2>2, <2>3, <2>4
<1>3. CASE i <= Len(p) /\ Restartless(p) /\ WillMigrate(q)
  <2>1. PICK j \in 1 .. Len(q) : Migrates(q[j]) /\ \A k \in 1 .. j - 1 : q[k].do # "restart"
    BY <1>3 DEF WillMigrate
  <2>0. PICK n : n = j + Len(p)
    OBVIOUS
  <2>2. n \in i + 1 .. Len(p \o q) /\ Migrates((p \o q)[n])
    BY <1>0, <1>3, <2>0, <2>1
  <2>3. \A k \in i + 1 .. n - 1 : (p \o q)[k].do # "restart"
    <3> TAKE k \in i + 1 .. n - 1
    <3>1. CASE k <= Len(p)
      BY <1>0, <1>3, <3>1 DEF Restartless
    <3>2. CASE k > Len(p)
      <4>1. k - Len(p) \in 1 .. j - 1 /\ (p \o q)[k] = q[k - Len(p)]
        BY <1>0, <1>3, <2>0, <2>1, <3>2
      <4> QED BY <2>1, <4>1
    <3> QED BY <1>0, <2>0, <2>2, <3>1, <3>2
  <2> QED BY <2>2, <2>3
<1>4. i > Len(p) \/ i <= Len(p)
  BY <1>0
<1> QED BY <1>1, <1>2, <1>3, <1>4

LEMMA JoinedSupplies ==
  ASSUME NEW p \in Seq(Steps), NEW q \in Seq(Steps), NEW v, SuppliesFirst(p, v),
         SuppliesFirst(q, v) \/ \E j \in 1 .. Len(p) : Supplies(p[j])
  PROVE  SuppliesFirst(p \o q, v)
<1>0. /\ Len(p \o q) = Len(p) + Len(q) /\ Len(p) \in Nat /\ Len(q) \in Nat
      /\ \A i \in 1 .. Len(p) : (p \o q)[i] = p[i]
      /\ \A i \in Len(p) + 1 .. Len(p) + Len(q) : (p \o q)[i] = q[i - Len(p)]
      /\ \A i \in 1 .. Len(q) : (p \o q)[i + Len(p)] = q[i]
  BY Joined
<1> SUFFICES ASSUME NEW i \in 1 .. Len(p \o q), BringsAlone((p \o q)[i]), R!Latest \notin v
             PROVE  \E j \in 1 .. i - 1 : Supplies((p \o q)[j])
  BY DEF SuppliesFirst
<1>1. CASE i <= Len(p)
  <2>1. i \in 1 .. Len(p) /\ BringsAlone(p[i])
    BY <1>0, <1>1
  <2>2. PICK j \in 1 .. i - 1 : Supplies(p[j])
    BY <2>1 DEF SuppliesFirst
  <2>3. (p \o q)[j] = p[j]
    BY <1>0, <2>1, <2>2
  <2> QED BY <2>2, <2>3
<1>2. CASE i > Len(p) /\ \E j \in 1 .. Len(p) : Supplies(p[j])
  <2>1. PICK j \in 1 .. Len(p) : Supplies(p[j])
    BY <1>2
  <2>2. j \in 1 .. i - 1 /\ (p \o q)[j] = p[j]
    BY <1>0, <1>2, <2>1
  <2> QED BY <2>1, <2>2
<1>3. CASE i > Len(p) /\ SuppliesFirst(q, v)
  <2>1. i - Len(p) \in 1 .. Len(q) /\ BringsAlone(q[i - Len(p)])
    BY <1>0, <1>3
  <2>2. PICK j \in 1 .. i - Len(p) - 1 : Supplies(q[j])
    BY <1>3, <2>1 DEF SuppliesFirst
  <2>3. j \in 1 .. Len(q) /\ j + Len(p) \in 1 .. i - 1
    BY <1>0, <2>1, <2>2
  <2>4. Supplies((p \o q)[j + Len(p)])
    BY <1>0, <2>2, <2>3
  <2> QED BY <2>3, <2>4
<1> QED BY <1>0, <1>1, <1>2, <1>3

\* Short sequences.
LEMMA Tuples ==
  ASSUME NEW S, NEW a \in S, NEW b \in S, NEW c \in S, NEW d \in S, NEW e \in S, NEW f \in S
  PROVE  /\ <<a>> \in Seq(S) /\ <<a, b>> \in Seq(S) /\ <<a, b, c>> \in Seq(S)
         /\ <<a, b, c, d>> \in Seq(S) /\ <<a, b, c, d, e>> \in Seq(S)
         /\ <<a, b, c, d, e, f>> \in Seq(S)
<1>1. /\ <<a>> \in [1 .. 1 -> S] /\ <<a, b>> \in [1 .. 2 -> S] /\ <<a, b, c>> \in [1 .. 3 -> S]
      /\ <<a, b, c, d>> \in [1 .. 4 -> S]
  OBVIOUS
<1>2. <<a, b, c, d, e>> \in [1 .. 5 -> S] /\ <<a, b, c, d, e, f>> \in [1 .. 6 -> S]
  OBVIOUS
<1> QED BY <1>1, <1>2, SeqDef

\* The single steps.
LEMMA VersionPlain ==
  ASSUME NEW n \in 1 .. R!Latest
  PROVE  /\ R!PutVersion(n) \in Seq(Steps) /\ Len(R!PutVersion(n)) = 1
         /\ Restartless(R!PutVersion(n)) /\ MigratesFirst(R!PutVersion(n))
         /\ \A services : ReadBy(services, R!PutVersion(n))
         /\ \A v : SuppliesFirst(R!PutVersion(n), v)
         /\ n = R!Latest => Supplies(R!PutVersion(n)[1])
<1>0. PICK step : step = [do |-> "put version", number |-> n]
  OBVIOUS
<1>1. step \in Steps
  BY <1>0 DEF Steps
<1>2. step.do = "put version" /\ step.number = n
  BY <1>0, Zenon
<1>3. ASSUME NEW a \in Steps PROVE <<a>> \in Seq(Steps) /\ Len(<<a>>) = 1 /\ <<a>>[1] = a
  BY Tuples
<1>4. R!PutVersion(n) = <<step>>
  BY <1>0 DEF R!PutVersion
<1>5. /\ R!PutVersion(n) \in Seq(Steps) /\ Len(R!PutVersion(n)) = 1
      /\ R!PutVersion(n)[1] = step
  BY <1>1, <1>3, <1>4
<1>6. \A i \in 1 .. 1 : i = 1
  OBVIOUS
<1>7. Restartless(R!PutVersion(n)) /\ MigratesFirst(R!PutVersion(n))
  <2>1. /\ step.do # "restart" /\ ~ Brings(step)
        /\ \A i \in 1 .. Len(R!PutVersion(n)) : R!PutVersion(n)[i] = step
    BY <1>2, <1>5, <1>6 DEF Brings
  <2> QED BY <2>1 DEF Restartless, MigratesFirst
<1>8. /\ \A services : ReadBy(services, R!PutVersion(n))
      /\ \A v : SuppliesFirst(R!PutVersion(n), v)
  BY <1>2, <1>5, <1>6 DEF BringsAlone, SuppliesFirst, ReadBy, Reads
<1>9. n = R!Latest => Supplies(R!PutVersion(n)[1])
  BY <1>2, <1>5 DEF Supplies
<1> QED BY <1>5, <1>7, <1>8, <1>9

LEMMA SinglesPlain ==
  /\ R!Migrate \in Seq(Steps) /\ R!MigrateOrGoOn \in Seq(Steps) /\ R!PutAll \in Seq(Steps)
  /\ Restartless(R!Migrate) /\ Restartless(R!MigrateOrGoOn) /\ Restartless(R!PutAll)
  /\ Copyless(R!Migrate) /\ Copyless(R!MigrateOrGoOn)
  /\ WillMigrate(R!Migrate) /\ WillMigrate(R!MigrateOrGoOn)
  /\ MigratesFirst(R!Migrate) /\ MigratesFirst(R!MigrateOrGoOn)
  /\ \A services : ReadBy(services, R!Migrate) /\ ReadBy(services, R!MigrateOrGoOn)
  /\ \A v : SuppliesFirst(R!Migrate, v) /\ SuppliesFirst(R!PutAll, v)
<1>1. /\ [do |-> "migrate"] \in Steps /\ [do |-> "migrate or go on"] \in Steps
      /\ [do |-> "putall"] \in Steps
  BY DEF Steps
<1>2. ASSUME NEW step \in Steps PROVE <<step>> \in Seq(Steps)
  <2>1. <<step>> \in [1 .. 1 -> Steps]
    OBVIOUS
  <2> QED BY <2>1, SeqDef
<1>3. R!Migrate \in Seq(Steps) /\ Len(R!Migrate) = 1 /\ R!Migrate[1].do = "migrate"
  BY <1>2, <1>1 DEF R!Migrate
<1>4. /\ R!MigrateOrGoOn \in Seq(Steps) /\ Len(R!MigrateOrGoOn) = 1
      /\ R!MigrateOrGoOn[1].do = "migrate or go on"
  BY <1>2, <1>1 DEF R!MigrateOrGoOn
<1>5. R!PutAll \in Seq(Steps) /\ Len(R!PutAll) = 1 /\ R!PutAll[1].do = "putall"
  BY <1>2, <1>1 DEF R!PutAll
<1>6. \A i \in 1 .. 1 : i = 1
  OBVIOUS
<1>7. /\ Restartless(R!Migrate) /\ Restartless(R!MigrateOrGoOn) /\ Restartless(R!PutAll)
      /\ Copyless(R!Migrate) /\ Copyless(R!MigrateOrGoOn)
  BY <1>3, <1>4, <1>5, <1>6 DEF Restartless, Copyless, Copies
<1>8. WillMigrate(R!Migrate) /\ WillMigrate(R!MigrateOrGoOn)
  <2>1. 1 \in 1 .. 1 /\ 1 .. 1 - 1 = {}
    OBVIOUS
  <2> QED BY <1>3, <1>4, <1>5, <2>1 DEF WillMigrate, Migrates
<1>9. MigratesFirst(R!Migrate) /\ MigratesFirst(R!MigrateOrGoOn)
  BY <1>3, <1>4, <1>5, <1>6 DEF MigratesFirst, Brings
<1>10. \A services : ReadBy(services, R!Migrate) /\ ReadBy(services, R!MigrateOrGoOn)
  BY <1>3, <1>4, <1>5, <1>6 DEF ReadBy, Reads
<1>11. \A v : SuppliesFirst(R!Migrate, v) /\ SuppliesFirst(R!PutAll, v)
  BY <1>3, <1>5, <1>6 DEF SuppliesFirst, BringsAlone
<1> QED BY <1>3, <1>4, <1>5, <1>7, <1>8, <1>9, <1>10, <1>11

LEMMA CheckPlain ==
  ASSUME NEW files \in SUBSET R!Files
  PROVE  /\ R!Check(files) \in Seq(Steps) /\ Len(R!Check(files)) = 1
         /\ R!Check(files)[1] = [do |-> "check", files |-> files]
         /\ Restartless(R!Check(files)) /\ MigratesFirst(R!Check(files))
         /\ \A services : ReadBy(services, R!Check(files))
         /\ \A v : SuppliesFirst(R!Check(files), v)
<1>1. [do |-> "check", files |-> files] \in Steps
  BY DEF Steps
<1>2. /\ R!Check(files) \in Seq(Steps) /\ Len(R!Check(files)) = 1
      /\ R!Check(files)[1] = [do |-> "check", files |-> files]
  BY <1>1 DEF R!Check
<1>3. \A i \in 1 .. 1 : i = 1
  OBVIOUS
<1>4. /\ Restartless(R!Check(files)) /\ MigratesFirst(R!Check(files))
      /\ \A services : ReadBy(services, R!Check(files))
      /\ \A v : SuppliesFirst(R!Check(files), v)
  BY <1>2, <1>3 DEF Restartless, MigratesFirst, Brings, BringsAlone, SuppliesFirst, ReadBy, Reads
<1> QED BY <1>2, <1>4

LEMMA RestartPlain ==
  ASSUME NEW those \in SUBSET R!Services
  PROVE  /\ R!Restart(those) \in Seq(Steps) /\ Len(R!Restart(those)) = 1
         /\ R!Restart(those)[1] = [do |-> "restart", services |-> those]
         /\ MigratesFirst(R!Restart(those)) /\ \A v : SuppliesFirst(R!Restart(those), v)
<1>1. [do |-> "restart", services |-> those] \in Steps
  BY DEF Steps
<1>2. /\ R!Restart(those) \in Seq(Steps) /\ Len(R!Restart(those)) = 1
      /\ R!Restart(those)[1] = [do |-> "restart", services |-> those]
  BY <1>1 DEF R!Restart
<1>3. \A i \in 1 .. 1 : i = 1
  OBVIOUS
<1>4. MigratesFirst(R!Restart(those)) /\ \A v : SuppliesFirst(R!Restart(those), v)
  BY <1>2, <1>3 DEF MigratesFirst, Brings, BringsAlone, SuppliesFirst
<1> QED BY <1>2, <1>4

\* What the copies of some files are.
LEMMA PutPlain ==
  ASSUME NEW files \in Seq(R!Files)
  PROVE  /\ R!Put(files) \in Seq(Steps) /\ Restartless(R!Put(files))
         /\ (\A i \in 1 .. Len(files) : files[i] # "models")
              => MigratesFirst(R!Put(files)) /\ \A v : SuppliesFirst(R!Put(files), v)
         /\ \A services :
              (\A i \in 1 .. Len(files), s \in R!Services :
                 files[i] \in R!Loaded[s] \cup R!LoadedLate[s] => s \in services)
                => ReadBy(services, R!Put(files))
<1>1. /\ R!Put(files) = [i \in 1 .. Len(files) |-> [do |-> "put", file |-> files[i]]]
      /\ Len(files) \in Nat /\ \A i \in 1 .. Len(files) : files[i] \in R!Files
  BY DEF R!Put
<1>2. R!Put(files) \in [1 .. Len(files) -> Steps]
  <2>1. \A f \in R!Files : [do |-> "put", file |-> f] \in Steps
    BY DEF Steps
  <2> QED BY <1>1, <2>1
<1>3. R!Put(files) \in Seq(Steps) /\ Len(R!Put(files)) = Len(files)
  <2>1. R!Put(files) \in Seq(Steps)
    BY <1>1, <1>2, SeqDef
  <2>2. DOMAIN R!Put(files) = 1 .. Len(files)
    BY <1>1
  <2> QED BY <1>1, <2>1, <2>2, LenProperties
<1>4. \A i \in 1 .. Len(files) : R!Put(files)[i].do = "put" /\ R!Put(files)[i].file = files[i]
  BY <1>1
<1>5. Restartless(R!Put(files))
  BY <1>3, <1>4 DEF Restartless
<1>6. ASSUME \A i \in 1 .. Len(files) : files[i] # "models"
      PROVE  MigratesFirst(R!Put(files)) /\ \A v : SuppliesFirst(R!Put(files), v)
  BY <1>3, <1>4, <1>6 DEF MigratesFirst, Brings, BringsAlone, SuppliesFirst
<1>7. ASSUME NEW services,
             \A i \in 1 .. Len(files), s \in R!Services :
               files[i] \in R!Loaded[s] \cup R!LoadedLate[s] => s \in services
      PROVE  ReadBy(services, R!Put(files))
  BY <1>3, <1>4, <1>7 DEF ReadBy, Reads
<1> QED BY <1>3, <1>5, <1>6, <1>7

\* A script that ends with a restart.
LEMMA Restarting ==
  ASSUME NEW p \in Seq(Steps), NEW those \in SUBSET R!Services, MigratesFirst(p)
  PROVE  /\ p \o R!Restart(those) \in Seq(Steps) /\ MigratesFirst(p \o R!Restart(those))
         /\ ReadBy(those, p) => Covers(p \o R!Restart(those))
         /\ \A s \in those : WillRestore(s, p \o R!Restart(those))
         /\ \A v : SuppliesFirst(p, v) => SuppliesFirst(p \o R!Restart(those), v)
<1>1. /\ R!Restart(those) \in Seq(Steps) /\ Len(R!Restart(those)) = 1
      /\ R!Restart(those)[1] = [do |-> "restart", services |-> those]
      /\ MigratesFirst(R!Restart(those)) /\ \A v : SuppliesFirst(R!Restart(those), v)
  BY RestartPlain
<1> DEFINE q == p \o R!Restart(those)
<1>2. /\ q \in Seq(Steps) /\ Len(p) \in Nat /\ Len(q) = Len(p) + 1
      /\ \A i \in 1 .. Len(p) : q[i] = p[i]
      /\ q[Len(p) + 1] = [do |-> "restart", services |-> those]
  <2>1. 1 \in 1 .. Len(R!Restart(those)) /\ R!Restart(those) \in Seq(Steps)
    BY <1>1
  <2> QED BY <1>1, <2>1, Joined
<1>3. MigratesFirst(q)
  BY <1>1, JoinedMigrates
<1>8. ASSUME NEW v, SuppliesFirst(p, v) PROVE SuppliesFirst(q, v)
  BY <1>1, <1>8, JoinedSupplies
<1> HIDE DEF q
<1>4. Len(p) + 1 \in 1 .. Len(q) /\ \A s \in those : Restores(s, q[Len(p) + 1])
  BY <1>2 DEF Restores
<1>5. ASSUME ReadBy(those, p), NEW i \in 1 .. Len(q), NEW s \in R!Services, Reads(s, q[i])
      PROVE  \E j \in i + 1 .. Len(q) : Restores(s, q[j])
  <2>1. q[Len(p) + 1].do = "restart"
    BY <1>2
  <2>2. i # Len(p) + 1
    BY <1>5, <2>1 DEF Reads
  <2>3. i \in 1 .. Len(p) /\ Reads(s, p[i]) /\ Len(p) + 1 \in i + 1 .. Len(q)
    BY <1>2, <1>5, <2>2
  <2> QED BY <1>4, <1>5, <2>3 DEF ReadBy
<1>6. ReadBy(those, p) => Covers(q)
  BY <1>5 DEF Covers
<1>7. \A s \in those : WillRestore(s, q)
  BY <1>4 DEF WillRestore
<1> QED BY <1>2, <1>3, <1>6, <1>7, <1>8 DEF q

\* A script that checks all that the services it restarts import.
LEMMA Checking ==
  ASSUME NEW p \in Seq(Steps), Restartless(p), NEW files \in SUBSET R!Files,
         NEW those \in SUBSET R!Services, \A s \in those : R!Loaded[s] \subseteq files, NEW b
  PROVE  ChecksFirst(p \o R!Check(files) \o R!Restart(those), b)
<1>1. /\ R!Check(files) \in Seq(Steps) /\ Len(R!Check(files)) = 1
      /\ R!Check(files)[1] = [do |-> "check", files |-> files]
      /\ R!Restart(those) \in Seq(Steps) /\ Len(R!Restart(those)) = 1
      /\ R!Restart(those)[1] = [do |-> "restart", services |-> those]
      /\ Restartless(R!Check(files))
  BY CheckPlain, RestartPlain
<1>2. 1 \in 1 .. Len(R!Check(files)) /\ 1 \in 1 .. Len(R!Restart(those))
  BY <1>1
<1> DEFINE c == p \o R!Check(files)
           q == c \o R!Restart(those)
<1>3. /\ c \in Seq(Steps) /\ Len(p) \in Nat /\ Len(c) = Len(p) + 1
      /\ c[Len(p) + 1] = [do |-> "check", files |-> files]
  BY <1>2, <1>1, Joined
<1>4. Restartless(c)
  BY <1>1, JoinedPlain
<1> HIDE DEF c
<1>5. /\ Len(q) = Len(c) + 1 /\ q[Len(c) + 1] = [do |-> "restart", services |-> those]
      /\ \A i \in 1 .. Len(c) : q[i] = c[i]
  <2>1. \A i \in 1 .. Len(R!Restart(those)) : q[i + Len(c)] = R!Restart(those)[i]
    BY <1>1, <1>3, Joined
  <2>2. q[1 + Len(c)] = R!Restart(those)[1] /\ 1 + Len(c) = Len(c) + 1
    BY <1>2, <1>3, <2>1
  <2>3. Len(q) = Len(c) + Len(R!Restart(those)) /\ \A i \in 1 .. Len(c) : q[i] = c[i]
    BY <1>1, <1>3, Joined
  <2> QED BY <1>1, <2>2, <2>3
<1> HIDE DEF q
<1> SUFFICES ASSUME NEW i \in 1 .. Len(q), NEW s \in R!Services, Restores(s, q[i])
             PROVE  \E j \in 1 .. i - 1 : Imports(s, q[j]) /\ \A k \in j .. i - 1 : ~ Copies(q[k])
  BY DEF ChecksFirst, q, c
<1>6. i = Len(c) + 1
  BY <1>3, <1>4, <1>5 DEF Restartless, Restores
<1>7. s \in those
  BY <1>5, <1>6 DEF Restores
<1>8. Imports(s, q[Len(c)]) /\ ~ Copies(q[Len(c)])
  <2>1. q[Len(c)] = [do |-> "check", files |-> files]
    BY <1>3, <1>5
  <2> QED BY <1>7, <2>1 DEF Imports, Copies
<1>9. Len(c) \in 1 .. i - 1 /\ \A k \in Len(c) .. i - 1 : k = Len(c)
  BY <1>3, <1>6
<1> QED BY <1>8, <1>9

\* Steps with a migration after every copy of the models.
Sound(p) == p \in Seq(Steps) /\ MigratesFirst(p)
\* and with the migration that they need before it.
Supplied(p) == Sound(p) /\ \A v : SuppliesFirst(p, v)

\* The files that are named.
LEMMA Imported ==
  /\ \A s \in R!Services : R!Loaded[s] \in SUBSET R!Files
  /\ {"api", "bot", "admin"} \subseteq R!Services
  /\ R!Core \in SUBSET R!Files /\ R!Limits \in SUBSET R!Files /\ R!Feed \in SUBSET R!Files
  /\ {"models", "repositories", "services", "config_credentials", "vpn_config", "xray_sync"}
       \subseteq R!Files
  /\ {"device_limit", "notifications", "promo", "system_settings", "payment", "vpn_config_store"}
       \subseteq R!Files
  /\ {"api", "admin", "bot", "imported_subs"} \subseteq R!Files
<1>1. \A s \in R!Services : R!Loaded[s] \in SUBSET R!Files /\ R!LoadedLate[s] \in SUBSET R!Files
  BY DEF R!Files
<1>2. {"api", "bot", "admin"} \subseteq R!Services
  BY DEF R!Services
<1>3. /\ R!Shared \subseteq R!Loaded["api"] /\ "admin" \in R!Loaded["admin"] /\ "bot" \in R!Loaded["bot"]
      /\ {"api", "device_limit", "notifications", "promo", "system_settings", "payment",
          "vpn_config_store"} \subseteq R!Loaded["api"]
      /\ "imported_subs" \in R!LoadedLate["api"]
  BY DEF R!Loaded, R!LoadedLate
<1>4. R!Shared = {"models", "repositories", "services", "config_credentials", "vpn_config", "xray_sync"}
  BY DEF R!Shared
<1>5. R!Loaded["api"] \subseteq R!Files /\ R!Loaded["admin"] \subseteq R!Files /\ R!Loaded["bot"] \subseteq R!Files
  BY <1>1, <1>2
<1>6. /\ {"models", "repositories", "services", "config_credentials", "vpn_config", "xray_sync"}
           \subseteq R!Files
      /\ {"device_limit", "notifications", "promo", "system_settings", "payment",
          "vpn_config_store"} \subseteq R!Files
      /\ {"api", "admin", "bot", "imported_subs"} \subseteq R!Files
  BY <1>1, <1>2, <1>3, <1>4, <1>5
<1>7. R!Core \in SUBSET R!Files /\ R!Limits \in SUBSET R!Files /\ R!Feed \in SUBSET R!Files
  BY <1>4, <1>6 DEF R!Core, R!Limits, R!Feed
<1> QED BY <1>1, <1>2, <1>6, <1>7

NotModels == R!Files \ {"models"}

\* Scripts without the models.
LEMMA PlainPlan ==
  ASSUME NEW files \in Seq(NotModels), NEW checks \in SUBSET R!Files,
         NEW those \in SUBSET R!Services
  PROVE  /\ Supplied(R!Put(files)) /\ Supplied(R!Put(files) \o R!Restart(those))
         /\ Supplied(R!Put(files) \o R!Check(checks) \o R!Restart(those))
<1>1. files \in Seq(R!Files) /\ \A i \in 1 .. Len(files) : files[i] # "models"
  BY DEF NotModels
<1>2. /\ R!Put(files) \in Seq(Steps) /\ MigratesFirst(R!Put(files))
      /\ \A v : SuppliesFirst(R!Put(files), v)
  BY <1>1, PutPlain
<1>3. /\ R!Check(checks) \in Seq(Steps) /\ MigratesFirst(R!Check(checks))
      /\ \A v : SuppliesFirst(R!Check(checks), v)
  BY CheckPlain
<1>4. R!Put(files) \o R!Check(checks) \in Seq(Steps) /\ MigratesFirst(R!Put(files) \o R!Check(checks))
  BY <1>2, <1>3, Joined, JoinedMigrates
<1>5. \A v : SuppliesFirst(R!Put(files) \o R!Check(checks), v)
  BY <1>2, <1>3, JoinedSupplies
<1> QED BY <1>2, <1>4, <1>5, Restarting DEF Supplied, Sound

\* Scripts with them, and with a migration, which comes before or after them.
LEMMA ModelsPlan ==
  ASSUME NEW files \in Seq(R!Files), NEW checks \in SUBSET R!Files, NEW those \in SUBSET R!Services,
         NEW n \in 1 .. R!Latest
  PROVE  /\ Sound(R!Put(files) \o R!PutVersion(n) \o R!MigrateOrGoOn)
         /\ Sound(R!Put(files) \o R!PutVersion(n) \o R!MigrateOrGoOn \o R!Restart(those))
         /\ Sound(R!PutVersion(n) \o R!Put(files) \o R!Migrate \o R!Check(checks))
         /\ Sound(R!PutVersion(n) \o R!Put(files) \o R!Migrate \o R!Check(checks) \o R!Restart(those))
         /\ Restartless(R!PutVersion(n) \o R!Put(files) \o R!Migrate)
         /\ R!PutVersion(n) \o R!Put(files) \o R!Migrate \in Seq(Steps)
<1> DEFINE before == R!PutVersion(n) \o R!Put(files)
           after == R!Put(files) \o R!PutVersion(n)
<1>1. /\ before \in Seq(Steps) /\ Restartless(before)
      /\ after \in Seq(Steps) /\ Restartless(after)
  BY PutPlain, VersionPlain, Joined, JoinedPlain
<1> HIDE DEF before, after
<1>2. /\ before \o R!Migrate \in Seq(Steps) /\ MigratesFirst(before \o R!Migrate)
      /\ Restartless(before \o R!Migrate)
  BY <1>1, SinglesPlain, Joined, JoinedMigrates, JoinedPlain
<1>3. after \o R!MigrateOrGoOn \in Seq(Steps) /\ MigratesFirst(after \o R!MigrateOrGoOn)
  BY <1>1, SinglesPlain, Joined, JoinedMigrates
<1>4. R!Check(checks) \in Seq(Steps) /\ MigratesFirst(R!Check(checks))
  BY CheckPlain
<1>5. /\ before \o R!Migrate \o R!Check(checks) \in Seq(Steps)
      /\ MigratesFirst(before \o R!Migrate \o R!Check(checks))
  BY <1>2, <1>4, Joined, JoinedMigrates
<1> QED BY <1>2, <1>3, <1>5, Restarting DEF Sound, before, after

\* With the migration that the models need, first.
LEMMA SuppliedPlan ==
  ASSUME NEW files \in Seq(R!Files), NEW checks \in SUBSET R!Files, NEW those \in SUBSET R!Services
  PROVE  Supplied(R!PutVersion(R!Latest) \o R!Put(files) \o R!Migrate \o R!Check(checks)
                    \o R!Restart(those))
<1> DEFINE number == R!PutVersion(R!Latest)
           before == number \o R!Put(files)
<1>0. R!Latest \in 1 .. R!Latest
  BY DEF R!Latest
<1>1. /\ number \in Seq(Steps) /\ Len(number) = 1 /\ Supplies(number[1])
      /\ \A v : SuppliesFirst(number, v)
  BY <1>0, VersionPlain
<1>2. R!Put(files) \in Seq(Steps)
  BY PutPlain
<1> HIDE DEF number
<1>3. 1 \in 1 .. Len(number)
  BY <1>1
<1>4. before \in Seq(Steps) /\ \A v : SuppliesFirst(before, v)
  BY <1>1, <1>2, <1>3, Joined, JoinedSupplies
<1> HIDE DEF before
<1>5. before \o R!Migrate \in Seq(Steps) /\ \A v : SuppliesFirst(before \o R!Migrate, v)
  BY <1>4, SinglesPlain, Joined, JoinedSupplies
<1>6. /\ before \o R!Migrate \o R!Check(checks) \in Seq(Steps)
      /\ \A v : SuppliesFirst(before \o R!Migrate \o R!Check(checks), v)
  BY <1>5, CheckPlain, Joined, JoinedSupplies
<1>7. \A v : SuppliesFirst(before \o R!Migrate \o R!Check(checks) \o R!Restart(those), v)
  BY <1>6, RestartPlain, JoinedSupplies
<1> QED BY <1>0, <1>7, ModelsPlan DEF Supplied, before, number

\* The lists of files that scripts copy.
LEMMA FileLists ==
  /\ <<"admin">> \in Seq(NotModels) /\ <<"api">> \in Seq(NotModels)
  /\ <<"bot">> \in Seq(NotModels) /\ <<"vpn_config">> \in Seq(NotModels)
  /\ <<"admin", "services">> \in Seq(NotModels)
  /\ <<"bot", "notifications">> \in Seq(NotModels)
  /\ <<"bot", "repositories">> \in Seq(NotModels) /\ <<"promo", "admin">> \in Seq(NotModels)
  /\ <<"repositories", "payment">> \in Seq(NotModels)
  /\ <<"vpn_config", "api">> \in Seq(NotModels)
  /\ <<"vpn_config", "xray_sync">> \in Seq(NotModels)
  /\ <<"bot", "notifications", "repositories">> \in Seq(NotModels)
  /\ <<"config_credentials", "device_limit", "bot">> \in Seq(NotModels)
  /\ <<"device_limit", "bot", "api">> \in Seq(NotModels)
  /\ <<"notifications", "bot", "admin">> \in Seq(NotModels)
  /\ <<"payment", "notifications", "repositories">> \in Seq(NotModels)
  /\ <<"repositories", "services", "bot">> \in Seq(NotModels)
  /\ <<"services", "bot", "xray_sync">> \in Seq(NotModels)
  /\ <<"services", "vpn_config", "api">> \in Seq(NotModels)
  /\ <<"system_settings", "bot", "admin">> \in Seq(NotModels)
  /\ <<"vpn_config", "xray_sync", "api">> \in Seq(NotModels)
  /\ <<"config_credentials", "vpn_config", "services", "api">> \in Seq(NotModels)
  /\ <<"device_limit", "services", "bot", "api">> \in Seq(NotModels)
  /\ <<"vpn_config", "vpn_config_store", "services", "admin">> \in Seq(NotModels)
  /\ <<"vpn_config", "device_limit", "config_credentials", "api", "bot">> \in Seq(NotModels)
  /\ <<"models", "admin">> \in Seq(R!Files) /\ <<"models", "services">> \in Seq(R!Files)
  /\ <<"models", "imported_subs", "admin", "api">> \in Seq(R!Files)
  /\ <<"models", "notifications", "payment", "bot", "admin", "api">> \in Seq(R!Files)
  /\ <<"models", "services", "xray_sync", "bot", "admin", "api">> \in Seq(R!Files)
<1>1. {"api", "admin", "bot", "repositories", "services", "config_credentials", "vpn_config",
       "xray_sync", "device_limit", "notifications", "promo", "system_settings", "payment",
       "vpn_config_store"} \subseteq NotModels
  BY Imported DEF NotModels
<1>2. /\ <<"admin">> \in Seq(NotModels) /\ <<"api">> \in Seq(NotModels)
      /\ <<"bot">> \in Seq(NotModels) /\ <<"vpn_config">> \in Seq(NotModels)
  <2>1. \A a \in NotModels : <<a>> \in Seq(NotModels)
    BY Tuples
  <2> QED BY <1>1, <2>1
<1>3. /\ <<"admin", "services">> \in Seq(NotModels)
      /\ <<"bot", "notifications">> \in Seq(NotModels)
      /\ <<"bot", "repositories">> \in Seq(NotModels)
      /\ <<"promo", "admin">> \in Seq(NotModels)
      /\ <<"repositories", "payment">> \in Seq(NotModels)
      /\ <<"vpn_config", "api">> \in Seq(NotModels)
      /\ <<"vpn_config", "xray_sync">> \in Seq(NotModels)
  <2>1. \A a, b \in NotModels : <<a, b>> \in Seq(NotModels)
    BY Tuples
  <2> QED BY <1>1, <2>1
<1>4. /\ <<"bot", "notifications", "repositories">> \in Seq(NotModels)
      /\ <<"config_credentials", "device_limit", "bot">> \in Seq(NotModels)
      /\ <<"device_limit", "bot", "api">> \in Seq(NotModels)
      /\ <<"notifications", "bot", "admin">> \in Seq(NotModels)
      /\ <<"payment", "notifications", "repositories">> \in Seq(NotModels)
      /\ <<"repositories", "services", "bot">> \in Seq(NotModels)
      /\ <<"services", "bot", "xray_sync">> \in Seq(NotModels)
      /\ <<"services", "vpn_config", "api">> \in Seq(NotModels)
      /\ <<"system_settings", "bot", "admin">> \in Seq(NotModels)
      /\ <<"vpn_config", "xray_sync", "api">> \in Seq(NotModels)
  <2>1. \A a, b, c \in NotModels : <<a, b, c>> \in Seq(NotModels)
    BY Tuples
  <2> QED BY <1>1, <2>1
<1>5. /\ <<"config_credentials", "vpn_config", "services", "api">> \in Seq(NotModels)
      /\ <<"device_limit", "services", "bot", "api">> \in Seq(NotModels)
      /\ <<"vpn_config", "vpn_config_store", "services", "admin">> \in Seq(NotModels)
  <2>1. \A a, b, c, d \in NotModels : <<a, b, c, d>> \in Seq(NotModels)
    BY Tuples
  <2> QED BY <1>1, <2>1
<1>6. /\ <<"vpn_config", "device_limit", "config_credentials", "api", "bot">> \in Seq(NotModels)
  <2>1. \A a, b, c, d, e \in NotModels : <<a, b, c, d, e>> \in Seq(NotModels)
    BY Tuples
  <2> QED BY <1>1, <2>1
<1>7. /\ <<"models", "admin">> \in Seq(R!Files) /\ <<"models", "services">> \in Seq(R!Files)
  <2>1. \A a, b \in R!Files : <<a, b>> \in Seq(R!Files)
    BY Tuples
  <2> QED BY Imported, <2>1
<1>8. /\ <<"models", "imported_subs", "admin", "api">> \in Seq(R!Files)
  <2>1. \A a, b, c, d \in R!Files : <<a, b, c, d>> \in Seq(R!Files)
    BY Tuples
  <2> QED BY Imported, <2>1
<1>9. /\ <<"models", "notifications", "payment", "bot", "admin", "api">> \in Seq(R!Files)
      /\ <<"models", "services", "xray_sync", "bot", "admin", "api">> \in Seq(R!Files)
  <2>1. \A a, b, c, d, e, f \in R!Files : <<a, b, c, d, e, f>> \in Seq(R!Files)
    BY Tuples
  <2> QED BY Imported, <2>1
<1> QED BY <1>2, <1>3, <1>4, <1>5, <1>6, <1>7, <1>8, <1>9

\* A migration follows every copy of the models, and but for four scripts the one
\* that they need is on the disk before them.
LEMMA PlansAreSound ==
  /\ Supplied(R!redeploy) /\ Supplied(R!deploy_remote) /\ Supplied(R!finish_install)
  /\ Supplied(R!deploy_promo_retry_buttons) /\ Supplied(R!deploy_sub_fix)
  /\ Supplied(R!deploy_payment_notify_fix) /\ Supplied(R!deploy_json_no_yandex_bind)
  /\ Supplied(R!deploy_payment_poll) /\ Supplied(R!deploy_expiry_reminders)
  /\ Supplied(R!deploy_fix_finland_sync) /\ Supplied(R!deploy_promo_delete_fix)
  /\ Supplied(R!deploy_keys_ux) /\ Supplied(R!deploy_keys_fix) /\ Sound(R!deploy_fix_manual_key_import)
  /\ Supplied(R!deploy_tg_routing_fix) /\ Supplied(R!deploy_connect_guide)
  /\ Supplied(R!deploy_direct_message) /\ Supplied(R!deploy_renew_expired)
  /\ Supplied(R!deploy_fix_expired_feed) /\ Supplied(R!deploy_broadcast)
  /\ Supplied(R!deploy_broadcast_fix) /\ Supplied(R!deploy_expired_telegram_only)
  /\ Supplied(R!deploy_soft_device_limit) /\ Sound(R!deploy_expired_renew_nudges)
  /\ Supplied(R!deploy_finland_ru_direct) /\ Supplied(R!deploy_bot_ui) /\ Supplied(R!deploy_restore_fix)
  /\ Supplied(R!deploy_balance_buy_fix) /\ Supplied(R!deploy_multi_server)
  /\ Supplied(R!deploy_multi_server2) /\ Supplied(R!deploy_imported_subs)
  /\ Supplied(R!deploy_sub_keys_fix) /\ Sound(R!deploy_telegram_admins)
  /\ Supplied(R!deploy_device_limit_fix) /\ Sound(R!deploy_profile_keys)
  /\ Supplied(R!fix_bot_notifications) /\ Supplied(R!enable_traffic_stats)
  /\ Supplied(R!update_yookassa_env) /\ Supplied(R!start_bot) /\ Supplied(R!setup_services)
<1>1. /\ {"api"} \in SUBSET R!Services /\ {"admin"} \in SUBSET R!Services /\ {"bot"} \in SUBSET R!Services
      /\ {"api", "admin"} \in SUBSET R!Services /\ {"api", "bot"} \in SUBSET R!Services
      /\ {"bot", "admin"} \in SUBSET R!Services /\ R!Services \in SUBSET R!Services
  BY Imported
<1>2. ASSUME NEW those \in SUBSET R!Services
      PROVE  /\ Supplied(R!Restart(those))
             /\ Supplied(R!Migrate \o R!Check(R!Loaded["api"]) \o R!Restart(those))
  <2>1. Supplied(R!Restart(those))
    BY RestartPlain DEF Supplied, Sound
  <2>2. R!Loaded["api"] \in SUBSET R!Files
    BY Imported
  <2>3. /\ R!Check(R!Loaded["api"]) \in Seq(Steps) /\ MigratesFirst(R!Check(R!Loaded["api"]))
        /\ \A v : SuppliesFirst(R!Check(R!Loaded["api"]), v)
    BY <2>2, CheckPlain
  <2>4. Supplied(R!Migrate \o R!Check(R!Loaded["api"]))
    BY <2>3, SinglesPlain, Joined, JoinedMigrates, JoinedSupplies DEF Supplied, Sound
  <2> QED BY <2>1, <2>4, Restarting DEF Supplied, Sound
<1>3. Supplied(R!PutAll \o R!Migrate \o R!Restart(R!Services))
  <2>1. Supplied(R!PutAll \o R!Migrate)
    BY SinglesPlain, Joined, JoinedMigrates, JoinedSupplies DEF Supplied, Sound
  <2> QED BY <1>1, <2>1, Restarting DEF Supplied, Sound
<1>4. /\ Supplied(R!deploy_promo_retry_buttons) /\ Supplied(R!deploy_json_no_yandex_bind)
      /\ Supplied(R!deploy_payment_poll) /\ Supplied(R!deploy_expiry_reminders)
  BY <1>1, FileLists, PlainPlan
     DEF R!deploy_promo_retry_buttons, R!deploy_json_no_yandex_bind, R!deploy_payment_poll,
         R!deploy_expiry_reminders
<1>5. /\ Supplied(R!deploy_fix_finland_sync) /\ Supplied(R!deploy_tg_routing_fix)
      /\ Supplied(R!deploy_renew_expired) /\ Supplied(R!deploy_fix_expired_feed)
  BY <1>1, FileLists, PlainPlan
     DEF R!deploy_fix_finland_sync, R!deploy_tg_routing_fix, R!deploy_renew_expired,
         R!deploy_fix_expired_feed
<1>6. /\ Supplied(R!deploy_finland_ru_direct) /\ Supplied(R!deploy_balance_buy_fix)
      /\ Supplied(R!deploy_multi_server2) /\ Supplied(R!fix_bot_notifications)
  BY <1>1, FileLists, PlainPlan
     DEF R!deploy_finland_ru_direct, R!deploy_balance_buy_fix, R!deploy_multi_server2,
         R!fix_bot_notifications
<1>7. /\ Supplied(R!deploy_sub_fix) /\ Supplied(R!deploy_payment_notify_fix)
      /\ Supplied(R!deploy_promo_delete_fix) /\ Supplied(R!deploy_keys_ux)
  BY <1>1, FileLists, Imported, PlainPlan
     DEF R!deploy_sub_fix, R!deploy_payment_notify_fix, R!deploy_promo_delete_fix, R!deploy_keys_ux
<1>8. /\ Supplied(R!deploy_keys_fix) /\ Supplied(R!deploy_connect_guide)
      /\ Supplied(R!deploy_direct_message) /\ Supplied(R!deploy_broadcast)
  BY <1>1, FileLists, Imported, PlainPlan
     DEF R!deploy_keys_fix, R!deploy_connect_guide, R!deploy_direct_message, R!deploy_broadcast
<1>9. /\ Supplied(R!deploy_broadcast_fix) /\ Supplied(R!deploy_expired_telegram_only)
      /\ Supplied(R!deploy_soft_device_limit) /\ Supplied(R!deploy_bot_ui)
  BY <1>1, FileLists, Imported, PlainPlan
     DEF R!deploy_broadcast_fix, R!deploy_expired_telegram_only, R!deploy_soft_device_limit,
         R!deploy_bot_ui
<1>10. /\ Supplied(R!deploy_restore_fix) /\ Supplied(R!deploy_multi_server)
      /\ Supplied(R!deploy_sub_keys_fix) /\ Supplied(R!deploy_device_limit_fix)
  BY <1>1, FileLists, Imported, PlainPlan
     DEF R!deploy_restore_fix, R!deploy_multi_server, R!deploy_sub_keys_fix,
         R!deploy_device_limit_fix
<1>11. {13, 14, 17} \subseteq 1 .. R!Latest
  BY DEF R!Latest
<1>12. /\ Sound(R!deploy_fix_manual_key_import) /\ Sound(R!deploy_expired_renew_nudges)
       /\ Sound(R!deploy_telegram_admins) /\ Sound(R!deploy_profile_keys)
  BY <1>1, <1>11, FileLists, Imported, ModelsPlan
     DEF R!deploy_fix_manual_key_import, R!deploy_expired_renew_nudges, R!deploy_telegram_admins,
         R!deploy_profile_keys
<1>14. Supplied(R!deploy_imported_subs)
  BY <1>1, FileLists, Imported, SuppliedPlan DEF R!deploy_imported_subs, R!Latest
<1>13. /\ Supplied(R!redeploy) /\ Supplied(R!deploy_remote) /\ Supplied(R!finish_install)
      /\ Supplied(R!enable_traffic_stats) /\ Supplied(R!update_yookassa_env) /\ Supplied(R!start_bot)
      /\ Supplied(R!setup_services)
  BY <1>1, <1>2, <1>3
     DEF R!redeploy, R!deploy_remote, R!finish_install, R!enable_traffic_stats, R!update_yookassa_env,
         R!start_bot, R!setup_services
<1> QED BY <1>4, <1>5, <1>6, <1>7, <1>8, <1>9, <1>10, <1>12, <1>13, <1>14

\* A script that restarts all readers of what it copies.
LEMMA PlansCover ==
  /\ Covers(R!deploy_promo_retry_buttons) /\ Covers(R!deploy_sub_fix)
  /\ Covers(R!deploy_expiry_reminders) /\ Covers(R!deploy_keys_ux)
  /\ Covers(R!deploy_fix_manual_key_import) /\ Covers(R!deploy_bot_ui)
  /\ Covers(R!deploy_telegram_admins) /\ Covers(R!deploy_profile_keys) /\ Covers(R!finish_install)
  /\ Covers(R!enable_traffic_stats) /\ Covers(R!update_yookassa_env) /\ Covers(R!start_bot)
  /\ Covers(R!setup_services) /\ Covers(R!fix_bot_notifications) /\ Covers(R!redeploy)
  /\ Covers(R!deploy_remote) /\ \A s \in R!Services : WillRestore(s, R!redeploy)
  /\ \A s \in R!Services : WillRestore(s, R!deploy_remote)
<1>1. /\ {"api"} \in SUBSET R!Services /\ {"admin"} \in SUBSET R!Services /\ {"bot"} \in SUBSET R!Services
      /\ {"api", "admin"} \in SUBSET R!Services /\ {"api", "bot"} \in SUBSET R!Services
      /\ R!Services \in SUBSET R!Services
  BY Imported
<1>2. /\ \A s \in R!Services : "bot" \in R!Loaded[s] \cup R!LoadedLate[s] => s \in {"bot"}
      /\ \A s \in R!Services : "api" \in R!Loaded[s] \cup R!LoadedLate[s] => s \in {"api"}
      /\ \A s \in R!Services : "admin" \in R!Loaded[s] \cup R!LoadedLate[s] => s \in {"admin"}
  BY DEF R!Loaded, R!LoadedLate, R!Shared, R!Services
<1>3. ASSUME NEW f \in NotModels, NEW those \in SUBSET R!Services,
             \A s \in R!Services : f \in R!Loaded[s] \cup R!LoadedLate[s] => s \in those
      PROVE  /\ R!Put(<<f>>) \in Seq(Steps) /\ MigratesFirst(R!Put(<<f>>))
             /\ ReadBy(those, R!Put(<<f>>))
  <2>1. <<f>> \in Seq(R!Files) /\ Len(<<f>>) = 1 /\ <<f>>[1] = f /\ f # "models"
    BY Tuples DEF NotModels
  <2>2. \A i \in 1 .. 1 : i = 1
    OBVIOUS
  <2> QED BY <1>3, <2>1, <2>2, PutPlain
<1>4. ASSUME NEW f \in NotModels, NEW those \in SUBSET R!Services, NEW files \in SUBSET R!Files,
             \A s \in R!Services : f \in R!Loaded[s] \cup R!LoadedLate[s] => s \in those
      PROVE  Covers(R!Put(<<f>>) \o R!Restart(those)) /\ Covers(R!Put(<<f>>) \o R!Check(files) \o R!Restart(those))
  <2>1. /\ R!Put(<<f>>) \in Seq(Steps) /\ MigratesFirst(R!Put(<<f>>))
        /\ ReadBy(those, R!Put(<<f>>))
    BY <1>3, <1>4
  <2>2. /\ R!Check(files) \in Seq(Steps) /\ MigratesFirst(R!Check(files))
        /\ ReadBy(those, R!Check(files))
    BY CheckPlain
  <2>3. /\ R!Put(<<f>>) \o R!Check(files) \in Seq(Steps)
        /\ MigratesFirst(R!Put(<<f>>) \o R!Check(files))
        /\ ReadBy(those, R!Put(<<f>>) \o R!Check(files))
    BY <2>1, <2>2, Joined, JoinedMigrates, JoinedPlain
  <2> QED BY <2>1, <2>3, Restarting
<1>5. {"api", "admin", "bot"} \subseteq NotModels
  BY Imported DEF NotModels
<1>6. /\ Covers(R!deploy_promo_retry_buttons) /\ Covers(R!deploy_expiry_reminders)
      /\ Covers(R!deploy_sub_fix) /\ Covers(R!deploy_keys_ux) /\ Covers(R!deploy_bot_ui)
  BY <1>1, <1>2, <1>4, <1>5, Imported
     DEF R!deploy_promo_retry_buttons, R!deploy_expiry_reminders, R!deploy_sub_fix, R!deploy_keys_ux,
         R!deploy_bot_ui
<1>7. ASSUME NEW those \in SUBSET R!Services
      PROVE  Covers(R!Restart(those)) /\ Covers(R!Migrate \o R!Check(R!Loaded["api"]) \o R!Restart(those))
  <2>1. /\ Len(R!Restart(those)) = 1
        /\ R!Restart(those)[1] = [do |-> "restart", services |-> those]
    BY RestartPlain
  <2>2. Covers(R!Restart(those))
    <3>1. \A i \in 1 .. 1 : i = 1
      OBVIOUS
    <3> QED BY <2>1, <3>1 DEF Covers, Reads
  <2>3. R!Check(R!Loaded["api"]) \in Seq(Steps) /\ MigratesFirst(R!Check(R!Loaded["api"]))
        /\ ReadBy(those, R!Check(R!Loaded["api"]))
    BY Imported, CheckPlain
  <2>4. /\ R!Migrate \o R!Check(R!Loaded["api"]) \in Seq(Steps)
        /\ MigratesFirst(R!Migrate \o R!Check(R!Loaded["api"]))
        /\ ReadBy(those, R!Migrate \o R!Check(R!Loaded["api"]))
    BY <2>3, SinglesPlain, Joined, JoinedMigrates, JoinedPlain
  <2> QED BY <2>2, <2>4, Restarting
<1>8. /\ Covers(R!finish_install) /\ Covers(R!enable_traffic_stats) /\ Covers(R!update_yookassa_env)
      /\ Covers(R!start_bot) /\ Covers(R!setup_services)
  BY <1>1, <1>7 DEF R!finish_install, R!enable_traffic_stats, R!update_yookassa_env, R!start_bot,
                    R!setup_services
<1>9. ASSUME NEW p \in Seq(Steps), MigratesFirst(p)
      PROVE  /\ Covers(p \o R!Restart(R!Services))
             /\ \A s \in R!Services : WillRestore(s, p \o R!Restart(R!Services))
  <2>1. ReadBy(R!Services, p)
    BY DEF ReadBy
  <2> QED BY <1>1, <1>9, <2>1, Restarting
<1>10. /\ Covers(R!redeploy) /\ Covers(R!deploy_remote)
       /\ \A s \in R!Services : WillRestore(s, R!redeploy) /\ WillRestore(s, R!deploy_remote)
  <2>1. R!PutAll \o R!Migrate \in Seq(Steps) /\ MigratesFirst(R!PutAll \o R!Migrate)
    BY SinglesPlain, Joined, JoinedMigrates
  <2> QED BY <1>9, <2>1 DEF R!redeploy, R!deploy_remote
<1>11. /\ Covers(R!deploy_fix_manual_key_import) /\ Covers(R!deploy_telegram_admins)
       /\ Covers(R!deploy_profile_keys) /\ Covers(R!fix_bot_notifications)
  <2>1. ASSUME NEW files \in Seq(R!Files), NEW checks \in SUBSET R!Files, NEW n \in 1 .. R!Latest
        PROVE  /\ Covers(R!Put(files) \o R!PutVersion(n) \o R!MigrateOrGoOn \o R!Restart(R!Services))
               /\ Covers(R!PutVersion(n) \o R!Put(files) \o R!Migrate \o R!Check(checks)
                           \o R!Restart(R!Services))
    BY <1>1, <1>9, <2>1, ModelsPlan DEF Sound
  <2>2. /\ R!Put(<<"notifications", "bot", "admin">>) \in Seq(Steps)
        /\ MigratesFirst(R!Put(<<"notifications", "bot", "admin">>))
    BY FileLists, Imported, PlainPlan DEF Supplied, Sound
  <2>3. R!Loaded["admin"] \in SUBSET R!Files /\ R!Loaded["admin"] \cup {"notifications"} \in SUBSET R!Files
    BY Imported
  <2>4. {13, 14} \subseteq 1 .. R!Latest
    BY DEF R!Latest
  <2> QED BY <1>9, <2>1, <2>2, <2>3, <2>4, FileLists
          DEF R!deploy_fix_manual_key_import, R!deploy_telegram_admins, R!deploy_profile_keys,
              R!fix_bot_notifications
<1> QED BY <1>6, <1>8, <1>10, <1>11

\* A script whose check imports what the service does.
LEMMA PlansCheck ==
  ASSUME NEW b
  PROVE  /\ ChecksFirst(R!deploy_bot_ui, b) /\ ChecksFirst(R!deploy_broadcast, b)
         /\ ChecksFirst(R!deploy_broadcast_fix, b) /\ ChecksFirst(R!deploy_direct_message, b)
         /\ ChecksFirst(R!deploy_keys_ux, b) /\ ChecksFirst(R!deploy_expired_renew_nudges, b)
<1>1. ASSUME NEW p \in Seq(Steps), Restartless(p), NEW s \in R!Services
      PROVE  ChecksFirst(p \o R!Check(R!Loaded[s]) \o R!Restart({s}), b)
  BY <1>1, Imported, Checking
<1>2. ASSUME NEW files \in Seq(R!Files)
      PROVE  /\ R!Put(files) \in Seq(Steps) /\ Restartless(R!Put(files))
             /\ R!PutVersion(17) \o R!Put(files) \o R!Migrate \in Seq(Steps)
             /\ Restartless(R!PutVersion(17) \o R!Put(files) \o R!Migrate)
  <2>1. 17 \in 1 .. R!Latest
    BY DEF R!Latest
  <2> QED BY <2>1, PutPlain, ModelsPlan
<1>3. /\ <<"bot">> \in Seq(R!Files) /\ <<"bot", "notifications", "repositories">> \in Seq(R!Files)
      /\ <<"bot", "notifications">> \in Seq(R!Files) /\ <<"bot", "repositories">> \in Seq(R!Files)
      /\ <<"admin">> \in Seq(R!Files) /\ <<"models", "admin">> \in Seq(R!Files)
  BY FileLists DEF NotModels
<1> QED BY <1>1, <1>2, <1>3, Imported
        DEF R!deploy_bot_ui, R!deploy_broadcast, R!deploy_broadcast_fix, R!deploy_direct_message,
            R!deploy_keys_ux, R!deploy_expired_renew_nudges

\* What the scripts promise, all together.
LEMMA Planned ==
  ASSUME NEW r \in R!Scripts
  PROVE  /\ R!Plan(r) \in Seq(Steps) /\ MigratesFirst(R!Plan(r))
         /\ r \notin R!Behind => \A v : SuppliesFirst(R!Plan(r), v)
         /\ r \in R!Complete \cup R!Full => Covers(R!Plan(r))
         /\ r \in R!Full => \A s \in R!Services : WillRestore(s, R!Plan(r))
         /\ r \in R!Checked => \A b : ChecksFirst(R!Plan(r), b)
<1>1. /\ R!Plan("redeploy") = R!redeploy /\ R!Plan("deploy_remote") = R!deploy_remote
      /\ R!Plan("finish_install") = R!finish_install
      /\ R!Plan("deploy_promo_retry_buttons") = R!deploy_promo_retry_buttons
      /\ R!Plan("deploy_sub_fix") = R!deploy_sub_fix
      /\ R!Plan("deploy_payment_notify_fix") = R!deploy_payment_notify_fix
      /\ R!Plan("deploy_json_no_yandex_bind") = R!deploy_json_no_yandex_bind
      /\ R!Plan("deploy_payment_poll") = R!deploy_payment_poll
      /\ R!Plan("deploy_expiry_reminders") = R!deploy_expiry_reminders
      /\ R!Plan("deploy_fix_finland_sync") = R!deploy_fix_finland_sync
      /\ R!Plan("deploy_promo_delete_fix") = R!deploy_promo_delete_fix
      /\ R!Plan("deploy_keys_ux") = R!deploy_keys_ux
      /\ R!Plan("deploy_keys_fix") = R!deploy_keys_fix
      /\ R!Plan("deploy_fix_manual_key_import") = R!deploy_fix_manual_key_import
      /\ R!Plan("deploy_tg_routing_fix") = R!deploy_tg_routing_fix
      /\ R!Plan("deploy_connect_guide") = R!deploy_connect_guide
      /\ R!Plan("deploy_direct_message") = R!deploy_direct_message
      /\ R!Plan("deploy_renew_expired") = R!deploy_renew_expired
      /\ R!Plan("deploy_fix_expired_feed") = R!deploy_fix_expired_feed
      /\ R!Plan("deploy_broadcast") = R!deploy_broadcast
      /\ R!Plan("deploy_broadcast_fix") = R!deploy_broadcast_fix
      /\ R!Plan("deploy_expired_telegram_only") = R!deploy_expired_telegram_only
      /\ R!Plan("deploy_soft_device_limit") = R!deploy_soft_device_limit
      /\ R!Plan("deploy_expired_renew_nudges") = R!deploy_expired_renew_nudges
      /\ R!Plan("deploy_finland_ru_direct") = R!deploy_finland_ru_direct
      /\ R!Plan("deploy_bot_ui") = R!deploy_bot_ui
      /\ R!Plan("deploy_restore_fix") = R!deploy_restore_fix
      /\ R!Plan("deploy_balance_buy_fix") = R!deploy_balance_buy_fix
      /\ R!Plan("deploy_multi_server") = R!deploy_multi_server
      /\ R!Plan("deploy_multi_server2") = R!deploy_multi_server2
      /\ R!Plan("deploy_imported_subs") = R!deploy_imported_subs
      /\ R!Plan("deploy_sub_keys_fix") = R!deploy_sub_keys_fix
      /\ R!Plan("deploy_telegram_admins") = R!deploy_telegram_admins
      /\ R!Plan("deploy_device_limit_fix") = R!deploy_device_limit_fix
      /\ R!Plan("deploy_profile_keys") = R!deploy_profile_keys
      /\ R!Plan("fix_bot_notifications") = R!fix_bot_notifications
      /\ R!Plan("enable_traffic_stats") = R!enable_traffic_stats
      /\ R!Plan("update_yookassa_env") = R!update_yookassa_env /\ R!Plan("start_bot") = R!start_bot
      /\ R!Plan("setup_services") = R!setup_services
  BY DEF R!Plan
<1>2. r \in {"redeploy", "deploy_remote", "finish_install", "deploy_promo_retry_buttons",
           "deploy_sub_fix", "deploy_payment_notify_fix", "deploy_json_no_yandex_bind",
           "deploy_payment_poll", "deploy_expiry_reminders", "deploy_fix_finland_sync",
           "deploy_promo_delete_fix", "deploy_keys_ux", "deploy_keys_fix",
           "deploy_fix_manual_key_import", "deploy_tg_routing_fix", "deploy_connect_guide",
           "deploy_direct_message", "deploy_renew_expired", "deploy_fix_expired_feed",
           "deploy_broadcast", "deploy_broadcast_fix", "deploy_expired_telegram_only",
           "deploy_soft_device_limit", "deploy_expired_renew_nudges",
           "deploy_finland_ru_direct", "deploy_bot_ui", "deploy_restore_fix",
           "deploy_balance_buy_fix", "deploy_multi_server", "deploy_multi_server2",
           "deploy_imported_subs", "deploy_sub_keys_fix", "deploy_telegram_admins",
           "deploy_device_limit_fix", "deploy_profile_keys", "fix_bot_notifications",
           "enable_traffic_stats", "update_yookassa_env", "start_bot", "setup_services"}
  BY DEF R!Scripts, R!Complete, R!Full, R!Checked, R!Others
<1>3. Sound(R!Plan(r)) /\ (r \notin R!Behind => Supplied(R!Plan(r)))
  <2>1. CASE r \in R!Behind
    BY <1>1, <2>1, PlansAreSound DEF R!Behind
  <2>2. CASE r \notin R!Behind
    <3>1. Supplied(R!Plan(r))
      BY <1>1, <1>2, <2>2, PlansAreSound DEF R!Behind
    <3> QED BY <3>1 DEF Supplied
  <2> QED BY <2>1, <2>2
<1>4. r \in R!Complete \cup R!Full => Covers(R!Plan(r))
  BY <1>1, PlansCover DEF R!Complete, R!Full
<1>5. r \in R!Full => \A s \in R!Services : WillRestore(s, R!Plan(r))
  BY <1>1, PlansCover DEF R!Full
<1>6. ASSUME r \in R!Checked, NEW b PROVE ChecksFirst(R!Plan(r), b)
  BY <1>1, <1>6, PlansCheck DEF R!Checked
<1> QED BY <1>3, <1>4, <1>5, <1>6 DEF Supplied, Sound

-----------------------------------------------------------------------------
(* The state while scripts run.                                            *)

RolloutTypes ==
  /\ R!TypeOK
  /\ stale \in [R!Services -> SUBSET R!Files]
  /\ down \in [R!Services -> R!Scripts \cup {"up", "itself"}]
  /\ todo \in Seq(Steps) /\ (script = "none" => todo = <<>>)

\* Models that are ahead have on the disk what they need, or lag, and are followed
\* by a migration, unless a script has stopped.
Schema ==
  /\ MigratesFirst(todo) /\ (script \notin R!Behind => SuppliesFirst(todo, versions))
  /\ R!ahead => lagging \/ (R!Latest \in versions /\ (stopped \/ WillMigrate(todo)))
  /\ R!SchemaFirst

\* The script restarts every service that has an old copy.
Tidy == script \in R!Full \/ (clean /\ script \in R!Complete)
Renewing ==
  /\ Tidy => Covers(todo) /\ \A s \in R!Services : stale[s] # {} => WillRestore(s, todo)
  /\ R!NoneLeftBehind

\* What a script with a full check restarts is, or will be, checked.
Guarded == (script \in R!Checked => ChecksFirst(todo, broken)) /\ R!CheckedFirst

RolloutInv == RolloutTypes /\ Schema /\ Renewing /\ Guarded

\* No script has the name of a state.
LEMMA Scripted ==
  /\ "none" \notin R!Scripts /\ "up" \notin R!Scripts /\ "itself" \notin R!Scripts
  /\ "none" \notin R!Behind /\ R!Full \subseteq R!Scripts /\ R!Complete \subseteq R!Scripts /\ R!Checked \subseteq R!Scripts
  BY DEF R!Scripts, R!Complete, R!Full, R!Checked, R!Others, R!Behind

\* Nothing comes of an empty script.
LEMMA NothingLeft ==
  /\ <<>> \in Seq(Steps) /\ MigratesFirst(<<>>) /\ ~ WillMigrate(<<>>)
  /\ Covers(<<>>) /\ \A s \in R!Services : ~ WillRestore(s, <<>>)
  /\ \A b : ChecksFirst(<<>>, b) /\ SuppliesFirst(<<>>, b)
<1>1. <<>> \in Seq(Steps) /\ Len(<<>>) = 0 /\ 1 .. 0 = {}
  OBVIOUS
<1> QED BY <1>1 DEF MigratesFirst, SuppliesFirst, WillMigrate, Covers, WillRestore, ChecksFirst

LEMMA RolloutInit ==
  ASSUME R!RolloutAssumption, R!Init
  PROVE  RolloutInv
<1>1. rollouts \in 0 .. MaxRollouts /\ deaths \in 0 .. MaxDeaths
  BY DEF R!RolloutAssumption, R!Init
<1>2. /\ stale \in [R!Services -> SUBSET R!Files] /\ down \in [R!Services -> {"up"}]
      /\ \A s \in R!Services : stale[s] = {} /\ down[s] = "up"
  BY DEF R!Init
<1>0. PICK v \in Deployed : needs = v /\ schema = v /\ versions = 1 .. v
  BY DEF R!Init
<1>8. v \in 1 .. R!Latest /\ v \in 1 .. v /\ 1 .. v \subseteq 1 .. R!Latest
  BY DEF R!RolloutAssumption, R!Latest
<1>3. R!TypeOK
  BY <1>0, <1>1, <1>2, <1>8 DEF R!Init, R!TypeOK
<1>4. RolloutTypes
  BY <1>2, <1>3, NothingLeft DEF R!Init, RolloutTypes
<1>5. Schema
  <2>1. ~ R!ahead
    BY <1>0, <1>8 DEF R!ahead
  <2> QED BY <2>1, NothingLeft DEF R!Init, Schema, R!SchemaFirst
<1>6. Renewing
  BY NothingLeft DEF R!Init, Renewing, Tidy, R!NoneLeftBehind
<1>7. Guarded
  BY Scripted, NothingLeft DEF R!Init, Guarded, R!CheckedFirst
<1> QED BY <1>4, <1>5, <1>6, <1>7 DEF RolloutInv

\* What a step of the script takes from what is left.
LEMMA Stepped ==
  ASSUME RolloutTypes, NEW what, R!Step(what)
  PROVE  /\ todo # <<>> /\ Head(todo).do = what /\ todo' = Tail(todo)
         /\ Head(todo) \in Steps /\ todo' \in Seq(Steps) /\ script \in R!Scripts
  BY TailSteps DEF RolloutTypes, R!TypeOK, R!Step

-----------------------------------------------------------------------------

LEMMA StepTypes ==
  ASSUME R!RolloutAssumption, RolloutTypes, [R!Next]_(R!vars)
  PROVE  RolloutTypes'
<1> USE DEF RolloutTypes, R!TypeOK, R!models
<1>1. ASSUME NEW r \in R!Scripts, R!Begin(r) PROVE RolloutTypes'
  BY <1>1, Planned, Scripted DEF R!Begin, R!RolloutAssumption
<1>2. ASSUME NEW files, R!Copied(files)
      PROVE  /\ stale' \in [R!Services -> SUBSET R!Files]
             /\ \A s \in R!Services : stale'[s] \subseteq R!Loaded[s] \cup R!LoadedLate[s]
  <2>1. \A s \in R!Services : R!Loaded[s] \subseteq R!Files /\ R!LoadedLate[s] \subseteq R!Files
    BY DEF R!Files
  <2> QED BY <1>2, <2>1 DEF R!Copied
<1>3. CASE R!PutFile
  <2>1. todo' \in Seq(Steps) /\ script \in R!Scripts
    BY <1>3, Stepped DEF R!PutFile
  <2>2. R!Copied({Head(todo).file})
    BY <1>3 DEF R!PutFile
  <2>3. needs' \in 1 .. R!Latest /\ lagging' \in BOOLEAN /\ broken' \subseteq Breakable
    BY <1>3 DEF R!PutFile, R!Latest
  <2> QED BY <1>2, <1>3, <2>1, <2>2, <2>3, Scripted DEF R!PutFile
<1>13. CASE R!PutVersionFile
  <2>1. todo' \in Seq(Steps) /\ script \in R!Scripts
    BY <1>13, Stepped DEF R!PutVersionFile
  <2>2. Head(todo) \in Steps /\ Head(todo).do = "put version"
    BY <1>13, Stepped DEF R!PutVersionFile
  <2>3. Head(todo).number \in 1 .. R!Latest
    BY <2>2 DEF Steps
  <2> QED BY <1>13, <2>1, <2>3, Scripted DEF R!PutVersionFile
<1>4. CASE R!PutFiles
  <2>1. todo' \in Seq(Steps) /\ script \in R!Scripts
    BY <1>4, Stepped DEF R!PutFiles
  <2>2. R!Copied(R!Files)
    BY <1>4 DEF R!PutFiles
  <2>3. /\ needs' \in 1 .. R!Latest /\ versions' \subseteq 1 .. R!Latest /\ schema' \in versions'
        /\ broken' \subseteq Breakable
    BY <1>4 DEF R!PutFiles, R!Latest
  <2> QED BY <1>2, <1>4, <2>1, <2>2, <2>3, Scripted DEF R!PutFiles
<1>5. CASE R!Migrated
  <2>1. todo' \in Seq(Steps) /\ script \in R!Scripts
    BY <1>5, Stepped DEF R!Migrated
  <2>2. /\ schema' \in versions' /\ UNCHANGED <<needs, versions>>
        /\ lagging' \in BOOLEAN /\ stopped' \in BOOLEAN /\ alone' \subseteq R!Services
    BY <1>5 DEF R!Migrated
  <2>3. UNCHANGED <<script, stale, broken, down, clean, rollouts, deaths>>
    BY <1>5 DEF R!Migrated
  <2> QED BY <2>1, <2>2, <2>3, Scripted
<1>6. CASE R!NotMigrated
  <2>1. todo' \in Seq(Steps) /\ script \in R!Scripts
    BY <1>6, Stepped DEF R!NotMigrated
  <2> QED BY <1>6, <2>1, Scripted DEF R!NotMigrated
<1>7. CASE R!Passes
  <2>1. todo' \in Seq(Steps) /\ script \in R!Scripts
    BY <1>7, Stepped DEF R!Passes
  <2> QED BY <1>7, <2>1, Scripted DEF R!Passes
<1>8. CASE R!Restarted
  <2>1. todo' \in Seq(Steps) /\ script \in R!Scripts
    BY <1>8, Stepped DEF R!Restarted
  <2>2. \A s \in R!Services : R!Starts(s, script) \in R!Scripts \cup {"up", "itself"}
    BY <2>1 DEF R!Starts
  <2> QED BY <1>8, <2>1, <2>2, Scripted DEF R!Restarted
<1>9. CASE R!Interrupted
  BY <1>9, NothingLeft DEF R!Interrupted, R!Stop
<1>10. CASE R!Ends
  BY <1>10 DEF R!Ends
<1>11. ASSUME NEW s \in R!Services, R!StartsAgain(s) PROVE RolloutTypes'
  <2>1. R!Starts(s, "itself") \in R!Scripts \cup {"up", "itself"}
    BY DEF R!Starts
  <2> QED BY <1>11, <2>1 DEF R!StartsAgain, R!RolloutAssumption
<1>12. CASE UNCHANGED R!vars
  BY <1>12 DEF R!vars
<1> QED BY <1>1, <1>3, <1>4, <1>5, <1>6, <1>7, <1>8, <1>9, <1>10, <1>11, <1>12, <1>13 DEF R!Next

\* A copy of the models is new to every service that runs.
LEMMA CopiedModels ==
  ASSUME RolloutTypes, NEW files, R!Copied(files)
  PROVE  \A s \in R!Services : /\ stale[s] \subseteq stale'[s]
                               /\ "models" \in files => "models" \in stale'[s]
<1>1. \A s \in R!Services : "models" \in R!Loaded[s]
  BY DEF R!Loaded, R!Shared, R!Services
<1> QED BY <1>1 DEF R!Copied

LEMMA StepSchema ==
  ASSUME RolloutTypes, Schema, [R!Next]_(R!vars)
  PROVE  Schema'
<1>0. /\ lagging \in BOOLEAN /\ stopped \in BOOLEAN /\ needs \in 1 .. R!Latest
      /\ versions \subseteq 1 .. R!Latest /\ schema \in versions /\ R!Latest \in Nat
  BY DEF RolloutTypes, R!TypeOK, R!Latest
<1>s. ASSUME UNCHANGED <<needs, schema>> PROVE R!ahead' <=> R!ahead
  BY <1>s DEF R!ahead
<1>1. ASSUME NEW r \in R!Scripts, R!Begin(r) PROVE Schema'
  <2>1. UNCHANGED <<needs, versions, schema, lagging, stopped, stale, alone>>
    BY <1>1 DEF R!Begin, R!models
  <2>2. R!ahead => lagging \/ (R!Latest \in versions /\ stopped)
    BY <1>1, NothingLeft DEF R!Begin, Schema, RolloutTypes
  <2>3. MigratesFirst(todo') /\ (script' \notin R!Behind => SuppliesFirst(todo', versions'))
    BY <1>1, Planned DEF R!Begin
  <2> QED BY <1>s, <2>1, <2>2, <2>3 DEF Schema, R!SchemaFirst
<1>2. ASSUME NEW what, R!Step(what), what \notin {"migrate", "migrate or go on"}
      PROVE  /\ MigratesFirst(todo')
             /\ R!ahead /\ ~ lagging /\ ~ stopped => WillMigrate(todo') /\ what # "restart"
             /\ Brings(Head(todo)) => WillMigrate(todo')
  <2>1. todo # <<>> /\ todo \in Seq(Steps) /\ Head(todo).do = what /\ todo' = Tail(todo)
    BY <1>2, Stepped DEF RolloutTypes
  <2>2. ~ Migrates(Head(todo))
    BY <1>2, <2>1 DEF Migrates
  <2> QED BY <2>1, <2>2, TailMigrates DEF Schema
<1>t. ASSUME NEW what, R!Step(what), script' = script, versions \subseteq versions',
             Supplies(Head(todo)) => R!Latest \in versions'
      PROVE  /\ script' \notin R!Behind => SuppliesFirst(todo', versions')
             /\ script \notin R!Behind /\ BringsAlone(Head(todo)) => R!Latest \in versions
  <2>1. todo # <<>> /\ todo \in Seq(Steps) /\ todo' = Tail(todo)
    BY <1>t, Stepped DEF RolloutTypes
  <2> QED BY <1>t, <2>1, TailSupplies DEF Schema
<1>3. CASE R!PutFile
  <2>1. PICK f : f = Head(todo).file
    OBVIOUS
  <2>2. /\ R!Step("put") /\ R!Copied({f}) /\ UNCHANGED <<script, versions, schema, alone, stopped>>
        /\ needs' = IF f = "models" THEN R!Latest ELSE needs
        /\ lagging' = (lagging \/ (f = "models" /\ script \in R!Behind /\ R!Latest \notin versions))
    BY <1>3, <2>1 DEF R!PutFile
  <2>3. Head(todo).do = "put"
    BY <2>2, Stepped
  <2>4. /\ MigratesFirst(todo') /\ (R!ahead /\ ~ lagging /\ ~ stopped => WillMigrate(todo'))
        /\ f = "models" => WillMigrate(todo')
    BY <1>2, <2>1, <2>2, <2>3 DEF Brings
  <2>5. /\ script' \notin R!Behind => SuppliesFirst(todo', versions')
        /\ script \notin R!Behind /\ f = "models" => R!Latest \in versions
    BY <1>t, <2>1, <2>2, <2>3 DEF Supplies, BringsAlone
  <2>6. \A s \in R!Services : /\ stale[s] \subseteq stale'[s]
                              /\ f = "models" => "models" \in stale'[s]
    BY <2>2, CopiedModels
  <2>7. CASE f = "models"
    BY <2>2, <2>4, <2>5, <2>6, <2>7 DEF Schema, R!SchemaFirst
  <2>8. CASE f # "models"
    <3>1. (R!ahead' <=> R!ahead) /\ lagging' = lagging /\ UNCHANGED <<versions, alone, stopped>>
      BY <1>0, <1>s, <2>2, <2>8
    <3> QED BY <2>4, <2>5, <2>6, <3>1 DEF Schema, R!SchemaFirst
  <2> QED BY <2>7, <2>8
<1>v. CASE R!PutVersionFile
  <2>1. /\ R!Step("put version") /\ versions' = versions \cup {Head(todo).number}
        /\ UNCHANGED <<script, stale, needs, schema, lagging, alone, stopped>>
    BY <1>v DEF R!PutVersionFile
  <2>2. MigratesFirst(todo') /\ (R!ahead /\ ~ lagging /\ ~ stopped => WillMigrate(todo'))
    BY <1>2, <2>1
  <2>3. script' \notin R!Behind => SuppliesFirst(todo', versions')
    BY <1>t, <2>1 DEF Supplies
  <2> QED BY <1>s, <2>1, <2>2, <2>3 DEF Schema, R!SchemaFirst
<1>4. CASE R!PutFiles
  <2>2. /\ R!Step("putall") /\ R!Copied(R!Files) /\ versions' = 1 .. R!Latest
        /\ UNCHANGED <<script, alone, stopped>>
    BY <1>4 DEF R!PutFiles
  <2>1. Head(todo).do = "putall" /\ R!Latest \in versions' /\ versions \subseteq versions'
    BY <1>0, <2>2, Stepped DEF R!Latest
  <2>3. MigratesFirst(todo') /\ WillMigrate(todo')
    BY <1>2, <2>1, <2>2 DEF Brings
  <2>4. script' \notin R!Behind => SuppliesFirst(todo', versions')
    BY <1>t, <2>1, <2>2
  <2>5. \A s \in R!Services : "models" \in stale'[s]
    BY <2>2, CopiedModels, Imported
  <2> QED BY <2>1, <2>3, <2>4, <2>5 DEF Schema, R!SchemaFirst
<1>5. CASE R!Migrated \/ R!NotMigrated
  <2>1. /\ todo # <<>> /\ todo \in Seq(Steps) /\ todo' = Tail(todo)
        /\ UNCHANGED <<script, versions, needs, stale>>
    BY <1>5, Stepped DEF R!Migrated, R!NotMigrated, R!models, RolloutTypes
  <2>2. MigratesFirst(todo')
    BY <2>1, TailMigrates DEF Schema
  <2>3. script' \notin R!Behind => SuppliesFirst(todo', versions')
    <3>2. PICK what \in {"migrate", "migrate or go on"} : R!Step(what)
      BY <1>5 DEF R!Migrated, R!NotMigrated
    <3>1. ~ Supplies(Head(todo))
      BY <3>2, Stepped DEF Supplies
    <3> QED BY <2>1, <3>1, TailSupplies DEF Schema
  <2>4. CASE R!Migrated /\ needs <= schema'
    <3>1. schema' \in versions
      BY <2>4 DEF R!Migrated
    <3>2. ~ R!ahead'
      BY <1>0, <2>1, <2>4, <3>1 DEF R!ahead
    <3> QED BY <2>2, <2>3, <3>2 DEF Schema, R!SchemaFirst
  <2>5. CASE R!Migrated /\ ~ needs <= schema'
    <3>1. /\ schema' \in versions /\ \A n \in versions : n <= schema'
          /\ UNCHANGED <<alone, stopped, lagging>>
      BY <2>5 DEF R!Migrated
    <3>2. R!ahead /\ R!Latest \notin versions
      BY <1>0, <2>5, <3>1 DEF R!ahead
    <3>3. lagging'
      BY <3>1, <3>2 DEF Schema
    <3> QED BY <2>2, <2>3, <3>3 DEF Schema, R!SchemaFirst
  <2>6. CASE R!NotMigrated
    <3>1. stopped' /\ UNCHANGED <<schema, lagging, alone>>
      BY <2>6 DEF R!NotMigrated, R!models
    <3> QED BY <1>s, <2>1, <2>2, <2>3, <3>1 DEF Schema, R!SchemaFirst
  <2> QED BY <1>5, <2>4, <2>5, <2>6
<1>6. CASE R!Passes
  <2>1. /\ R!Step("check")
        /\ UNCHANGED <<script, stale, needs, versions, schema, lagging, alone, stopped>>
    BY <1>6 DEF R!Passes, R!models
  <2>2. script' \notin R!Behind => SuppliesFirst(todo', versions')
    <3>1. Head(todo).do = "check"
      BY <2>1, Stepped
    <3> QED BY <1>t, <2>1, <3>1 DEF Supplies
  <2> QED BY <1>2, <1>s, <2>1, <2>2 DEF Schema, R!SchemaFirst
<1>7. CASE R!Restarted
  <2>1. R!Step("restart") /\ UNCHANGED <<script, needs, versions, schema, lagging, stopped>>
    BY <1>7 DEF R!Restarted, R!models
  <2>2. MigratesFirst(todo') /\ ~ (R!ahead /\ ~ lagging /\ ~ stopped)
    BY <1>2, <2>1
  <2>3. script' \notin R!Behind => SuppliesFirst(todo', versions')
    <3>1. Head(todo).do = "restart"
      BY <2>1, Stepped
    <3> QED BY <1>t, <2>1, <3>1 DEF Supplies
  <2> QED BY <1>s, <2>1, <2>2, <2>3 DEF Schema, R!SchemaFirst
<1>8. CASE R!Interrupted
  <2>1. /\ UNCHANGED <<stale, needs, versions, schema, lagging>> /\ stopped' /\ todo' = <<>>
    BY <1>8 DEF R!Interrupted, R!Stop, R!models
  <2> QED BY <1>s, <2>1, NothingLeft DEF Schema, R!SchemaFirst
<1>9. CASE R!Ends
  <2>1. /\ UNCHANGED <<todo, stale, needs, versions, schema, lagging, alone, stopped>>
        /\ todo' = <<>>
    BY <1>9 DEF R!Ends, R!models
  <2> QED BY <1>s, <2>1, NothingLeft DEF Schema, R!SchemaFirst
<1>10. ASSUME NEW s \in R!Services, R!StartsAgain(s) PROVE Schema'
  <2>1. /\ UNCHANGED <<script, todo, needs, versions, schema, lagging, stopped>>
        /\ alone' = IF R!ahead THEN alone \cup {s} ELSE alone
        /\ stale' = [stale EXCEPT ![s] = {}]
    BY <1>10 DEF R!StartsAgain, R!models
  <2>2. ASSUME NEW t \in R!Services, t # s PROVE stale'[t] = stale[t]
    BY <2>1, <2>2 DEF RolloutTypes
  <2> QED BY <1>s, <2>1, <2>2 DEF Schema, R!SchemaFirst
<1>11. CASE UNCHANGED R!vars
  <2>1. UNCHANGED <<script, todo, stale, needs, versions, schema, lagging, alone, stopped>>
    BY <1>11 DEF R!vars, R!models
  <2> QED BY <1>s, <2>1 DEF Schema, R!SchemaFirst
<1> QED BY <1>1, <1>3, <1>v, <1>4, <1>5, <1>6, <1>7, <1>8, <1>9, <1>10, <1>11 DEF R!Next

LEMMA StepRenewing ==
  ASSUME RolloutTypes, Renewing, [R!Next]_(R!vars)
  PROVE  Renewing'
<1> DEFINE Awaited(new, left) == \A s \in R!Services : new[s] # {} => WillRestore(s, left)
<1>0. Renewing <=> (Tidy => Covers(todo) /\ Awaited(stale, todo)) /\ R!NoneLeftBehind
  BY DEF Renewing
<1>1. Renewing' <=> (Tidy' => Covers(todo') /\ Awaited(stale', todo')) /\ R!NoneLeftBehind'
  BY DEF Renewing
<1>2. ASSUME NEW r \in R!Scripts, R!Begin(r) PROVE Renewing'
  <2>1. /\ script = "none" /\ script' = r /\ todo' = R!Plan(r) /\ stale' = stale
        /\ clean' = clean
    BY <1>2 DEF R!Begin
  <2>2. r \in R!Complete \cup R!Full => Covers(todo')
    BY <2>1, Planned
  <2>3. r \in R!Full => Awaited(stale', todo')
    BY <2>1, Planned
  <2>4. clean => Awaited(stale', todo')
    BY <2>1 DEF Renewing, R!NoneLeftBehind
  <2>5. R!NoneLeftBehind'
    BY <2>1, Scripted DEF R!NoneLeftBehind
  <2>6. Tidy' => r \in R!Complete \cup R!Full /\ (r \in R!Full \/ clean)
    BY <2>1 DEF Tidy
  <2> QED BY <1>1, <2>2, <2>3, <2>4, <2>5, <2>6
<1>3. ASSUME NEW what, R!Step(what), UNCHANGED <<script, clean>>, NEW files,
             \A s \in R!Services :
               stale'[s] \subseteq stale[s] \cup (files \cap (R!Loaded[s] \cup R!LoadedLate[s])),
             \A s \in R!Services :
               files \cap (R!Loaded[s] \cup R!LoadedLate[s]) # {} => Reads(s, Head(todo)),
             what # "restart"
      PROVE  Renewing'
  <2>1. /\ todo # <<>> /\ todo \in Seq(Steps) /\ Head(todo).do = what /\ todo' = Tail(todo)
        /\ script \in R!Scripts
    BY <1>3, Stepped DEF RolloutTypes
  <2>2. ASSUME Tidy PROVE Covers(todo') /\ Awaited(stale', todo')
    <3>1. Covers(todo) /\ Awaited(stale, todo)
      BY <1>0, <2>2
    <3>2. ASSUME NEW s \in R!Services, stale'[s] # {} PROVE WillRestore(s, todo')
      <4>1. ~ Restores(s, Head(todo))
        BY <1>3, <2>1 DEF Restores
      <4>2. CASE stale[s] # {}
        BY <2>1, <3>1, <4>1, <4>2, TailRestores
      <4>3. CASE stale[s] = {}
        <5>1. Reads(s, Head(todo))
          BY <1>3, <3>2, <4>3
        <5> QED BY <2>1, <3>1, <5>1, TailRestores
      <4> QED BY <4>2, <4>3
    <3> QED BY <2>1, <3>1, <3>2, TailCovers
  <2>3. Tidy' <=> Tidy
    BY <1>3 DEF Tidy
  <2>4. R!NoneLeftBehind'
    BY <1>3, <2>1, Scripted DEF R!NoneLeftBehind
  <2> QED BY <1>1, <2>2, <2>3, <2>4
<1>4. CASE R!PutFile
  <2>1. PICK f : f = Head(todo).file
    OBVIOUS
  <2>2. R!Step("put") /\ R!Copied({f}) /\ UNCHANGED <<script, clean>>
    BY <1>4, <2>1 DEF R!PutFile
  <2>3. Head(todo).do = "put"
    BY <2>2, Stepped
  <2>4. \A s \in R!Services :
          stale'[s] \subseteq stale[s] \cup ({f} \cap (R!Loaded[s] \cup R!LoadedLate[s]))
    BY <2>2 DEF R!Copied
  <2>5. \A s \in R!Services : {f} \cap (R!Loaded[s] \cup R!LoadedLate[s]) # {} => Reads(s, Head(todo))
    BY <2>1, <2>3 DEF Reads
  <2> QED BY <1>3, <2>2, <2>4, <2>5
<1>5. CASE R!PutFiles
  <2>2. R!Step("putall") /\ R!Copied(R!Files) /\ UNCHANGED <<script, clean>>
    BY <1>5 DEF R!PutFiles
  <2>3. Head(todo).do = "putall"
    BY <2>2, Stepped
  <2>4. \A s \in R!Services :
          stale'[s] \subseteq stale[s] \cup (R!Files \cap (R!Loaded[s] \cup R!LoadedLate[s]))
    BY <2>2 DEF R!Copied
  <2>5. \A s \in R!Services : R!Files \cap (R!Loaded[s] \cup R!LoadedLate[s]) # {} => Reads(s, Head(todo))
    BY <2>3 DEF Reads
  <2> QED BY <1>3, <2>2, <2>4, <2>5
<1>6. CASE R!Migrated \/ R!NotMigrated \/ R!Passes \/ R!PutVersionFile
  <2>1. PICK what \in {"migrate", "migrate or go on", "check", "put version"} : R!Step(what)
    BY <1>6 DEF R!Migrated, R!NotMigrated, R!Passes, R!PutVersionFile
  <2>2. UNCHANGED <<script, clean, stale>>
    BY <1>6 DEF R!Migrated, R!NotMigrated, R!Passes, R!PutVersionFile
  <2>0. PICK none : none = {}
    OBVIOUS
  <2>3. \A s \in R!Services :
          /\ stale'[s] \subseteq stale[s] \cup (none \cap (R!Loaded[s] \cup R!LoadedLate[s]))
          /\ none \cap (R!Loaded[s] \cup R!LoadedLate[s]) = {}
    BY <2>0, <2>2
  <2> QED BY <1>3, <2>1, <2>2, <2>3
<1>7. CASE R!Restarted
  <2>1. PICK those : those = Head(todo).services
    OBVIOUS
  <2>2. /\ R!Step("restart") /\ UNCHANGED <<script, clean>>
        /\ \A s \in R!Services : stale'[s] = IF s \in those THEN {} ELSE stale[s]
    BY <1>7, <2>1 DEF R!Restarted
  <2>3. /\ todo # <<>> /\ todo \in Seq(Steps) /\ todo' = Tail(todo) /\ script \in R!Scripts
    BY <2>2, Stepped DEF RolloutTypes
  <2>4. ASSUME Tidy PROVE Covers(todo') /\ Awaited(stale', todo')
    <3>1. Covers(todo) /\ Awaited(stale, todo)
      BY <1>0, <2>4
    <3>2. ASSUME NEW s \in R!Services, stale'[s] # {} PROVE WillRestore(s, todo')
      <4>1. stale[s] # {} /\ ~ Restores(s, Head(todo))
        BY <2>1, <2>2, <3>2 DEF Restores
      <4> QED BY <2>3, <3>1, <4>1, TailRestores
    <3> QED BY <2>3, <3>1, <3>2, TailCovers
  <2>5. Tidy' <=> Tidy
    BY <2>2 DEF Tidy
  <2>6. R!NoneLeftBehind'
    BY <2>2, <2>3, Scripted DEF R!NoneLeftBehind
  <2> QED BY <1>1, <2>4, <2>5, <2>6
<1>8. CASE R!Interrupted
  <2>1. ~ Tidy' /\ R!NoneLeftBehind'
    BY <1>8, Scripted DEF R!Interrupted, R!Stop, Tidy, R!NoneLeftBehind
  <2> QED BY <1>1, <2>1
<1>9. CASE R!Ends
  <2>1. /\ todo = <<>> /\ script' = "none" /\ UNCHANGED <<todo, stale>>
        /\ clean' <=> Tidy
    BY <1>9 DEF R!Ends, Tidy
  <2>2. Tidy => \A s \in R!Services : stale[s] = {}
    BY <1>0, <2>1, NothingLeft
  <2>3. Tidy' => Tidy
    BY <2>1, Scripted DEF Tidy
  <2>4. R!NoneLeftBehind'
    BY <2>1, <2>2 DEF R!NoneLeftBehind
  <2>5. Tidy' => Covers(todo') /\ Awaited(stale', todo')
    BY <1>0, <2>1, <2>3
  <2> QED BY <1>1, <2>4, <2>5
<1>10. ASSUME NEW s \in R!Services, R!StartsAgain(s) PROVE Renewing'
  <2>1. UNCHANGED <<script, todo, clean>> /\ stale' = [stale EXCEPT ![s] = {}]
    BY <1>10 DEF R!StartsAgain
  <2>2. \A t \in R!Services : stale'[t] \subseteq stale[t]
    BY <2>1 DEF RolloutTypes
  <2>3. R!NoneLeftBehind'
    BY <2>1, <2>2 DEF Renewing, R!NoneLeftBehind
  <2>4. Tidy' <=> Tidy
    BY <2>1 DEF Tidy
  <2> QED BY <1>0, <1>1, <2>1, <2>2, <2>3, <2>4
<1>11. CASE UNCHANGED R!vars
  <2>1. UNCHANGED <<script, todo, clean, stale>>
    BY <1>11 DEF R!vars
  <2> QED BY <1>0, <1>1, <2>1 DEF Tidy, R!NoneLeftBehind
<1> QED BY <1>2, <1>4, <1>5, <1>6, <1>7, <1>8, <1>9, <1>10, <1>11 DEF R!Next

LEMMA StepGuarded ==
  ASSUME RolloutTypes, Guarded, [R!Next]_(R!vars)
  PROVE  Guarded'
<1>1. ASSUME NEW r \in R!Scripts, R!Begin(r) PROVE Guarded'
  BY <1>1, Planned DEF R!Begin, Guarded, R!CheckedFirst
<1>2. ASSUME NEW what, R!Step(what), UNCHANGED <<script, down>>,
             \/ what \in {"put", "putall"}
             \/ UNCHANGED broken /\ what # "check"
             \/ UNCHANGED broken /\ Head(todo).files \cap broken = {}
      PROVE  Guarded'
  <2>1. /\ todo # <<>> /\ todo \in Seq(Steps) /\ Head(todo).do = what /\ todo' = Tail(todo)
    BY <1>2, Stepped DEF RolloutTypes
  <2>2. \A s \in R!Services : \/ Copies(Head(todo))
                              \/ broken \cap R!Loaded[s] = {} => broken' \cap R!Loaded[s] = {}
    BY <1>2, <2>1 DEF Copies
  <2>3. \A s \in R!Services : Imports(s, Head(todo)) => broken' \cap R!Loaded[s] = {}
    BY <1>2, <2>1 DEF Imports
  <2>4. ChecksFirst(todo, broken) => ChecksFirst(todo', broken')
    BY <2>1, <2>2, <2>3, TailChecks
  <2> QED BY <1>2, <2>4 DEF Guarded, R!CheckedFirst
<1>3. CASE R!PutFile
  BY <1>2, <1>3 DEF R!PutFile
<1>4. CASE R!PutFiles
  BY <1>2, <1>4 DEF R!PutFiles
<1>5. CASE R!Migrated \/ R!NotMigrated \/ R!PutVersionFile
  <2>1. PICK what \in {"migrate", "migrate or go on", "put version"} : R!Step(what)
    BY <1>5 DEF R!Migrated, R!NotMigrated, R!PutVersionFile
  <2> QED BY <1>2, <1>5, <2>1 DEF R!Migrated, R!NotMigrated, R!PutVersionFile
<1>6. CASE R!Passes
  BY <1>2, <1>6 DEF R!Passes
<1>7. CASE R!Restarted
  <2>1. PICK those : those = Head(todo).services
    OBVIOUS
  <2>2. /\ R!Step("restart") /\ UNCHANGED <<script, broken>>
        /\ \A s \in R!Services :
             down'[s] = IF s \in those THEN R!Starts(s, script) ELSE down[s]
    BY <1>7, <2>1 DEF R!Restarted
  <2>3. /\ todo # <<>> /\ todo \in Seq(Steps) /\ Head(todo).do = "restart"
        /\ todo' = Tail(todo) /\ script \in R!Scripts
    BY <2>2, Stepped DEF RolloutTypes
  <2>4. ASSUME script \in R!Checked, NEW s \in R!Services, s \in those
        PROVE  broken \cap R!Loaded[s] = {}
    <3>1. 1 \in 1 .. Len(todo) /\ 1 .. 1 - 1 = {} /\ Restores(s, todo[1])
      BY <2>1, <2>3, <2>4, TailSteps DEF Restores
    <3>2. ChecksFirst(todo, broken)
      BY <2>4 DEF Guarded
    <3> QED BY <3>1, <3>2 DEF ChecksFirst
  <2>5. \A s \in R!Services : down'[s] \notin R!Checked
    BY <2>2, <2>3, <2>4, Scripted DEF R!Starts, Guarded, R!CheckedFirst
  <2>6. ChecksFirst(todo, broken) => ChecksFirst(todo', broken)
    <3>1. \A s \in R!Services : ~ Imports(s, Head(todo))
      BY <2>3 DEF Imports
    <3> QED BY <2>3, <3>1, TailChecks
  <2> QED BY <2>2, <2>5, <2>6 DEF Guarded, R!CheckedFirst
<1>8. CASE R!Interrupted
  BY <1>8, NothingLeft DEF R!Interrupted, R!Stop, Guarded, R!CheckedFirst
<1>9. CASE R!Ends
  BY <1>9, Scripted DEF R!Ends, Guarded, R!CheckedFirst
<1>10. ASSUME NEW s \in R!Services, R!StartsAgain(s) PROVE Guarded'
  <2>1. /\ UNCHANGED <<script, todo, broken>> /\ down' = [down EXCEPT ![s] = R!Starts(s, "itself")]
    BY <1>10 DEF R!StartsAgain
  <2>2. \A t \in R!Services : down'[t] = down[t] \/ down'[t] \in {"up", "itself"}
    BY <2>1 DEF RolloutTypes, R!Starts
  <2> QED BY <2>1, <2>2, Scripted DEF Guarded, R!CheckedFirst
<1>11. CASE UNCHANGED R!vars
  BY <1>11 DEF R!vars, Guarded, R!CheckedFirst
<1> QED BY <1>1, <1>3, <1>4, <1>5, <1>6, <1>7, <1>8, <1>9, <1>10, <1>11 DEF R!Next

LEMMA RolledOut ==
  ASSUME R!RolloutAssumption
  PROVE  R!Spec => []RolloutInv
<1>1. RolloutInv /\ [R!Next]_(R!vars) => RolloutInv'
  BY StepTypes, StepSchema, StepRenewing, StepGuarded DEF RolloutInv
<1> QED BY <1>1, RolloutInit, PTL DEF R!Spec

-----------------------------------------------------------------------------
(* Theorems of the run                                                     *)

\* A behaviour of the run is one of the imports, which may stand still,
LEMMA ImportsPart == ScriptsSpec => I!Spec
<1>1. ScriptsInit => I!Init
  BY DEF ScriptsInit
<1>2. [ScriptsNext]_<<part, vars, imports, rollout>> => [I!Next]_(I!vars)
  BY DEF ScriptsNext, imports, I!vars
<1> QED BY <1>1, <1>2, PTL DEF ScriptsSpec, I!Spec

\* one of the rollouts,
LEMMA RolloutPart == ScriptsSpec => R!Spec
<1>1. ScriptsInit => R!Init
  BY DEF ScriptsInit
<1>2. [ScriptsNext]_<<part, vars, imports, rollout>> => [R!Next]_(R!vars)
  BY DEF ScriptsNext, rollout, R!vars, R!models
<1> QED BY <1>1, <1>2, PTL DEF ScriptsSpec, R!Spec

\* and one of the sync.
LEMMA SyncPart == ScriptsSpec => Spec
<1>1. ScriptsInit => Init
  BY DEF ScriptsInit
<1>2. [ScriptsNext]_<<part, vars, imports, rollout>> => [Next]_vars
  BY DEF ScriptsNext
<1> QED BY <1>1, <1>2, PTL DEF ScriptsSpec, Spec

\* The feed shows the nodes that answered the last refresh, and only those, unless
\* two refreshes of a source overlapped.
THEOREM ImportsShown == ScriptsSpec => []ShownAnswered
<1>1. I!ShownAnswered => ShownAnswered
  BY DEF ShownAnswered
<1> QED BY <1>1, Shows, ImportsPart, PTL

\* However many scripts run, stop half-way or are broken off, and however often
\* services die: none runs models the database lacks, unless it started by itself or
\* a script stopped before the migration, or one of the four scripts of R!Behind has
\* brought the models without the migration they need; and after the scripts that
\* restart all readers of what they copy none runs an old copy.
THEOREM ServicesInStep == ScriptsSpec => []InStep
<1>1. RolloutInv => InStep
  BY DEF RolloutInv, Schema, Renewing, R!InStep, InStep
<1> QED BY <1>1, RolloutsAssumption, RolledOut, RolloutPart, PTL

\* A script whose check imports all that its service does never takes it down,
\* whatever the scripts before it have left on the disk.
THEOREM ChecksProtect == ScriptsSpec => []CheckedFirst
<1>1. RolloutInv => CheckedFirst
  BY DEF RolloutInv, Guarded, CheckedFirst
<1> QED BY <1>1, RolloutsAssumption, RolledOut, RolloutPart, PTL

\* The clients and syncs, the rows and refreshes of imported lists, and what is
\* known of the services and the files, keep their types.
THEOREM ScriptsTypes == ScriptsSpec => []ScriptsTypeOK
<1>1. RolloutInv => R!TypeOK
  BY DEF RolloutInv, RolloutTypes
<1>2. TypeOK /\ I!TypeOK /\ R!TypeOK => ScriptsTypeOK
  BY DEF ScriptsTypeOK
<1> QED BY <1>1, <1>2, TypeCorrect, SyncPart, RolloutsAssumption, RolledOut, RolloutPart,
           ImportTypesHold, ImportsPart, PTL
===============================================================================
