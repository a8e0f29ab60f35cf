-------------------------- MODULE MCWithOthers_proofs --------------------------
(***************************************************************************)
(* What the run of MCWithOthers checks of attribution, the administrator's *)
(* dialogues, the catalogue and the reminders holds for any number of      *)
(* people, links, handlers, names and transactions.  Each part has its     *)
(* inductive invariant; a behaviour of the run is one of every part, which *)
(* may stand still.                                                        *)
(***************************************************************************)
EXTENDS MCWithOthers, FiniteSetTheorems, WellFoundedInduction, TLAPS

-----------------------------------------------------------------------------
(* Attribution                                                             *)

UserRows == [known : BOOLEAN, referrer : People \cup {NoOne}, partner : Links \cup {NoOne}]
LinkRows == [exists : BOOLEAN, active : BOOLEAN, count : Nat]
Steps == {"idle", "done", "resolve", "insert", "inserted", "count", "write", "counted", "written", "migrate"}
AttributionKinds == {"none", "start", "click", "toggle", "delete", "migrate"}
AttributionSteps ==
  [kind : AttributionKinds, at : Steps, who : People \cup {NoOne}, token : People \cup Links \cup {NoOne},
   link : Links \cup {NoOne}, row : UserRows, seen : LinkRows, known : SUBSET (People \X People)]

\* A transaction works on the row that its kind is about.
AttributionWellFormed(r) ==
  /\ r \in AttributionSteps
  /\ r.at = "idle" => r = A!Idle
  /\ r.kind = "start" => r.who \in People
  /\ r.kind \in {"click", "toggle", "delete"} => r.link \in Links
  /\ r.at \in {"count", "write", "counted", "written"} => r.kind \in {"click", "toggle", "delete"}
  /\ r.at = "write" => r.kind # "delete"

AttributionRowTypes ==
  /\ users \in [People -> UserRows] /\ first \in [People -> UserRows]
  /\ \A u \in People : ~ users[u].known => users[u] = A!NoUser
  /\ links \in [Links -> LinkRows] /\ clicks \in [Links -> Nat]
  /\ unseen \subseteq People /\ overlapped \subseteq Links

SessionTypes ==
  /\ attributing \in [Transactions -> AttributionSteps]
  /\ \A s \in Transactions : AttributionWellFormed(attributing[s])

AttributionTypes == AttributionRowTypes /\ SessionTypes /\ migrated \in BOOLEAN

\* What a transaction knows is still so: of the row it will create, of the
\* registrations of a link it will delete, of the rows it will give a referrer,
\* and of the counter it will write.
Knows(r) ==
  /\ r.kind = "start" /\ r.at \in {"insert", "inserted"} =>
       /\ r.row.known /\ r.row.referrer # r.who
       /\ r.row.referrer \in People => users[r.row.referrer].known
  /\ r.kind = "start" /\ r.at = "inserted" => ~ users[r.who].known
  /\ r.kind = "delete" /\ r.at \in {"counted", "written"} =>
       \A u \in People : users[u].partner = r.link => u \in unseen
  /\ r.kind = "migrate" =>
       \A p \in r.known : /\ p[1] # p[2] /\ users[p[1]].known /\ users[p[2]].known
                           /\ first[p[1]].referrer = NoOne
  /\ r.kind = "click" /\ r.link \notin overlapped => r.seen.count = clicks[r.link]

AllKnow == \A s \in Transactions : Knows(attributing[s])

\* The locks, and the clicks that overlap.
Apart ==
  \A s, t \in Transactions : s # t =>
    /\ A!At(s, "start", "inserted") /\ A!At(t, "start", "inserted") => attributing[s].who # attributing[t].who
    /\ A!At(s, "start", "inserted") /\ A!At(t, "delete", "written") => attributing[s].row.partner # attributing[t].link
    /\ attributing[s].kind = "click" /\ attributing[t].kind = "click" /\ attributing[s].link = attributing[t].link =>
         attributing[s].link \in overlapped

ReferrersKnown ==
  \A u \in People : users[u].referrer \in People => users[users[u].referrer].known

CountsKept == \A l \in Links : l \notin overlapped => links[l].count = clicks[l]

Counters ==
  /\ attributions \in 0 .. MaxAttributions /\ \A l \in Links : links[l].count <= attributions
  /\ \A s \in Transactions : attributing[s].kind = "click" => attributing[s].seen.count < attributions

AttributionInv == AttributionTypes /\ AllKnow /\ Apart /\ ReferrersKnown /\ CountsKept /\ A!AttributionKept

LEMMA ConstantRows ==
  /\ A!NoUser \in UserRows /\ ~ A!NoUser.known /\ A!NoUser.partner = NoOne /\ A!NoUser.referrer = NoOne
  /\ A!NewLink \in LinkRows /\ A!NewLink.count = 0
  BY DEF A!NoUser, A!NewLink, UserRows, LinkRows

LEMMA AttributionIdleType == AttributionWellFormed(A!Idle) /\ A!Idle.kind = "none" /\ A!Idle.at = "idle"
<1>1. A!Idle \in AttributionSteps
  BY ConstantRows DEF A!Idle, AttributionSteps, AttributionKinds, Steps
<1> QED BY <1>1 DEF A!Idle, AttributionWellFormed

LEMMA AttributionInitInv == ASSUME A!AttributionAssumption, A!Init PROVE AttributionInv
<1>1. AttributionTypes
  <2>1. AttributionRowTypes
    BY ConstantRows DEF A!Init, AttributionRowTypes
  <2>2. SessionTypes /\ migrated \in BOOLEAN
    BY AttributionIdleType DEF A!Init, SessionTypes, AttributionWellFormed
  <2> QED BY <2>1, <2>2 DEF AttributionTypes
<1>2. AllKnow /\ Apart
  BY AttributionIdleType DEF A!Init, AllKnow, Knows, Apart, A!At
<1>3. \A u \in People : users[u] = A!NoUser
  BY DEF A!Init
<1>4. ReferrersKnown /\ CountsKept
  BY <1>3, ConstantRows DEF A!Init, ReferrersKnown, CountsKept, A!AttributionAssumption
<1>5. A!AttributionKept
  BY <1>3, ConstantRows DEF A!Init, A!AttributionKept, A!NoCircle, A!AttributionAssumption
<1> QED BY <1>1, <1>2, <1>4, <1>5 DEF AttributionInv

\* A transaction that goes on to its next step.
LEMMA Advance ==
  ASSUME NEW r \in AttributionSteps, NEW a \in Steps
  PROVE  LET new == [r EXCEPT !.at = a]
         IN /\ new \in AttributionSteps /\ new.at = a /\ new.kind = r.kind /\ new.who = r.who
            /\ new.token = r.token /\ new.link = r.link /\ new.row = r.row /\ new.seen = r.seen
            /\ new.known = r.known
  BY DEF AttributionSteps

\* Every step changes the record of one transaction.
Changes(s, new) == AttributionWellFormed(new) /\ attributing' = [attributing EXCEPT ![s] = new]

LEMMA ChangesType ==
  ASSUME SessionTypes, NEW s \in Transactions, NEW new, Changes(s, new)
  PROVE  SessionTypes' /\ attributing'[s] = new /\ \A t \in Transactions \ {s} : attributing'[t] = attributing[t]
<1>1. new \in AttributionSteps
  BY DEF Changes, AttributionWellFormed
<1> QED BY <1>1 DEF Changes, SessionTypes

\* Those that touch no other row.
LEMMA QuietStep ==
  ASSUME AttributionInv, NEW s \in Transactions, NEW new, Changes(s, new), UNCHANGED <<users, links, A!history>>,
         Knows(new),
         \A t \in Transactions \ {s} :
           /\ new.kind = "start" /\ new.at = "inserted" =>
                /\ A!At(t, "start", "inserted") => new.who # attributing[t].who
                /\ A!At(t, "delete", "written") => new.row.partner # attributing[t].link
           /\ new.kind = "delete" /\ new.at = "written" /\ A!At(t, "start", "inserted") =>
                attributing[t].row.partner # new.link
           /\ new.kind = "click" /\ attributing[t].kind = "click" /\ new.link = attributing[t].link =>
                new.link \in overlapped
  PROVE  AttributionInv'
<1>1. /\ SessionTypes' /\ attributing'[s] = new /\ (\A t \in Transactions \ {s} : attributing'[t] = attributing[t])
  BY ChangesType DEF AttributionInv, AttributionTypes
<1>2. /\ users' = users /\ links' = links /\ first' = first /\ clicks' = clicks /\ unseen' = unseen
      /\ overlapped' = overlapped /\ migrated' = migrated
  BY DEF A!history
<1>3. AttributionTypes'
  BY <1>1, <1>2 DEF AttributionInv, AttributionTypes, AttributionRowTypes
<1>4. AllKnow'
  BY <1>1, <1>2 DEF AttributionInv, AllKnow, Knows
<1>5. Apart'
  BY <1>1, <1>2 DEF AttributionInv, Apart, A!At
<1>6. ReferrersKnown' /\ CountsKept' /\ A!AttributionKept'
  BY <1>2 DEF AttributionInv, ReferrersKnown, CountsKept, A!AttributionKept, A!NoCircle
<1> QED BY <1>3, <1>4, <1>5, <1>6 DEF AttributionInv

\* A transaction that begins.
LEMMA IdleFields ==
  /\ A!Idle.who = NoOne /\ A!Idle.token = NoOne /\ A!Idle.link = NoOne /\ A!Idle.row = A!NoUser
  /\ A!Idle.seen = A!NewLink /\ A!Idle.known = {} /\ A!Idle \in AttributionSteps
  BY AttributionIdleType DEF A!Idle, AttributionWellFormed

LEMMA AttributionStartInv ==
  ASSUME A!AttributionAssumption, AttributionInv, NEW s \in Transactions, NEW u \in People,
         NEW t \in People \cup Links \cup {NoOne}, A!StartKnown(s, u) \/ A!StartNew(s, u, t)
  PROVE  AttributionInv'
<1>1. CASE A!StartKnown(s, u)
  <2> DEFINE new == [[A!Idle EXCEPT !.who = u, !.at = "done"] EXCEPT !.kind = "start"]
  <2>1. new \in AttributionSteps /\ new.kind = "start" /\ new.at = "done" /\ new.who = u
    BY IdleFields DEF AttributionSteps, AttributionKinds, Steps
  <2>2. attributing' = [attributing EXCEPT ![s] = new] /\ UNCHANGED <<users, links, A!history>>
    BY <1>1 DEF A!StartKnown, A!Begin
  <2> HIDE DEF new
  <2>3. Changes(s, new) /\ Knows(new)
    BY <2>1, <2>2 DEF Changes, AttributionWellFormed, Knows
  <2> QED BY <2>1, <2>2, <2>3, QuietStep
<1>2. CASE A!StartNew(s, u, t)
  <2> DEFINE new == [[A!Idle EXCEPT !.who = u, !.token = t, !.at = "resolve"] EXCEPT !.kind = "start"]
  <2>1. new \in AttributionSteps /\ new.kind = "start" /\ new.at = "resolve" /\ new.who = u
    BY IdleFields DEF AttributionSteps, AttributionKinds, Steps
  <2>2. attributing' = [attributing EXCEPT ![s] = new] /\ UNCHANGED <<users, links, A!history>>
    BY <1>2 DEF A!StartNew, A!Begin
  <2> HIDE DEF new
  <2>3. Changes(s, new) /\ Knows(new)
    BY <2>1, <2>2 DEF Changes, AttributionWellFormed, Knows
  <2> QED BY <2>1, <2>2, <2>3, QuietStep
<1> QED BY <1>1, <1>2

LEMMA ResolveInv ==
  ASSUME A!AttributionAssumption, AttributionInv, NEW s \in Transactions, A!Resolve(s) PROVE AttributionInv'
<1> DEFINE r == attributing[s]
<1> DEFINE row == [known |-> TRUE, referrer |-> A!Referrer(r.who, r.token), partner |-> A!Partner(r.token)]
<1> DEFINE new == [r EXCEPT !.at = "insert", !.row = row]
<1>1. AttributionWellFormed(r) /\ r.kind = "start" /\ r.at = "resolve"
  BY DEF A!Resolve, A!At, AttributionInv, AttributionTypes, SessionTypes
<1>2. /\ row \in UserRows /\ row.known /\ row.referrer # r.who
      /\ row.referrer \in People => users[row.referrer].known
  BY <1>1 DEF A!Referrer, A!Partner, UserRows, AttributionWellFormed, A!AttributionAssumption
<1>3. attributing' = [attributing EXCEPT ![s] = new] /\ UNCHANGED <<users, links, A!history>>
  BY DEF A!Resolve, A!Goto
<1>4. r \in AttributionSteps
  BY <1>1 DEF AttributionWellFormed
<1> HIDE DEF r, row
<1>5. /\ new \in AttributionSteps /\ new.kind = r.kind /\ new.at = "insert" /\ new.who = r.who /\ new.row = row
      /\ new.link = r.link
  BY <1>2, <1>4 DEF AttributionSteps, Steps
<1> HIDE DEF new
<1>6. Changes(s, new) /\ Knows(new)
  BY <1>1, <1>2, <1>3, <1>5 DEF Changes, AttributionWellFormed, Knows
<1> QED BY <1>1, <1>3, <1>5, <1>6, QuietStep

LEMMA InsertInv ==
  ASSUME A!AttributionAssumption, AttributionInv, NEW s \in Transactions, A!Insert(s) PROVE AttributionInv'
<1> DEFINE r == attributing[s]
<1> DEFINE new == [r EXCEPT !.at = "inserted"]
<1>1. AttributionWellFormed(r) /\ Knows(r) /\ r.kind = "start" /\ r.at = "insert"
  BY DEF A!Insert, A!At, AttributionInv, AttributionTypes, SessionTypes, AllKnow
<1>2. /\ attributing' = [attributing EXCEPT ![s] = new] /\ UNCHANGED <<users, links, A!history>>
      /\ ~ users[r.who].known
      /\ \A t \in Transactions \ {s} : ~ (A!At(t, "start", "inserted") /\ attributing[t].who = r.who)
      /\ \A t \in Transactions \ {s} : ~ (A!At(t, "delete", "written") /\ attributing[t].link = r.row.partner)
  BY DEF A!Insert, A!Goto, A!Others
<1>3. r \in AttributionSteps
  BY <1>1 DEF AttributionWellFormed
<1> HIDE DEF r
<1>4. /\ new \in AttributionSteps /\ new.kind = r.kind /\ new.at = "inserted" /\ new.who = r.who /\ new.row = r.row
      /\ new.link = r.link
  BY <1>3, Advance DEF Steps
<1> HIDE DEF new
<1>5. Changes(s, new) /\ Knows(new)
  BY <1>1, <1>2, <1>4 DEF Changes, AttributionWellFormed, Knows
<1> QED BY <1>1, <1>2, <1>4, <1>5, QuietStep

\* A transaction ends without an effect.
LEMMA EndInv ==
  ASSUME AttributionInv, NEW s \in Transactions, A!End(s), UNCHANGED <<users, links, A!history>> PROVE AttributionInv'
<1>1. Changes(s, A!Idle) /\ Knows(A!Idle)
  BY AttributionIdleType DEF A!End, A!Goto, Changes, Knows
<1> QED BY <1>1, AttributionIdleType, QuietStep

LEMMA CountInv ==
  ASSUME A!AttributionAssumption, AttributionInv, NEW s \in Transactions, A!Count(s) PROVE AttributionInv'
<1> DEFINE r == attributing[s]
<1> DEFINE new == [r EXCEPT !.at = "counted"]
<1>1. AttributionWellFormed(r) /\ Knows(r) /\ r.kind = "delete" /\ r.at = "count"
  BY DEF A!Count, A!At, AttributionInv, AttributionTypes, SessionTypes, AllKnow
<1>2. UNCHANGED <<users, links, A!history>>
  BY DEF A!Count
<1>3. CASE A!End(s)
  BY <1>2, <1>3, EndInv
<1>4. CASE {u \in People : users[u].partner = r.link} = {} /\ A!Goto(s, new)
  <2>1. attributing' = [attributing EXCEPT ![s] = new]
    BY <1>4 DEF A!Goto
  <2>2. r \in AttributionSteps
    BY <1>1 DEF AttributionWellFormed
  <2> HIDE DEF r
  <2>3. /\ new \in AttributionSteps /\ new.kind = r.kind /\ new.at = "counted" /\ new.link = r.link
    BY <2>2, Advance DEF Steps
  <2>4. \A u \in People : users[u].partner # r.link
    BY <1>4
  <2> HIDE DEF new
  <2>5. Changes(s, new) /\ Knows(new)
    BY <1>1, <2>1, <2>3, <2>4 DEF Changes, AttributionWellFormed, Knows
  <2> QED BY <1>1, <1>2, <2>3, <2>5, QuietStep
<1> QED BY <1>3, <1>4 DEF A!Count

LEMMA WriteInv ==
  ASSUME A!AttributionAssumption, AttributionInv, NEW s \in Transactions, A!Write(s) PROVE AttributionInv'
<1> DEFINE r == attributing[s]
<1> DEFINE new == [r EXCEPT !.at = "written"]
<1>1. /\ AttributionWellFormed(r) /\ Knows(r) /\ r.at \in {"write", "counted"}
      /\ r.kind \in {"click", "toggle", "delete"}
  BY DEF A!Write, A!Ready, AttributionInv, AttributionTypes, SessionTypes, AllKnow, AttributionWellFormed
<1>2. /\ attributing' = [attributing EXCEPT ![s] = new] /\ UNCHANGED <<users, links, A!history>>
      /\ r.kind = "delete" => A!Registering(r.link) = {}
  BY DEF A!Write, A!Goto
<1>3. r \in AttributionSteps
  BY <1>1 DEF AttributionWellFormed
<1>4. r.kind = "delete" => \A t \in Transactions : A!At(t, "start", "inserted") => attributing[t].row.partner # r.link
  BY <1>2 DEF A!Registering
<1>5. r.kind = "click" => \A t \in Transactions \ {s} :
        attributing[t].kind = "click" /\ attributing[t].link = r.link => r.link \in overlapped
  BY DEF AttributionInv, Apart
<1> HIDE DEF r
<1>6. /\ new \in AttributionSteps /\ new.kind = r.kind /\ new.at = "written" /\ new.link = r.link
      /\ new.seen = r.seen /\ new.known = r.known
  BY <1>3, Advance DEF Steps
<1> HIDE DEF new
<1>7. Changes(s, new) /\ Knows(new)
  BY <1>1, <1>2, <1>6 DEF Changes, AttributionWellFormed, Knows
<1> QED BY <1>1, <1>2, <1>4, <1>5, <1>6, <1>7, QuietStep

LEMMA AttributionFailInv ==
  ASSUME AttributionInv, NEW s \in Transactions, A!InsertFails(s) \/ A!Greet(s) \/ A!WriteFails(s) \/ A!Fail(s) PROVE AttributionInv'
  BY EndInv DEF A!InsertFails, A!Greet, A!WriteFails, A!Fail

LEMMA LoadLinkInv ==
  ASSUME A!AttributionAssumption, AttributionInv, NEW s \in Transactions, NEW l \in Links,
         NEW kind \in {"click", "toggle", "delete"}, A!LoadLink(s, kind, l)
  PROVE  AttributionInv'
<1> DEFINE at == IF kind = "delete" THEN "count" ELSE "write"
<1> DEFINE new == [[A!Idle EXCEPT !.link = l, !.seen = links[l], !.at = at] EXCEPT !.kind = kind]
<1>1. links[l] \in LinkRows
  BY DEF AttributionInv, AttributionTypes, AttributionRowTypes
<1>2. /\ new \in AttributionSteps /\ new.kind = kind /\ new.at = at /\ new.link = l /\ new.seen = links[l]
  BY <1>1, IdleFields, ZenonT(40) DEF AttributionSteps, AttributionKinds, Steps
<1>3. /\ attributing' = [attributing EXCEPT ![s] = new]
      /\ UNCHANGED <<users, links, first, clicks, unseen, migrated>> /\ attributing[s] = A!Idle
      /\ overlapped \subseteq overlapped' /\ overlapped' \subseteq Links
      /\ kind = "click" => \A t \in Transactions :
           attributing[t].kind = "click" /\ attributing[t].link = l => l \in overlapped'
  BY DEF A!LoadLink, A!Begin, AttributionInv, AttributionTypes, AttributionRowTypes
<1> HIDE DEF new
<1>4. Changes(s, new)
  BY <1>2, <1>3 DEF Changes, AttributionWellFormed
<1>5. SessionTypes' /\ attributing'[s] = new /\ \A t \in Transactions \ {s} : attributing'[t] = attributing[t]
  BY <1>4, ChangesType DEF AttributionInv, AttributionTypes
<1>6. AttributionTypes'
  BY <1>3, <1>5 DEF AttributionInv, AttributionTypes, AttributionRowTypes
<1>7. ASSUME NEW t \in Transactions PROVE Knows(attributing[t])'
  <2>1. PICK x : x = new
    OBVIOUS
  <2>2. CASE t = s
    <3>1. x.kind = "click" /\ x.link \notin overlapped' => x.seen.count = clicks'[x.link]
      BY <1>2, <1>3, <2>1 DEF AttributionInv, CountsKept
    <3>2. Knows(x)'
      BY <1>2, <2>1, <3>1 DEF Knows
    <3>3. x = attributing'[t]
      BY <1>5, <2>1, <2>2
    <3> QED BY <3>2, <3>3 DEF Knows
  <2>3. CASE t # s
    BY <1>3, <1>5, <2>3 DEF AttributionInv, AllKnow, Knows
  <2> QED BY <2>2, <2>3
<1>8. AllKnow'
  BY <1>7 DEF AllKnow
<1>9. Apart'
  BY <1>2, <1>3, <1>5 DEF AttributionInv, Apart, A!At
<1>10. ReferrersKnown' /\ CountsKept' /\ A!AttributionKept'
  BY <1>3 DEF AttributionInv, ReferrersKnown, CountsKept, A!AttributionKept, A!NoCircle
<1> QED BY <1>6, <1>8, <1>9, <1>10 DEF AttributionInv

\* A transaction that commits: what the others know must still be so.
LEMMA CommitStep ==
  ASSUME AttributionInv, NEW s \in Transactions, A!End(s), UNCHANGED overlapped, AttributionRowTypes', migrated' \in BOOLEAN,
         \A t \in Transactions \ {s} : Knows(attributing[t])'
  PROVE  AttributionTypes' /\ AllKnow' /\ Apart'
<1>1. Changes(s, A!Idle)
  BY AttributionIdleType DEF A!End, A!Goto, Changes
<1>2. SessionTypes' /\ attributing'[s] = A!Idle /\ \A t \in Transactions \ {s} : attributing'[t] = attributing[t]
  BY <1>1, ChangesType DEF AttributionInv, AttributionTypes
<1>3. AttributionTypes'
  BY <1>2 DEF AttributionTypes
<1>4. Knows(A!Idle)'
  BY AttributionIdleType DEF Knows
<1>5. ASSUME NEW t \in Transactions PROVE Knows(attributing[t])'
  BY <1>2, <1>4 DEF Knows
<1>6. AllKnow'
  BY <1>5 DEF AllKnow
<1>7. Apart'
  BY <1>2, AttributionIdleType DEF AttributionInv, Apart, A!At
<1> QED BY <1>3, <1>6, <1>7

LEMMA ClickInv ==
  ASSUME A!AttributionAssumption, AttributionInv, NEW s \in Transactions, A!Click(s) PROVE AttributionInv'
<1> DEFINE r == attributing[s]
<1>1. AttributionWellFormed(r) /\ Knows(r) /\ r.kind = "click" /\ r.link \in Links /\ r.seen \in LinkRows
  BY DEF A!Click, A!At, AttributionInv, AttributionTypes, SessionTypes, AllKnow, AttributionWellFormed, AttributionSteps
<1>2. /\ links' = [links EXCEPT ![r.link].count = r.seen.count + 1]
      /\ clicks' = [clicks EXCEPT ![r.link] = @ + 1] /\ A!End(s)
      /\ UNCHANGED <<users, first, unseen, overlapped, migrated>>
  BY DEF A!Click
<1>3. \A t \in Transactions \ {s} :
        attributing[t].kind = "click" /\ attributing[t].link = r.link => r.link \in overlapped
  BY <1>1 DEF AttributionInv, Apart
<1> HIDE DEF r
<1>4. /\ links \in [Links -> LinkRows] /\ clicks \in [Links -> Nat]
  BY DEF AttributionInv, AttributionTypes, AttributionRowTypes
<1>5. /\ links' \in [Links -> LinkRows] /\ clicks' \in [Links -> Nat]
      /\ links'[r.link].count = r.seen.count + 1 /\ clicks'[r.link] = clicks[r.link] + 1
      /\ \A l \in Links \ {r.link} : links'[l] = links[l] /\ clicks'[l] = clicks[l]
  BY <1>1, <1>2, <1>4 DEF LinkRows
<1>6. AttributionRowTypes' /\ migrated' \in BOOLEAN
  BY <1>2, <1>5 DEF AttributionInv, AttributionTypes, AttributionRowTypes
<1>7. ASSUME NEW t \in Transactions \ {s} PROVE Knows(attributing[t])'
  <2>1. Knows(attributing[t]) /\ AttributionWellFormed(attributing[t])
    BY DEF AttributionInv, AllKnow, AttributionTypes, SessionTypes
  <2>2. (attributing[t].kind = "click" /\ attributing[t].link \notin overlapped =>
           attributing[t].seen.count = clicks[attributing[t].link])'
    <3>1. PICK x : x = attributing[t] OBVIOUS
    <3>2. x.kind = "click" /\ x.link \notin overlapped' => x.seen.count = clicks'[x.link]
      BY <1>2, <1>3, <1>5, <2>1, <3>1 DEF Knows, AttributionWellFormed
    <3>3. x = attributing'[t]
      BY <1>2, <3>1 DEF A!End, A!Goto, AttributionInv, AttributionTypes, SessionTypes
    <3> QED BY <3>2, <3>3
  <2>3. attributing'[t] = attributing[t]
    BY <1>2 DEF A!End, A!Goto, AttributionInv, AttributionTypes, SessionTypes
  <2> QED BY <1>2, <2>1, <2>2, <2>3 DEF Knows
<1>8. AttributionTypes' /\ AllKnow' /\ Apart'
  BY <1>2, <1>6, <1>7, CommitStep
<1>9. ReferrersKnown' /\ A!AttributionKept'
  BY <1>2 DEF AttributionInv, ReferrersKnown, A!AttributionKept, A!NoCircle
<1>10. CountsKept'
  BY <1>1, <1>2, <1>5 DEF AttributionInv, CountsKept, Knows
<1> QED BY <1>8, <1>9, <1>10 DEF AttributionInv

LEMMA ToggleInv ==
  ASSUME A!AttributionAssumption, AttributionInv, NEW s \in Transactions, A!Toggle(s) PROVE AttributionInv'
<1> DEFINE r == attributing[s]
<1>1. r.link \in Links /\ r.seen \in LinkRows
  BY DEF A!Toggle, A!At, AttributionInv, AttributionTypes, SessionTypes, AttributionWellFormed, AttributionSteps
<1>2. links' = [links EXCEPT ![r.link].active = ~ r.seen.active] /\ A!End(s) /\ UNCHANGED <<users, A!history>>
  BY DEF A!Toggle
<1> HIDE DEF r
<1>3. UNCHANGED <<users, first, clicks, unseen, overlapped, migrated>>
  BY <1>2 DEF A!history
<1>4. links' \in [Links -> LinkRows] /\ \A l \in Links : links'[l].count = links[l].count
  BY <1>1, <1>2 DEF AttributionInv, AttributionTypes, AttributionRowTypes, LinkRows
<1>5. AttributionRowTypes' /\ migrated' \in BOOLEAN
  BY <1>3, <1>4 DEF AttributionInv, AttributionTypes, AttributionRowTypes
<1>6. ASSUME NEW t \in Transactions \ {s} PROVE Knows(attributing[t])'
  <2>1. attributing'[t] = attributing[t]
    BY <1>2 DEF A!End, A!Goto, AttributionInv, AttributionTypes, SessionTypes
  <2> QED BY <1>3, <2>1 DEF AttributionInv, AllKnow, Knows
<1>7. AttributionTypes' /\ AllKnow' /\ Apart'
  BY <1>2, <1>3, <1>5, <1>6, CommitStep
<1>8. ReferrersKnown' /\ CountsKept' /\ A!AttributionKept'
  BY <1>3, <1>4 DEF AttributionInv, ReferrersKnown, CountsKept, A!AttributionKept, A!NoCircle
<1> QED BY <1>7, <1>8 DEF AttributionInv

LEMMA AttributionDeleteInv ==
  ASSUME A!AttributionAssumption, AttributionInv, NEW s \in Transactions, A!Delete(s) PROVE AttributionInv'
<1> DEFINE r == attributing[s]
<1>1. AttributionWellFormed(r) /\ Knows(r) /\ r.kind = "delete" /\ r.at = "written" /\ r.link \in Links
  BY DEF A!Delete, A!At, AttributionInv, AttributionTypes, SessionTypes, AllKnow, AttributionWellFormed
<1>2. /\ links' = [links EXCEPT ![r.link].exists = FALSE]
      /\ users' = [u \in People |->
           IF users[u].partner = r.link THEN [users[u] EXCEPT !.partner = NoOne] ELSE users[u]]
      /\ A!End(s) /\ UNCHANGED A!history
  BY DEF A!Delete
<1> HIDE DEF r
<1>3. UNCHANGED <<first, clicks, unseen, overlapped, migrated>>
  BY <1>2 DEF A!history
<1>4. links' \in [Links -> LinkRows] /\ \A l \in Links : links'[l].count = links[l].count
  BY <1>1, <1>2 DEF AttributionInv, AttributionTypes, AttributionRowTypes, LinkRows
<1>5. /\ users' \in [People -> UserRows]
      /\ \A u \in People :
           /\ users'[u].known = users[u].known /\ users'[u].referrer = users[u].referrer
           /\ users[u].partner = r.link => users'[u].partner = NoOne /\ u \in unseen
           /\ users[u].partner # r.link => users'[u] = users[u]
  <2>1. users \in [People -> UserRows]
    BY DEF AttributionInv, AttributionTypes, AttributionRowTypes
  <2>2. ASSUME NEW u \in People
        PROVE  /\ users'[u] \in UserRows
               /\ users'[u].known = users[u].known /\ users'[u].referrer = users[u].referrer
               /\ users[u].partner = r.link => users'[u].partner = NoOne
               /\ users[u].partner # r.link => users'[u] = users[u]
    BY <1>2, <2>1 DEF UserRows
  <2>3. \A u \in People : users[u].partner = r.link => u \in unseen
    BY <1>1 DEF Knows
  <2> QED BY <1>2, <2>2, <2>3
<1>6. AttributionRowTypes' /\ migrated' \in BOOLEAN
  <2>1. \A u \in People : ~ users'[u].known => users'[u] = A!NoUser
    <3>1. ASSUME NEW u \in People, ~ users'[u].known PROVE users'[u] = A!NoUser
      <4>1. users[u] = A!NoUser
        BY <1>5, <3>1 DEF AttributionInv, AttributionTypes, AttributionRowTypes
      <4>2. users[u].partner # r.link
        BY <1>1, <4>1, ConstantRows DEF A!AttributionAssumption
      <4> QED BY <1>5, <4>1, <4>2
    <3> QED BY <3>1
  <2> QED BY <1>3, <1>4, <1>5, <2>1 DEF AttributionInv, AttributionTypes, AttributionRowTypes
<1>7. ASSUME NEW t \in Transactions \ {s} PROVE Knows(attributing[t])'
  <2>1. Knows(attributing[t]) /\ AttributionWellFormed(attributing[t]) /\ attributing[t] \in AttributionSteps
    BY DEF AttributionInv, AllKnow, AttributionTypes, SessionTypes, AttributionWellFormed
  <2>2. attributing'[t] = attributing[t]
    BY <1>2 DEF A!End, A!Goto, AttributionInv, AttributionTypes, SessionTypes
  <2>3. PICK x : x = attributing[t]
    OBVIOUS
  <2>4. \A p \in x.known : p[1] \in People /\ p[2] \in People
    BY <2>1, <2>3 DEF AttributionSteps
  <2>5. x.kind = "start" => x.who \in People
    BY <2>1, <2>3 DEF AttributionWellFormed
  <2>6. x.row.referrer \in People => users'[x.row.referrer].known = users[x.row.referrer].known
    BY <1>5
  <2>7. x.kind = "start" /\ x.at = "inserted" => ~ users'[x.who].known
    BY <1>5, <2>1, <2>3, <2>5 DEF Knows
  <2>8. x.kind = "delete" /\ x.at \in {"counted", "written"} =>
          \A u \in People : users'[u].partner = x.link => u \in unseen
    BY <1>5, <2>1, <2>3 DEF Knows
  <2>9. x.kind = "migrate" => \A p \in x.known :
          /\ p[1] # p[2] /\ users'[p[1]].known /\ users'[p[2]].known /\ first[p[1]].referrer = NoOne
    BY <1>5, <2>1, <2>3, <2>4 DEF Knows
  <2>10. Knows(x)'
    BY <1>3, <2>1, <2>3, <2>6, <2>7, <2>8, <2>9 DEF Knows
  <2> QED BY <2>2, <2>3, <2>10
<1>8. AttributionTypes' /\ AllKnow' /\ Apart'
  BY <1>2, <1>3, <1>6, <1>7, CommitStep
<1>9. ReferrersKnown' /\ CountsKept'
  BY <1>3, <1>4, <1>5 DEF AttributionInv, ReferrersKnown, CountsKept
<1>10. A!AttributionKept'
  <2>1. \A u \in People :
          users'[u].known =>
            /\ users'[u].partner = first[u].partner \/ u \in unseen
            /\ users'[u].referrer = first[u].referrer \/ (migrated /\ first[u].referrer = NoOne)
    BY <1>5 DEF AttributionInv, A!AttributionKept
  <2>2. \A u \in People : users'[u].referrer # u
    BY <1>5 DEF AttributionInv, A!AttributionKept
  <2>3. ~ migrated => A!NoCircle'
    BY <1>5 DEF AttributionInv, A!AttributionKept, A!NoCircle
  <2> QED BY <1>3, <2>1, <2>2, <2>3 DEF A!AttributionKept
<1> QED BY <1>8, <1>9, <1>10 DEF AttributionInv

\* A circle would pass through the new customer, whom nobody can have named.
LEMMA RegisterInv ==
  ASSUME A!AttributionAssumption, AttributionInv, NEW s \in Transactions, A!Register(s) PROVE AttributionInv'
<1> DEFINE r == attributing[s]
<1>1. /\ AttributionWellFormed(r) /\ Knows(r) /\ r.kind = "start" /\ r.at = "inserted" /\ r.who \in People
      /\ r.row \in UserRows
  BY DEF A!Register, A!At, AttributionInv, AttributionTypes, SessionTypes, AllKnow, AttributionWellFormed, AttributionSteps
<1>2. PICK who \in People, row \in UserRows : who = r.who /\ row = r.row
  BY <1>1
<1>3. /\ row.known /\ row.referrer # who /\ ~ users[who].known
      /\ row.referrer \in People => users[row.referrer].known
  BY <1>1, <1>2 DEF Knows
<1>4. /\ users' = [users EXCEPT ![who] = row] /\ first' = [first EXCEPT ![who] = row]
      /\ unseen \subseteq unseen' /\ unseen' \subseteq unseen \cup {who}
      /\ \A t \in Transactions : A!At(t, "delete", "counted") /\ attributing[t].link = row.partner => who \in unseen'
      /\ A!End(s) /\ UNCHANGED <<links, clicks, overlapped, migrated>>
  BY <1>2 DEF A!Register
<1>5. \A t \in Transactions \ {s} :
        /\ A!At(t, "start", "inserted") => attributing[t].who # who
        /\ A!At(t, "delete", "written") => attributing[t].link # row.partner
  BY <1>1, <1>2 DEF AttributionInv, Apart, A!At
<1> HIDE DEF r
<1>6. /\ users' \in [People -> UserRows] /\ first' \in [People -> UserRows]
      /\ users'[who] = row /\ first'[who] = row
      /\ \A u \in People \ {who} : users'[u] = users[u] /\ first'[u] = first[u]
  BY <1>4 DEF AttributionInv, AttributionTypes, AttributionRowTypes
<1>7. \A u \in People : users[u].referrer # who
  BY <1>3 DEF AttributionInv, ReferrersKnown
<1>8. AttributionRowTypes' /\ migrated' \in BOOLEAN
  BY <1>3, <1>4, <1>6 DEF AttributionInv, AttributionTypes, AttributionRowTypes
<1>9. ASSUME NEW t \in Transactions \ {s} PROVE Knows(attributing[t])'
  <2>1. Knows(attributing[t]) /\ AttributionWellFormed(attributing[t]) /\ attributing[t] \in AttributionSteps
    BY DEF AttributionInv, AllKnow, AttributionTypes, SessionTypes, AttributionWellFormed
  <2>2. attributing'[t] = attributing[t]
    BY <1>4 DEF A!End, A!Goto, AttributionInv, AttributionTypes, SessionTypes
  <2>3. PICK x : x = attributing[t]
    OBVIOUS
  <2>4. \A p \in x.known : p[1] \in People /\ p[2] \in People
    BY <2>1, <2>3 DEF AttributionSteps
  <2>5. x.kind = "start" /\ x.at \in {"insert", "inserted"} =>
          /\ x.row.known /\ x.row.referrer # x.who
          /\ x.row.referrer \in People => users'[x.row.referrer].known
    BY <1>3, <1>6, <2>1, <2>3 DEF Knows
  <2>6. x.kind = "start" /\ x.at = "inserted" => ~ users'[x.who].known
    BY <1>5, <1>6, <2>1, <2>3 DEF Knows, AttributionWellFormed, A!At
  <2>7. x.kind = "delete" /\ x.at \in {"counted", "written"} =>
          \A u \in People : users'[u].partner = x.link => u \in unseen'
    BY <1>4, <1>5, <1>6, <2>1, <2>3 DEF Knows, A!At
  <2>8. x.kind = "migrate" => \A p \in x.known :
          /\ p[1] # p[2] /\ users'[p[1]].known /\ users'[p[2]].known /\ first'[p[1]].referrer = NoOne
    BY <1>3, <1>6, <2>1, <2>3, <2>4 DEF Knows
  <2>9. x.kind = "click" /\ x.link \notin overlapped' => x.seen.count = clicks'[x.link]
    BY <1>4, <2>1, <2>3 DEF Knows
  <2>10. Knows(x)'
    BY <2>5, <2>6, <2>7, <2>8, <2>9 DEF Knows
  <2> QED BY <2>2, <2>3, <2>10 DEF Knows
<1>10. AttributionTypes' /\ AllKnow' /\ Apart'
  BY <1>4, <1>8, <1>9, CommitStep
<1>11. ReferrersKnown' /\ CountsKept'
  BY <1>3, <1>4, <1>6 DEF AttributionInv, ReferrersKnown, CountsKept
<1>12. A!AttributionKept'
  <2>1. \A u \in People :
          users'[u].known =>
            /\ users'[u].partner = first'[u].partner \/ u \in unseen'
            /\ users'[u].referrer = first'[u].referrer \/ (migrated /\ first'[u].referrer = NoOne)
    BY <1>4, <1>6 DEF AttributionInv, A!AttributionKept
  <2>2. \A u \in People : users'[u].referrer # u
    BY <1>3, <1>6 DEF AttributionInv, A!AttributionKept
  <2>3. ASSUME ~ migrated, NEW group \in (SUBSET People) \ {{}}
        PROVE  \E u \in group : users'[u].referrer \notin group
    <3>1. CASE group \subseteq {who}
      BY <1>3, <1>6, <3>1
    <3>2. CASE ~ group \subseteq {who}
      <4>1. group \ {who} \in (SUBSET People) \ {{}}
        BY <3>2
      <4>2. PICK u \in group \ {who} : users[u].referrer \notin group \ {who}
        BY <2>3, <4>1 DEF AttributionInv, A!AttributionKept, A!NoCircle
      <4> QED BY <1>6, <1>7, <4>2
    <3> QED BY <3>1, <3>2
  <2>4. ~ migrated => A!NoCircle'
    BY <2>3 DEF A!NoCircle
  <2> QED BY <1>4, <2>1, <2>2, <2>4 DEF A!AttributionKept
<1> QED BY <1>10, <1>11, <1>12 DEF AttributionInv

LEMMA MigrateInv ==
  ASSUME A!AttributionAssumption, AttributionInv, NEW s \in Transactions, NEW dry \in BOOLEAN, A!Migrate(s, dry)
  PROVE  AttributionInv'
<1> DEFINE pairs == {p \in Legacy : p[1] # p[2] /\ users[p[2]].known /\ A!Unreferred(users[p[1]])}
<1> DEFINE known == IF dry THEN {} ELSE pairs
<1> DEFINE new == [[A!Idle EXCEPT !.at = "migrate", !.known = known] EXCEPT !.kind = "migrate"]
<1>1. known \subseteq People \X People
  BY DEF A!AttributionAssumption
<1>2. attributing' = [attributing EXCEPT ![s] = new] /\ UNCHANGED <<users, links, A!history>>
  BY DEF A!Migrate, A!Begin
<1>3. ASSUME NEW p \in known
      PROVE  p[1] # p[2] /\ users[p[1]].known /\ users[p[2]].known /\ first[p[1]].referrer = NoOne
  <2>1. /\ p[1] \in People /\ p[1] # p[2] /\ users[p[2]].known /\ users[p[1]].known
        /\ users[p[1]].referrer = NoOne
    BY DEF A!AttributionAssumption, A!Unreferred
  <2>2. first[p[1]].referrer = NoOne
    BY <2>1 DEF AttributionInv, A!AttributionKept
  <2> QED BY <2>1, <2>2
<1> HIDE DEF known
<1>4. /\ new \in AttributionSteps /\ new.kind = "migrate" /\ new.at = "migrate" /\ new.known = known
  BY <1>1, IdleFields DEF AttributionSteps, AttributionKinds, Steps
<1> HIDE DEF new
<1>5. Changes(s, new) /\ Knows(new)
  BY <1>2, <1>3, <1>4 DEF Changes, AttributionWellFormed, Knows
<1> QED BY <1>2, <1>4, <1>5, QuietStep

LEMMA MigrateCommitInv ==
  ASSUME A!AttributionAssumption, AttributionInv, NEW s \in Transactions, A!MigrateCommit(s) PROVE AttributionInv'
<1> DEFINE pairs == attributing[s].known
<1> DEFINE named == {u \in People : \E p \in pairs : p[1] = u}
<1> DEFINE by(u) == (CHOOSE p \in pairs : p[1] = u)[2]
<1>1. /\ pairs \subseteq People \X People
      /\ \A p \in pairs : /\ p[1] # p[2] /\ users[p[1]].known /\ users[p[2]].known
                          /\ first[p[1]].referrer = NoOne
  BY DEF A!MigrateCommit, A!At, AttributionInv, AttributionTypes, SessionTypes, AllKnow, Knows, AttributionSteps
<1>2. /\ users' = [u \in People |->
            IF \E p \in pairs : p[1] = u THEN [users[u] EXCEPT !.referrer = by(u)] ELSE users[u]]
      /\ migrated' = (migrated \/ pairs # {}) /\ A!End(s)
      /\ UNCHANGED <<links, first, clicks, unseen, overlapped>>
  BY DEF A!MigrateCommit
<1>3. ASSUME NEW u \in named
      PROVE  /\ by(u) \in People /\ by(u) # u /\ users[u].known /\ users[by(u)].known
             /\ first[u].referrer = NoOne
  <2>1. PICK p \in pairs : p[1] = u
    OBVIOUS
  <2>2. (CHOOSE q \in pairs : q[1] = u) \in pairs /\ (CHOOSE q \in pairs : q[1] = u)[1] = u
    BY <2>1
  <2> QED BY <1>1, <2>2
<1> HIDE DEF by
<1>4. /\ users' \in [People -> UserRows]
      /\ \A u \in People :
           /\ users'[u].known = users[u].known /\ users'[u].partner = users[u].partner
           /\ u \in named => users'[u].referrer = by(u)
           /\ u \notin named => users'[u] = users[u]
  <2>1. users \in [People -> UserRows]
    BY DEF AttributionInv, AttributionTypes, AttributionRowTypes
  <2>2. ASSUME NEW u \in People
        PROVE  /\ users'[u] \in UserRows
               /\ users'[u].known = users[u].known /\ users'[u].partner = users[u].partner
               /\ u \in named => users'[u].referrer = by(u)
               /\ u \notin named => users'[u] = users[u]
    <3>1. users[u] \in UserRows
      BY <2>1
    <3>2. CASE u \in named
      <4>1. users'[u] = [users[u] EXCEPT !.referrer = by(u)] /\ by(u) \in People
        BY <1>2, <1>3, <3>2
      <4> QED BY <3>1, <3>2, <4>1 DEF UserRows
    <3>3. CASE u \notin named
      BY <1>2, <3>1, <3>3
    <3> QED BY <3>2, <3>3
  <2> QED BY <1>2, <2>2
<1>5. named # {} => migrated'
  BY <1>2
<1>6. named = {} => pairs = {}
  BY <1>1
<1>7. named \subseteq People
  OBVIOUS
<1> HIDE DEF pairs, named
<1>8. AttributionRowTypes' /\ migrated' \in BOOLEAN
  <2>1. \A u \in People : ~ users'[u].known => users'[u] = A!NoUser
    BY <1>3, <1>4 DEF AttributionInv, AttributionTypes, AttributionRowTypes
  <2> QED BY <1>2, <1>4, <2>1 DEF AttributionInv, AttributionTypes, AttributionRowTypes
<1>9. ASSUME NEW t \in Transactions \ {s} PROVE Knows(attributing[t])'
  <2>1. Knows(attributing[t]) /\ AttributionWellFormed(attributing[t]) /\ attributing[t] \in AttributionSteps
    BY DEF AttributionInv, AllKnow, AttributionTypes, SessionTypes, AttributionWellFormed
  <2>2. attributing'[t] = attributing[t]
    BY <1>2 DEF A!End, A!Goto, AttributionInv, AttributionTypes, SessionTypes
  <2>3. PICK x : x = attributing[t]
    OBVIOUS
  <2>4. \A p \in x.known : p[1] \in People /\ p[2] \in People
    BY <2>1, <2>3 DEF AttributionSteps
  <2>5. x.kind = "start" /\ x.at \in {"insert", "inserted"} =>
          /\ x.row.known /\ x.row.referrer # x.who
          /\ x.row.referrer \in People => users'[x.row.referrer].known
    BY <1>4, <2>1, <2>3 DEF Knows
  <2>6. x.kind = "start" /\ x.at = "inserted" => ~ users'[x.who].known
    BY <1>4, <2>1, <2>3 DEF Knows, AttributionWellFormed
  <2>7. x.kind = "delete" /\ x.at \in {"counted", "written"} =>
          \A u \in People : users'[u].partner = x.link => u \in unseen
    BY <1>4, <2>1, <2>3 DEF Knows
  <2>8. x.kind = "migrate" => \A p \in x.known :
          /\ p[1] # p[2] /\ users'[p[1]].known /\ users'[p[2]].known /\ first[p[1]].referrer = NoOne
    BY <1>4, <2>1, <2>3, <2>4 DEF Knows
  <2>9. x.kind = "click" /\ x.link \notin overlapped => x.seen.count = clicks[x.link]
    BY <2>1, <2>3 DEF Knows
  <2>10. Knows(x)'
    BY <1>2, <2>5, <2>6, <2>7, <2>8, <2>9 DEF Knows
  <2> QED BY <2>2, <2>3, <2>10 DEF Knows
<1>10. AttributionTypes' /\ AllKnow' /\ Apart'
  BY <1>2, <1>8, <1>9, CommitStep
<1>11. ReferrersKnown' /\ CountsKept'
  <2>1. ASSUME NEW u \in People, users'[u].referrer \in People
        PROVE  users'[users'[u].referrer].known
    <3>1. CASE u \in named
      BY <1>3, <1>4, <3>1
    <3>2. CASE u \notin named
      <4>1. users[u].referrer = users'[u].referrer /\ users[users[u].referrer].known
        BY <1>4, <2>1, <3>2 DEF AttributionInv, ReferrersKnown
      <4> QED BY <1>4, <2>1, <4>1
    <3> QED BY <3>1, <3>2
  <2> QED BY <1>2, <2>1 DEF AttributionInv, ReferrersKnown, CountsKept
<1>12. A!AttributionKept'
  <2>1. ASSUME NEW u \in People, users'[u].known
        PROVE  /\ users'[u].partner = first[u].partner \/ u \in unseen
               /\ users'[u].referrer = first[u].referrer \/ (migrated' /\ first[u].referrer = NoOne)
    <3>1. /\ users[u].partner = first[u].partner \/ u \in unseen
          /\ users[u].referrer = first[u].referrer \/ (migrated /\ first[u].referrer = NoOne)
      BY <1>4, <2>1 DEF AttributionInv, A!AttributionKept
    <3>2. users'[u].partner = first[u].partner \/ u \in unseen
      BY <1>4, <3>1
    <3>3. CASE u \in named
      BY <1>3, <1>5, <3>2, <3>3
    <3>4. CASE u \notin named
      BY <1>2, <1>4, <3>1, <3>2, <3>4
    <3> QED BY <3>2, <3>3, <3>4
  <2>2. \A u \in People : users'[u].referrer # u
    BY <1>3, <1>4 DEF AttributionInv, A!AttributionKept
  <2>3. ~ migrated' => A!NoCircle'
    BY <1>2, <1>4, <1>5, <1>7 DEF AttributionInv, A!AttributionKept, A!NoCircle
  <2> QED BY <1>2, <2>1, <2>2, <2>3 DEF A!AttributionKept
<1> QED BY <1>10, <1>11, <1>12 DEF AttributionInv

LEMMA AttributionStepInv ==
  ASSUME A!AttributionAssumption, AttributionInv, [A!Next]_(A!vars) PROVE AttributionInv'
<1>1. CASE UNCHANGED A!vars
  BY <1>1 DEF A!vars, A!history, AttributionInv, AttributionTypes, AttributionRowTypes, SessionTypes, AllKnow, Knows, Apart, A!At,
     ReferrersKnown, CountsKept, A!AttributionKept, A!NoCircle
<1>2. CASE A!Next
  <2>1. PICK s \in Transactions :
          \/ \E u \in People :
               A!StartKnown(s, u) \/ \E t \in People \cup Links \cup {NoOne} : A!StartNew(s, u, t)
          \/ A!Resolve(s) \/ A!Insert(s) \/ A!InsertFails(s) \/ A!Register(s) \/ A!Greet(s)
          \/ \E l \in Links, kind \in {"click", "toggle", "delete"} : A!LoadLink(s, kind, l)
          \/ A!Count(s) \/ A!Write(s) \/ A!WriteFails(s) \/ A!Click(s) \/ A!Toggle(s) \/ A!Delete(s)
          \/ \E dry \in BOOLEAN : A!Migrate(s, dry)
          \/ A!MigrateCommit(s) \/ A!Fail(s)
    BY <1>2 DEF A!Next
  <2> QED BY <2>1, AttributionStartInv, ResolveInv, InsertInv, AttributionFailInv, RegisterInv, LoadLinkInv, CountInv,
             WriteInv, ClickInv, ToggleInv, AttributionDeleteInv, MigrateInv, MigrateCommitInv
<1> QED BY <1>1, <1>2

\* No counter passes the number of operations.
LEMMA InitCounters == ASSUME A!AttributionAssumption, A!Init PROVE Counters
  BY ConstantRows, AttributionIdleType DEF A!Init, Counters, A!AttributionAssumption

LEMMA StepCounters ==
  ASSUME A!AttributionAssumption, AttributionInv, Counters, [A!Next]_(A!vars) PROVE Counters'
<1> USE DEF Counters
<1>1. /\ links \in [Links -> LinkRows] /\ attributing \in [Transactions -> AttributionSteps] /\ MaxAttributions \in Nat
      /\ \A t \in Transactions : AttributionWellFormed(attributing[t])
  BY DEF AttributionInv, AttributionTypes, AttributionRowTypes, SessionTypes, A!AttributionAssumption
<1>2. CASE UNCHANGED A!vars
  BY <1>2 DEF A!vars
\* Only Begin counts, and only Click writes a counter.
<1>3. ASSUME NEW s \in Transactions, NEW r, attributing' = [attributing EXCEPT ![s] = r],
             attributions' \in 0 .. MaxAttributions /\ attributions <= attributions', r.kind = "click" => r.seen.count < attributions',
             \A l \in Links : links'[l].count <= attributions'
      PROVE  Counters'
  <2>1. \A l \in Links : links[l].count \in Nat
    BY <1>1 DEF LinkRows
  <2>2. ASSUME NEW t \in Transactions, attributing'[t].kind = "click" PROVE attributing'[t].seen.count < attributions'
    <3>1. CASE t = s
      BY <1>1, <1>3, <2>2, <3>1
    <3>2. CASE t # s
      <4>1. attributing'[t] = attributing[t] /\ attributing[t].seen.count < attributions /\ attributing[t].seen.count \in Nat
        BY <1>1, <1>3, <2>2, <3>2 DEF AttributionSteps, LinkRows
      <4> QED BY <1>3, <4>1
    <3> QED BY <3>1, <3>2
  <2> QED BY <1>3, <2>2
<1>4. ASSUME NEW s \in Transactions, NEW r, A!Goto(s, r), UNCHANGED links,
             r.kind = "click" => attributing[s].kind = "click" /\ r.seen = attributing[s].seen
      PROVE  Counters'
  BY <1>3, <1>4 DEF A!Goto
<1>5. ASSUME NEW s \in Transactions, NEW r, NEW kind, A!Begin(s, kind, r), UNCHANGED links,
             r \in AttributionSteps,
             kind = "click" => r.seen.count <= attributions /\ r.seen.count \in Nat
      PROVE  Counters'
  <2> DEFINE new == [r EXCEPT !.kind = kind]
  <2>1. attributing' = [attributing EXCEPT ![s] = new] /\ attributions' = attributions + 1 /\ attributions < MaxAttributions
    BY <1>5 DEF A!Begin
  <2>2. new.kind = kind /\ new.seen = r.seen
    BY <1>5 DEF AttributionSteps
  <2>3. \A l \in Links : links'[l].count <= attributions'
    BY <1>1, <1>5, <2>1 DEF LinkRows
  <2>4. attributions' \in 0 .. MaxAttributions /\ attributions <= attributions'
    BY <1>1, <2>1
  <2>5. new.kind = "click" => new.seen.count < attributions'
    BY <1>5, <2>1, <2>2
  <2> HIDE DEF new
  <2> QED BY <1>3, <2>1, <2>3, <2>4, <2>5
<1>6. CASE A!Next
  <2>1. PICK s \in Transactions :
          \/ \E u \in People :
               A!StartKnown(s, u) \/ \E t \in People \cup Links \cup {NoOne} : A!StartNew(s, u, t)
          \/ A!Resolve(s) \/ A!Insert(s) \/ A!InsertFails(s) \/ A!Register(s) \/ A!Greet(s)
          \/ \E l \in Links, kind \in {"click", "toggle", "delete"} : A!LoadLink(s, kind, l)
          \/ A!Count(s) \/ A!Write(s) \/ A!WriteFails(s) \/ A!Click(s) \/ A!Toggle(s) \/ A!Delete(s)
          \/ \E dry \in BOOLEAN : A!Migrate(s, dry)
          \/ A!MigrateCommit(s) \/ A!Fail(s)
    BY <1>6 DEF A!Next
  <2>2. A!End(s) /\ UNCHANGED links => Counters'
    BY <1>4, AttributionIdleType DEF A!End
  <2>3. CASE A!InsertFails(s) \/ A!Register(s) \/ A!Greet(s) \/ A!WriteFails(s) \/ A!MigrateCommit(s) \/ A!Fail(s)
    BY <2>2, <2>3 DEF A!InsertFails, A!Register, A!Greet, A!WriteFails, A!MigrateCommit, A!Fail
  <2>4. CASE \E u \in People :
               A!StartKnown(s, u) \/ \E t \in People \cup Links \cup {NoOne} : A!StartNew(s, u, t)
    <3>1. PICK u \in People :
               A!StartKnown(s, u) \/ \E t \in People \cup Links \cup {NoOne} : A!StartNew(s, u, t)
      BY <2>4
    <3>2. CASE A!StartKnown(s, u)
      <4> DEFINE r == [A!Idle EXCEPT !.who = u, !.at = "done"]
      <4>1. r \in AttributionSteps
        BY IdleFields DEF AttributionSteps, Steps
      <4>2. A!Begin(s, "start", r) /\ UNCHANGED links
        BY <3>2 DEF A!StartKnown
      <4> HIDE DEF r
      <4> QED BY <1>5, <4>1, <4>2
    <3>3. ASSUME NEW t \in People \cup Links \cup {NoOne}, A!StartNew(s, u, t) PROVE Counters'
      <4> DEFINE r == [A!Idle EXCEPT !.who = u, !.token = t, !.at = "resolve"]
      <4>1. r \in AttributionSteps
        BY IdleFields DEF AttributionSteps, Steps
      <4>2. A!Begin(s, "start", r) /\ UNCHANGED links
        BY <3>3 DEF A!StartNew
      <4> HIDE DEF r
      <4> QED BY <1>5, <4>1, <4>2
    <3> QED BY <3>1, <3>2, <3>3
  <2>5. ASSUME NEW l \in Links, NEW kind \in {"click", "toggle", "delete"}, A!LoadLink(s, kind, l)
        PROVE  Counters'
    <3> DEFINE at == IF kind = "delete" THEN "count" ELSE "write"
    <3> DEFINE r == [A!Idle EXCEPT !.link = l, !.seen = links[l], !.at = at]
    <3>1. r \in AttributionSteps /\ r.seen = links[l]
      BY <1>1, IdleFields DEF AttributionSteps, Steps
    <3>2. A!Begin(s, kind, r) /\ UNCHANGED links
      BY <2>5 DEF A!LoadLink
    <3>3. links[l].count <= attributions /\ links[l].count \in Nat
      BY <1>1 DEF LinkRows
    <3> HIDE DEF r
    <3> QED BY <1>5, <3>1, <3>2, <3>3
  <2>6. ASSUME NEW dry \in BOOLEAN, A!Migrate(s, dry) PROVE Counters'
    <3> DEFINE pairs == {p \in Legacy : p[1] # p[2] /\ users[p[2]].known /\ A!Unreferred(users[p[1]])}
    <3> DEFINE r == [A!Idle EXCEPT !.at = "migrate", !.known = IF dry THEN {} ELSE pairs]
    <3>1. r \in AttributionSteps
      BY IdleFields DEF AttributionSteps, Steps, A!AttributionAssumption
    <3>2. A!Begin(s, "migrate", r) /\ UNCHANGED links
      BY <2>6 DEF A!Migrate
    <3> HIDE DEF r
    <3> QED BY <1>5, <3>1, <3>2
  <2>7. CASE A!Resolve(s) \/ A!Insert(s) \/ A!Count(s) \/ A!Write(s)
    <3>1. CASE A!Count(s) /\ A!End(s)
      BY <2>2, <3>1 DEF A!Count
    <3> DEFINE r == attributing[s]
    <3>2. r \in AttributionSteps
      BY <1>1
    <3>3. CASE A!Resolve(s)
      <4> DEFINE row == [known |-> TRUE, referrer |-> A!Referrer(r.who, r.token), partner |-> A!Partner(r.token)]
      <4>1. A!Goto(s, [r EXCEPT !.at = "insert", !.row = row]) /\ UNCHANGED links
        BY <3>3 DEF A!Resolve
      <4>2. [r EXCEPT !.at = "insert", !.row = row].kind = r.kind /\ [r EXCEPT !.at = "insert", !.row = row].seen = r.seen
        BY <3>2 DEF AttributionSteps
      <4> QED BY <1>4, <4>1, <4>2
    <3>4. \A a \in Steps : A!Goto(s, [r EXCEPT !.at = a]) /\ UNCHANGED links => Counters'
      <4>1. \A a \in Steps : [r EXCEPT !.at = a].kind = r.kind /\ [r EXCEPT !.at = a].seen = r.seen
        BY <3>2 DEF AttributionSteps
      <4> QED BY <1>4, <4>1
    <3> QED BY <2>7, <3>1, <3>3, <3>4 DEF A!Insert, A!Count, A!Write, Steps
  <2>8. CASE A!Click(s)
    <3>1. /\ attributing[s].kind = "click" /\ attributing[s].link \in Links /\ attributing[s].seen.count \in Nat
      BY <1>1, <2>8 DEF A!Click, A!At, AttributionWellFormed, AttributionSteps, LinkRows
    <3>2. links' = [links EXCEPT ![attributing[s].link].count = attributing[s].seen.count + 1] /\ A!End(s)
      BY <2>8 DEF A!Click
    <3>3. \A l \in Links : links'[l].count = links[l].count \/ links'[l].count = attributing[s].seen.count + 1
      BY <1>1, <3>1, <3>2 DEF LinkRows
    <3>4. attributing[s].seen.count < attributions /\ attributions' = attributions /\ attributing' = [attributing EXCEPT ![s] = A!Idle]
      BY <3>1, <3>2 DEF A!End, A!Goto
    <3>5. \A l \in Links : links'[l].count <= attributions'
      BY <3>1, <3>3, <3>4
    <3> QED BY <1>3, <3>4, <3>5, AttributionIdleType
  <2>9. CASE A!Toggle(s) \/ A!Delete(s)
    <3>1. \A l \in Links : links'[l].count = links[l].count
      BY <1>1, <2>9 DEF A!Toggle, A!Delete, LinkRows
    <3>2. attributions' = attributions /\ attributing' = [attributing EXCEPT ![s] = A!Idle]
      BY <2>9 DEF A!Toggle, A!Delete, A!End, A!Goto
    <3> QED BY <1>3, <3>1, <3>2, AttributionIdleType
  <2> QED BY <2>1, <2>3, <2>4, <2>5, <2>6, <2>7, <2>8, <2>9
<1> QED BY <1>2, <1>6

LEMMA Attributed ==
  ASSUME A!AttributionAssumption PROVE A!Spec => [](A!AttributionKept /\ A!ClicksCounted)
<1>1. A!Init => AttributionInv
  BY AttributionInitInv
<1>2. AttributionInv /\ [A!Next]_(A!vars) => AttributionInv'
  BY AttributionStepInv
<1>3. AttributionInv => A!AttributionKept /\ A!ClicksCounted
  BY DEF AttributionInv, CountsKept, A!ClicksCounted
<1> QED BY <1>1, <1>2, <1>3, PTL DEF A!Spec

LEMMA AttributionTypesHold ==
  ASSUME A!AttributionAssumption PROVE A!Spec => []A!TypeOK
<1>1. A!Init => AttributionInv /\ Counters
  BY AttributionInitInv, InitCounters
<1>2. AttributionInv /\ Counters /\ [A!Next]_(A!vars) => AttributionInv' /\ Counters'
  BY AttributionStepInv, StepCounters
<1>3. AttributionInv /\ Counters => A!TypeOK
  <2> SUFFICES ASSUME AttributionInv, Counters PROVE A!TypeOK
    OBVIOUS
  <2>1. \A u \in People :
          /\ users[u].referrer \in People \cup {NoOne} /\ users[u].partner \in Links \cup {NoOne}
          /\ ~ users[u].known => users[u] = A!NoUser
    BY DEF AttributionInv, AttributionTypes, AttributionRowTypes, UserRows
  <2>2. \A l \in Links : links[l].count \in 0 .. MaxAttributions
    BY DEF AttributionInv, AttributionTypes, AttributionRowTypes, LinkRows, Counters, A!AttributionAssumption
  <2> QED BY <2>1, <2>2 DEF A!TypeOK, AttributionInv, AttributionTypes, AttributionRowTypes, SessionTypes, AttributionWellFormed
<1> QED BY <1>1, <1>2, <1>3, PTL DEF A!Spec

-----------------------------------------------------------------------------
(* The administrator's dialogues                                           *)

DialogueKinds ==
  {"nothing", "clear", "panel all", "panel one", "panel target", "panel content", "panel no",
   "panel yes", "new admin", "dm start", "dm target", "dm message", "dm no", "dm yes",
   "broadcast start", "fails", "code start", "code", "amount start"}

Dictionary ==
  [scope : {"all", "one"}, target : Customers \cup {Nothing}, label : Customers \cup {Nothing},
   content : D!Messages \cup {Nothing}, message : D!Messages \cup {Nothing}, plan : BOOLEAN]

Updates == [does : DialogueKinds, with : Customers \cup D!Messages \cup {Nothing}, alone : BOOLEAN]

StateTypes ==
  /\ state \in D!States /\ data \in Dictionary
  /\ mixed \in BOOLEAN
  /\ promised \in [D!Messages -> Customers \cup {Everybody, Nothing}]
  /\ state = "panel confirm" => data.content # Nothing
  /\ state = "dm confirm" => data.message # Nothing

HandlerTypes ==
  /\ handler \in [Handlers -> Updates]
  /\ \A h \in Handlers :
       /\ handler[h].does = "nothing" => handler[h] = D!Idle
       /\ handler[h].does \in {"panel target", "dm target"} => handler[h].with \in Customers
       /\ handler[h].does \in {"panel content", "dm message"} => handler[h].with \in 1 .. updates

DialogueTypes == StateTypes /\ HandlerTypes /\ updates \in 0 .. MaxUpdates

Carries(h, m) == handler[h].does \in {"panel content", "dm message"} /\ handler[h].with = m

Kept(m) == data.content = m \/ data.message = m

Sent(m) == \E o \in outbox : o.message = m

\* A message that was received is with one handler, in one entry of the
\* dictionary, or sent once.
OnePlace ==
  /\ \A m \in D!Messages : Kept(m) \/ Sent(m) => m <= updates
  /\ \A m \in D!Messages, h \in Handlers : Carries(h, m) => ~ Kept(m) /\ ~ Sent(m)
  /\ \A m \in D!Messages, g, h \in Handlers : Carries(g, m) /\ Carries(h, m) => g = h
  /\ \A m \in D!Messages : Kept(m) => ~ Sent(m)
  /\ data.content # Nothing => data.content # data.message
  /\ \A o \in outbox : o.message \in D!Messages
  /\ \A o, p \in outbox : o.message = p.message => o.id = p.id

\* What the dictionary holds when a preview is shown, and that an update that was
\* not overtaken is handled in the state it arrived in.
PreviewHolds ==
  /\ state = "panel confirm" => promised[data.content] = D!Addressee
  /\ state = "dm message" => data.label = data.target
  /\ state = "dm confirm" /\ ~ mixed => promised[data.message] = data.target
  /\ \A h \in Handlers : handler[h].alone =>
       /\ handler[h].does = "panel yes" => state = "panel confirm"
       /\ handler[h].does = "dm yes" => state = "dm confirm"
       /\ handler[h].does = "dm message" => state = "dm message"

DialogueInv == DialogueTypes /\ OnePlace /\ PreviewHolds /\ D!SentAsShown

LEMMA Received ==
  ASSUME NEW n \in Nat, NEW u \in 0 .. n, NEW m \in 1 .. u
  PROVE  u \in Nat /\ m \in 1 .. n /\ m <= u
  OBVIOUS

LEMMA DialogueIdleType == D!Idle \in Updates /\ D!Idle.does = "nothing"
  BY DEF D!Idle, Updates, DialogueKinds

LEMMA DialogueClearedType == D!Cleared \in Dictionary /\ D!Cleared.content = Nothing /\ D!Cleared.message = Nothing
  BY DEF D!Cleared, Dictionary

LEMMA DialogueInitInv == ASSUME D!DialoguesAssumption, D!Init PROVE DialogueInv
<1>1. DialogueTypes
  <2>1. StateTypes
    <3>1. state = "none" /\ data = D!Cleared /\ mixed = FALSE
      BY DEF D!Init
    <3>2. promised \in [D!Messages -> Customers \cup {Everybody, Nothing}]
      BY DEF D!Init
    <3> QED BY <3>1, <3>2, DialogueClearedType DEF StateTypes, D!States
  <2>2. HandlerTypes
    BY DialogueIdleType DEF D!Init, HandlerTypes
  <2>3. updates \in 0 .. MaxUpdates
    BY DEF D!Init, D!DialoguesAssumption
  <2> QED BY <2>1, <2>2, <2>3 DEF DialogueTypes
<1>2. OnePlace
  <2>1. \A m \in D!Messages : ~ Kept(m) /\ ~ Sent(m)
    BY DialogueClearedType DEF D!DialoguesAssumption, D!Init, Kept, Sent, D!Messages
  <2>2. \A h \in Handlers, m \in D!Messages : ~ Carries(h, m)
    BY DialogueIdleType DEF D!Init, Carries
  <2> QED BY <2>1, <2>2, DialogueClearedType DEF D!Init, OnePlace
<1>3. PreviewHolds /\ D!SentAsShown
  BY DialogueIdleType DEF D!Init, PreviewHolds, D!SentAsShown
<1> QED BY <1>1, <1>2, <1>3 DEF DialogueInv

\* An update arrives: what is known of it, by its kind.
Arrival(h) ==
  \E does \in DialogueKinds, with \in Customers \cup {Nothing, updates + 1} :
    /\ D!Arrive(h, does, with) /\ does # "nothing"
    /\ does \in {"panel target", "dm target"} => with \in Customers
    /\ does \in {"panel content", "dm message"} => with = updates + 1
    /\ does = "panel yes" => state = "panel confirm"
    /\ does = "dm yes" => state = "dm confirm"
    /\ does = "dm message" => state = "dm message"

LEMMA ArrivalOf ==
  ASSUME NEW h \in Handlers,
         \/ D!PressMenu(h) \/ D!PressBroadcast(h) \/ D!PressDirect(h) \/ D!TypeCancel(h)
         \/ \E c \in Customers : D!TypeId(h, c)
         \/ D!TypeMessage(h) \/ D!TypeAnswer(h) \/ D!PressButton(h)
  PROVE  Arrival(h)
<1>1. CASE D!PressMenu(h) \/ D!PressBroadcast(h) \/ D!PressDirect(h) \/ D!TypeCancel(h)
  BY <1>1 DEF D!PressMenu, D!PressBroadcast, D!PressDirect, D!TypeCancel, Arrival, DialogueKinds
<1>2. CASE \E c \in Customers : D!TypeId(h, c)
  BY <1>2 DEF D!TypeId, Arrival, DialogueKinds
<1>3. CASE D!TypeMessage(h) \/ D!TypeAnswer(h)
  BY <1>3 DEF D!TypeMessage, D!TypeAnswer, Arrival, DialogueKinds
<1>4. CASE D!PressButton(h)
  BY <1>4 DEF D!PressButton, Arrival, DialogueKinds
<1> QED BY <1>1, <1>2, <1>3, <1>4

\* Its step leaves nothing of what it carries, and overtakes the others.
LEMMA EndsType ==
  ASSUME HandlerTypes, NEW h \in Handlers, D!Ends(h), UNCHANGED updates
  PROVE  /\ HandlerTypes'
         /\ handler'[h] = D!Idle
         /\ \A g \in Handlers : /\ handler'[g].does # "nothing" => ~ handler'[g].alone
                                /\ g # h => /\ handler'[g].does = handler[g].does
                                            /\ handler'[g].with = handler[g].with
<1>1. handler'[h] = D!Idle /\ handler' = [g \in Handlers |-> handler'[g]]
  BY DEF D!Ends
<1>2. ASSUME NEW g \in Handlers \ {h}
      PROVE  /\ handler'[g] \in Updates
             /\ handler'[g].does = handler[g].does /\ handler'[g].with = handler[g].with
             /\ handler'[g].does # "nothing" => ~ handler'[g].alone
             /\ handler'[g].does = "nothing" => handler'[g] = D!Idle
  <2>1. CASE handler[g] = D!Idle
    BY <2>1, DialogueIdleType DEF D!Ends
  <2>2. CASE handler[g] # D!Idle
    <3>1. handler'[g] = [handler[g] EXCEPT !.alone = FALSE]
      BY <2>2 DEF D!Ends
    <3>2. handler[g] \in Updates /\ handler[g].does # "nothing"
      BY <2>2 DEF HandlerTypes
    <3> QED BY <3>1, <3>2 DEF Updates
  <2> QED BY <2>1, <2>2
<1>3. handler' \in [Handlers -> Updates]
  BY <1>1, <1>2, DialogueIdleType
<1> QED BY <1>1, <1>2, <1>3, DialogueIdleType DEF HandlerTypes

LEMMA ArriveInv ==
  ASSUME D!DialoguesAssumption, DialogueInv, NEW h \in Handlers, Arrival(h) PROVE DialogueInv'
<1>1. PICK does \in DialogueKinds, with \in Customers \cup {Nothing, updates + 1} :
        /\ D!Arrive(h, does, with) /\ does # "nothing"
        /\ does \in {"panel target", "dm target"} => with \in Customers
        /\ does \in {"panel content", "dm message"} => with = updates + 1
        /\ does = "panel yes" => state = "panel confirm"
        /\ does = "dm yes" => state = "dm confirm"
        /\ does = "dm message" => state = "dm message"
  BY DEF Arrival
<1> DEFINE new == [D!Idle EXCEPT !.does = does, !.with = with]
<1>2. /\ updates \in Nat /\ updates \in 0 .. MaxUpdates /\ updates < MaxUpdates /\ updates' = updates + 1
      /\ updates + 1 \in D!Messages /\ updates' \in 0 .. MaxUpdates
  <2>1. updates \in 0 .. MaxUpdates
    BY DEF DialogueInv, DialogueTypes
  <2>2. updates < MaxUpdates /\ updates' = updates + 1
    BY <1>1 DEF D!Arrive
  <2>3. MaxUpdates \in Nat
    BY DEF D!DialoguesAssumption
  <2> QED BY <2>1, <2>2, <2>3 DEF D!Messages
<1>3. new \in Updates /\ new.does = does /\ new.with = with /\ new.alone = TRUE
  BY <1>2 DEF D!Idle, Updates
<1>4. handler' = [handler EXCEPT ![h] = new] /\ UNCHANGED <<state, data, admin, promised, outbox, mixed>>
  BY <1>1 DEF D!Arrive
<1> HIDE DEF new
<1>5. handler'[h] = new /\ \A g \in Handlers \ {h} : handler'[g] = handler[g]
  BY <1>4 DEF DialogueInv, DialogueTypes, HandlerTypes
<1>6. StateTypes'
  BY <1>4 DEF DialogueInv, DialogueTypes, StateTypes
<1>7. HandlerTypes'
  <2>1. handler' \in [Handlers -> Updates]
    BY <1>3, <1>4 DEF DialogueInv, DialogueTypes, HandlerTypes
  <2>2. new.does # "nothing" /\ (new.does \in {"panel target", "dm target"} => new.with \in Customers)
    BY <1>1, <1>3
  <2>3. new.does \in {"panel content", "dm message"} => new.with \in 1 .. updates'
    <3>1. updates + 1 \in 1 .. updates'
      BY <1>2
    <3> QED BY <1>1, <1>3, <3>1
  <2>4. \A m \in 1 .. updates : m \in 1 .. updates'
    BY <1>2
  <2> QED BY <1>5, <2>1, <2>2, <2>3, <2>4 DEF DialogueInv, DialogueTypes, HandlerTypes
<1>8. OnePlace'
  <2>1. \A m \in D!Messages : (Kept(m)' <=> Kept(m)) /\ (Sent(m)' <=> Sent(m))
    BY <1>4 DEF Kept, Sent
  <2>2. ~ Kept(updates + 1) /\ ~ Sent(updates + 1)
    BY <1>2 DEF DialogueInv, OnePlace, D!Messages
  <2>3. \A m \in D!Messages : Carries(h, m)' => m = updates + 1
    BY <1>1, <1>3, <1>5 DEF Carries
  <2>4. \A m \in D!Messages, g \in Handlers \ {h} : Carries(g, m)' => Carries(g, m) /\ m <= updates
    <3>1. \A m \in D!Messages, g \in Handlers : Carries(g, m) => m \in 1 .. updates
      BY DEF Carries, DialogueInv, DialogueTypes, HandlerTypes
    <3>2. \A m \in 1 .. updates : m <= updates
      BY <1>2
    <3> QED BY <1>5, <3>1, <3>2 DEF Carries
  <2>5. \A m \in D!Messages, g, k \in Handlers : Carries(g, m)' /\ Carries(k, m)' => g = k
    BY <1>2, <2>3, <2>4 DEF DialogueInv, OnePlace
  <2> QED BY <1>2, <1>4, <2>1, <2>2, <2>3, <2>4, <2>5 DEF DialogueInv, OnePlace, D!Messages
<1>9. PreviewHolds' /\ D!SentAsShown'
  <2>1. D!Addressee' = D!Addressee
    BY <1>4 DEF D!Addressee
  <2> QED BY <1>1, <1>3, <1>4, <1>5, <2>1, ZenonT(40) DEF DialogueInv, PreviewHolds, D!SentAsShown
<1> QED BY <1>2, <1>6, <1>7, <1>8, <1>9 DEF DialogueInv, DialogueTypes

\* The dialogue is given up, or goes on without a message.
LEMMA ClearsInv ==
  ASSUME D!DialoguesAssumption, DialogueInv, HandlerTypes', UNCHANGED <<updates, promised, outbox>>, D!Clears,
         \A g \in Handlers, m \in D!Messages : Carries(g, m)' => Carries(g, m),
         \A g \in Handlers : handler'[g].does # "nothing" => ~ handler'[g].alone
  PROVE  DialogueInv'
<1>1. state' = "none" /\ data' = D!Cleared /\ mixed' = FALSE
  BY DEF D!Clears
<1>2. StateTypes'
  BY <1>1, DialogueClearedType DEF DialogueInv, DialogueTypes, StateTypes, D!States
<1>3. OnePlace'
  <2>1. \A m \in D!Messages : ~ Kept(m)' /\ (Sent(m)' <=> Sent(m))
    BY <1>1, DialogueClearedType DEF Kept, Sent, D!DialoguesAssumption, D!Messages
  <2> QED BY <1>1, <2>1, DialogueClearedType DEF DialogueInv, OnePlace
<1>4. PreviewHolds' /\ D!SentAsShown'
  BY <1>1 DEF DialogueInv, PreviewHolds, D!SentAsShown
<1> QED BY <1>2, <1>3, <1>4 DEF DialogueInv, DialogueTypes

\* The dialogue goes on in another state, with the same messages.
LEMMA MovesInv ==
  ASSUME D!DialoguesAssumption, DialogueInv, HandlerTypes', NEW h \in Handlers, NEW s \in D!States, NEW d \in Dictionary,
         D!Moves(h, s, d), UNCHANGED updates, d.content = data.content, d.message = data.message,
         \/ s \notin {"panel confirm", "dm message", "dm confirm"}
         \/ s = "dm message" /\ d.label = d.target
         \/ s = state /\ d = data,
         \A g \in Handlers, m \in D!Messages : Carries(g, m)' => Carries(g, m),
         \A g \in Handlers : handler'[g].does # "nothing" => ~ handler'[g].alone
  PROVE  DialogueInv'
<1>1. /\ state' = s /\ data' = d /\ UNCHANGED <<promised, outbox>>
      /\ mixed' \in BOOLEAN /\ (~ mixed' => ~ mixed)
  BY DEF D!Moves, D!Keeps, DialogueInv, DialogueTypes, StateTypes
<1>2. StateTypes'
  BY <1>1 DEF DialogueInv, DialogueTypes, StateTypes
<1>3. OnePlace'
  <2>1. \A m \in D!Messages : (Kept(m)' <=> Kept(m)) /\ (Sent(m)' <=> Sent(m))
    BY <1>1 DEF Kept, Sent
  <2> QED BY <1>1, <2>1 DEF DialogueInv, OnePlace
<1>4. PreviewHolds' /\ D!SentAsShown'
  BY <1>1 DEF DialogueInv, PreviewHolds, D!SentAsShown, D!Addressee
<1> QED BY <1>2, <1>3, <1>4 DEF DialogueInv, DialogueTypes

LEMMA TurnFacts ==
  ASSUME DialogueInv, NEW h \in Handlers, NEW does \in DialogueKinds \ {"nothing"}, D!Turn(h, does)
  PROVE  /\ handler[h].does = does /\ UNCHANGED <<admin, updates>> /\ HandlerTypes'
         /\ \A g \in Handlers, m \in D!Messages : Carries(g, m)' => g # h /\ Carries(g, m)
         /\ \A g \in Handlers : handler'[g].does # "nothing" => ~ handler'[g].alone
<1>1. handler[h].does = does /\ D!Ends(h) /\ UNCHANGED <<admin, updates>> /\ HandlerTypes
  BY DEF D!Turn, DialogueInv, DialogueTypes
<1> QED BY <1>1, EndsType, DialogueIdleType DEF Carries

LEMMA OtherWorkInv ==
  ASSUME D!DialoguesAssumption, DialogueInv, NEW h \in Handlers,
         \/ D!Clear(h) \/ D!Start(h) \/ D!AskCode(h) \/ D!Code(h) \/ D!Refuse(h) \/ D!Denied(h)
         \/ D!PanelAll(h) \/ D!PanelTarget(h) \/ D!DmTarget(h)
  PROVE  DialogueInv'
<1>1. CASE D!Clear(h)
  <2>1. PICK does \in {"clear", "panel no", "dm no"} : D!Turn(h, does)
    BY <1>1 DEF D!Clear
  <2>2. does \in DialogueKinds \ {"nothing"}
    BY DEF DialogueKinds
  <2> QED BY <1>1, <2>1, <2>2, TurnFacts, ClearsInv DEF D!Clear
<1> DEFINE Same(g) == UNCHANGED <<state, data, mixed, promised, outbox>>
<1>2. ASSUME NEW does \in DialogueKinds \ {"nothing"}, D!Turn(h, does),
             UNCHANGED <<state, data, mixed, promised, outbox>>
      PROVE  DialogueInv'
  <2>1. \A m \in D!Messages : (Kept(m)' <=> Kept(m)) /\ (Sent(m)' <=> Sent(m))
    BY <1>2 DEF Kept, Sent
  <2>2. D!Addressee' = D!Addressee
    BY <1>2 DEF D!Addressee
  <2>3. DialogueTypes'
    BY <1>2, TurnFacts DEF DialogueInv, DialogueTypes, StateTypes
  <2>4. OnePlace'
    BY <1>2, <2>1, TurnFacts DEF DialogueInv, OnePlace
  <2>5. PreviewHolds' /\ D!SentAsShown'
    BY <1>2, <2>2, TurnFacts DEF DialogueInv, PreviewHolds, D!SentAsShown
  <2> QED BY <2>3, <2>4, <2>5 DEF DialogueInv
<1>3. ASSUME NEW does \in DialogueKinds \ {"nothing"}, D!Turn(h, does), D!Clears, UNCHANGED <<promised, outbox>>
      PROVE  DialogueInv'
  BY <1>3, TurnFacts, ClearsInv
<1>4. ASSUME NEW does \in DialogueKinds \ {"nothing"}, D!Turn(h, does), NEW s \in D!States, NEW d \in Dictionary,
             D!Moves(h, s, d), d.content = data.content, d.message = data.message,
             \/ s \notin {"panel confirm", "dm message", "dm confirm"}
             \/ s = "dm message" /\ d.label = d.target
             \/ s = state /\ d = data
      PROVE  DialogueInv'
  BY <1>4, TurnFacts, MovesInv
<1>5. state \in D!States /\ data \in Dictionary
  BY DEF DialogueInv, DialogueTypes, StateTypes
<1>6. CASE D!Start(h)
  <2>1. PICK p \in {<<"panel one", "panel target">>, <<"new admin", "new admin">>, <<"dm start", "dm target">>,
                    <<"broadcast start", "broadcast">>, <<"amount start", "amount">>} :
          D!Turn(h, p[1]) /\ D!Moves(h, p[2], data)
    BY <1>6 DEF D!Start
  <2>2. /\ p[1] \in {"panel one", "new admin", "dm start", "broadcast start", "amount start"}
        /\ p[2] \in {"panel target", "new admin", "dm target", "broadcast", "amount"}
    <3>1. CASE p = <<"panel one", "panel target">>
      BY <3>1
    <3>2. CASE p = <<"new admin", "new admin">>
      BY <3>2
    <3>3. CASE p = <<"dm start", "dm target">>
      BY <3>3
    <3>4. CASE p = <<"broadcast start", "broadcast">>
      BY <3>4
    <3>5. CASE p = <<"amount start", "amount">>
      BY <3>5
    <3> QED BY <3>1, <3>2, <3>3, <3>4, <3>5
  <2>3. /\ p[1] \in DialogueKinds \ {"nothing"} /\ p[2] \in D!States
        /\ p[2] \notin {"panel confirm", "dm message", "dm confirm"}
    BY <2>2 DEF DialogueKinds, D!States
  <2> QED BY <1>4, <1>5, <2>1, <2>3
<1>7. CASE D!AskCode(h)
  <2>1. D!Turn(h, "code start") /\ D!Moves(h, "code", [data EXCEPT !.plan = TRUE])
    BY <1>7 DEF D!AskCode
  <2>2. [data EXCEPT !.plan = TRUE] \in Dictionary
    BY <1>5 DEF Dictionary
  <2>3. /\ [data EXCEPT !.plan = TRUE].content = data.content
        /\ [data EXCEPT !.plan = TRUE].message = data.message
    BY <1>5 DEF Dictionary
  <2>4. "code start" \in DialogueKinds \ {"nothing"} /\ "code" \in D!States
    BY DEF DialogueKinds, D!States
  <2> QED BY <1>4, <2>1, <2>2, <2>3, <2>4
<1>8. CASE D!Code(h)
  <2>1. D!Turn(h, "code") /\ "code" \in DialogueKinds \ {"nothing"}
    BY <1>8 DEF D!Code, DialogueKinds
  <2>2. CASE D!Clears /\ UNCHANGED <<promised, outbox>>
    BY <1>3, <2>1, <2>2
  <2>3. CASE D!Moves(h, state, data)
    BY <1>4, <1>5, <2>1, <2>3
  <2> QED BY <1>8, <2>2, <2>3 DEF D!Code
<1>9. CASE D!Refuse(h)
  <2>1. PICK does \in {"fails", "panel target", "dm target"} : D!Turn(h, does)
    BY <1>9 DEF D!Refuse
  <2> QED BY <1>2, <1>9, <2>1 DEF D!Refuse, DialogueKinds
<1>10. CASE D!Denied(h)
  <2>1. ASSUME NEW does \in {"panel target", "panel content", "dm target", "dm message", "fails"},
               D!Turn(h, does), D!Clears
        PROVE  DialogueInv'
    BY <1>3, <1>10, <2>1 DEF D!Denied, DialogueKinds
  <2>2. ASSUME NEW does \in {"panel all", "panel one", "panel no", "panel yes", "new admin",
                             "dm start", "dm no", "dm yes", "broadcast start"},
               D!Turn(h, does), UNCHANGED <<state, data, mixed>>
        PROVE  DialogueInv'
    BY <1>2, <1>10, <2>2 DEF D!Denied, DialogueKinds
  <2> QED BY <1>10, <2>1, <2>2 DEF D!Denied
<1>11. CASE D!PanelAll(h)
  <2> DEFINE d == [data EXCEPT !.scope = "all"]
  <2>1. D!Turn(h, "panel all") /\ D!Moves(h, "panel content", d)
    BY <1>11 DEF D!PanelAll
  <2>2. d \in Dictionary /\ d.content = data.content /\ d.message = data.message
    BY <1>5 DEF Dictionary
  <2>3. "panel all" \in DialogueKinds \ {"nothing"} /\ "panel content" \in D!States
    BY DEF DialogueKinds, D!States
  <2> HIDE DEF d
  <2> QED BY <1>4, <2>1, <2>2, <2>3
<1>12. CASE D!PanelTarget(h)
  <2> DEFINE d == [data EXCEPT !.scope = "one", !.target = handler[h].with]
  <2>1. D!Turn(h, "panel target") /\ D!Moves(h, "panel content", d)
    BY <1>12 DEF D!PanelTarget
  <2>2. handler[h].with \in Customers
    BY <2>1 DEF D!Turn, DialogueInv, DialogueTypes, HandlerTypes
  <2>3. d \in Dictionary /\ d.content = data.content /\ d.message = data.message
    BY <1>5, <2>2 DEF Dictionary
  <2>4. "panel target" \in DialogueKinds \ {"nothing"} /\ "panel content" \in D!States
    BY DEF DialogueKinds, D!States
  <2> HIDE DEF d
  <2> QED BY <1>4, <2>1, <2>3, <2>4
<1>13. CASE D!DmTarget(h)
  <2> DEFINE d == [data EXCEPT !.target = handler[h].with, !.label = handler[h].with]
  <2>1. D!Turn(h, "dm target") /\ D!Moves(h, "dm message", d)
    BY <1>13 DEF D!DmTarget
  <2>2. handler[h].with \in Customers
    BY <2>1 DEF D!Turn, DialogueInv, DialogueTypes, HandlerTypes
  <2>3. d \in Dictionary /\ d.content = data.content /\ d.message = data.message /\ d.label = d.target
    BY <1>5, <2>2 DEF Dictionary
  <2>4. "dm target" \in DialogueKinds \ {"nothing"} /\ "dm message" \in D!States
    BY DEF DialogueKinds, D!States
  <2> HIDE DEF d
  <2> QED BY <1>4, <2>1, <2>3, <2>4
<1> QED BY <1>1, <1>6, <1>7, <1>8, <1>9, <1>10, <1>11, <1>12, <1>13

\* A preview is shown: its message leaves the handler for the dictionary.
LEMMA PreviewInv ==
  ASSUME D!DialoguesAssumption, DialogueInv, NEW h \in Handlers, D!PanelContent(h) \/ D!DmMessage(h) PROVE DialogueInv'
<1>1. PICK does \in {"panel content", "dm message"} :
        /\ D!Turn(h, does) /\ does \in DialogueKinds \ {"nothing"}
        /\ does = "panel content" => D!PanelContent(h)
        /\ does = "dm message" => D!DmMessage(h)
  BY DEF D!PanelContent, D!DmMessage, DialogueKinds
<1>2. /\ handler[h].does = does /\ UNCHANGED <<admin, updates>> /\ HandlerTypes'
      /\ \A g \in Handlers, n \in D!Messages : Carries(g, n)' => g # h /\ Carries(g, n)
      /\ \A g \in Handlers : handler'[g].does # "nothing" => ~ handler'[g].alone
  BY <1>1, TurnFacts
<1>3. PICK m \in 1 .. updates : m = handler[h].with
  BY <1>2 DEF DialogueInv, DialogueTypes, HandlerTypes
<1>4. m \in D!Messages /\ m <= updates /\ m # Nothing /\ updates \in 0 .. MaxUpdates
  <2>1. updates \in 0 .. MaxUpdates /\ MaxUpdates \in Nat /\ Nothing \notin 1 .. MaxUpdates
    BY DEF DialogueInv, DialogueTypes, D!DialoguesAssumption
  <2>2. m \in 1 .. MaxUpdates /\ m <= updates
    BY <2>1, Received
  <2> QED BY <2>1, <2>2 DEF D!Messages
<1>5. data \in Dictionary /\ Carries(h, m) /\ promised \in [D!Messages -> Customers \cup {Everybody, Nothing}]
  BY <1>2, <1>3 DEF DialogueInv, DialogueTypes, StateTypes, Carries
<1>6. UNCHANGED outbox /\ mixed' \in BOOLEAN /\ (~ mixed' => ~ mixed /\ handler[h].alone)
  BY <1>1 DEF D!PanelContent, D!DmMessage, D!Keeps, DialogueInv, DialogueTypes, StateTypes, HandlerTypes, Updates
<1>7. /\ data' \in Dictionary
      /\ data'.target = data.target /\ data'.label = data.label /\ data'.scope = data.scope
      /\ \/ does = "panel content" /\ data'.content = m /\ data'.message = data.message /\ state' = "panel confirm"
         \/ does = "dm message" /\ data'.content = data.content /\ data'.message = m /\ state' = "dm confirm"
  BY <1>1, <1>3, <1>4, <1>5 DEF D!PanelContent, D!DmMessage, Dictionary
<1>8. /\ promised' \in [D!Messages -> Customers \cup {Everybody, Nothing}]
      /\ \A n \in D!Messages \ {m} : promised'[n] = promised[n]
      /\ promised'[m] = IF does = "panel content" THEN D!Addressee ELSE data.label
  <2>1. D!Addressee \in Customers \cup {Everybody}
    BY <1>5 DEF D!Addressee, Dictionary
  <2>2. data.label \in Customers \cup {Nothing}
    BY <1>5 DEF Dictionary
  <2> QED BY <1>1, <1>3, <1>4, <1>5, <2>1, <2>2, ZenonT(40) DEF D!PanelContent, D!DmMessage
<1>9. StateTypes'
  BY <1>4, <1>6, <1>7, <1>8 DEF StateTypes, D!States
<1>10. OnePlace'
  <2>1. \A n \in D!Messages : Sent(n)' <=> Sent(n)
    BY <1>6 DEF Sent
  <2>2. \A n \in D!Messages : Kept(n)' => Kept(n) \/ n = m
    BY <1>7 DEF Kept
  <2>3. ~ Kept(m) /\ ~ Sent(m)
    BY <1>4, <1>5 DEF DialogueInv, OnePlace
  <2>4. data'.content # Nothing => data'.content # data'.message
    BY <1>4, <1>7, <2>3 DEF DialogueInv, OnePlace, Kept
  <2>5. \A g \in Handlers : ~ Carries(g, m)'
    BY <1>2, <1>4, <1>5 DEF DialogueInv, OnePlace
  <2>6. \A n \in D!Messages : Kept(n)' \/ Sent(n)' => n <= updates'
    BY <1>2, <1>4, <2>1, <2>2 DEF DialogueInv, OnePlace
  <2>7. \A n \in D!Messages, g \in Handlers : Carries(g, n)' => ~ Kept(n)' /\ ~ Sent(n)'
    <3> SUFFICES ASSUME NEW n \in D!Messages, NEW g \in Handlers, Carries(g, n)' PROVE ~ Kept(n)' /\ ~ Sent(n)'
      OBVIOUS
    <3>1. n # m
      BY <2>5
    <3>2. ~ Kept(n) /\ ~ Sent(n)
      BY <1>2 DEF DialogueInv, OnePlace
    <3> QED BY <2>1, <2>2, <3>1, <3>2
  <2>8. \A n \in D!Messages, g, k \in Handlers : Carries(g, n)' /\ Carries(k, n)' => g = k
    BY <1>2 DEF DialogueInv, OnePlace
  <2>9. \A n \in D!Messages : Kept(n)' => ~ Sent(n)'
    BY <2>1, <2>2, <2>3 DEF DialogueInv, OnePlace
  <2>10. /\ \A o \in outbox' : o.message \in D!Messages
         /\ \A o, p \in outbox' : o.message = p.message => o.id = p.id
    BY <1>6 DEF DialogueInv, OnePlace
  <2> QED BY <2>4, <2>6, <2>7, <2>8, <2>9, <2>10 DEF OnePlace
<1>11. PreviewHolds'
  <2>1. D!Addressee' = D!Addressee
    BY <1>7 DEF D!Addressee
  <2>2. does = "dm message" /\ handler[h].alone => data.label = data.target
    BY <1>2 DEF DialogueInv, PreviewHolds
  <2> QED BY <1>2, <1>6, <1>7, <1>8, <2>1, <2>2 DEF PreviewHolds
<1>12. D!SentAsShown'
  <2>1. \A o \in outbox : o.message \in D!Messages /\ o.message # m
    BY <1>4, <1>5 DEF DialogueInv, OnePlace, Sent
  <2> QED BY <1>6, <1>8, <2>1 DEF DialogueInv, D!SentAsShown
<1> QED BY <1>2, <1>4, <1>9, <1>10, <1>11, <1>12 DEF DialogueInv, DialogueTypes

\* The preview's button: the message leaves the dictionary and is sent.
LEMMA YesInv ==
  ASSUME D!DialoguesAssumption, DialogueInv, NEW h \in Handlers, D!PanelYes(h) \/ D!DmYes(h) PROVE DialogueInv'
<1>1. PICK does \in {"panel yes", "dm yes"} :
        /\ D!Turn(h, does) /\ does \in DialogueKinds \ {"nothing"}
        /\ does = "panel yes" => D!PanelYes(h)
        /\ does = "dm yes" => D!DmYes(h)
  BY DEF D!PanelYes, D!DmYes, DialogueKinds
<1>2. /\ handler[h].does = does /\ UNCHANGED <<admin, updates>> /\ HandlerTypes'
      /\ \A g \in Handlers, n \in D!Messages : Carries(g, n)' => g # h /\ Carries(g, n)
      /\ \A g \in Handlers : handler'[g].does # "nothing" => ~ handler'[g].alone
  BY <1>1, TurnFacts
<1>3. D!Clears /\ UNCHANGED promised
  BY <1>1 DEF D!PanelYes, D!DmYes
<1>4. CASE UNCHANGED outbox
  BY <1>2, <1>3, <1>4, ClearsInv
<1> DEFINE m == IF does = "panel yes" THEN data.content ELSE data.message
<1> DEFINE to == IF does = "panel yes" THEN D!Addressee ELSE data.target
<1>5. CASE m # Nothing /\ D!Sends(h, m, to)
  <2> DEFINE new == [id |-> D!Cardinality(outbox), message |-> m, to |-> to, mixed |-> mixed \/ ~ handler[h].alone]
  <2>1. outbox' = outbox \cup {new} /\ new.message = m /\ new.to = to
        /\ (~ new.mixed => ~ mixed /\ handler[h].alone)
    BY <1>5 DEF D!Sends
  <2> HIDE DEF new
  <2>2. m \in D!Messages /\ Kept(m)
    BY <1>5 DEF DialogueInv, DialogueTypes, StateTypes, Dictionary, Kept
  <2>3. ~ Sent(m) /\ m <= updates /\ \A g \in Handlers : ~ Carries(g, m)
    BY <2>2 DEF DialogueInv, OnePlace
  <2>4. ~ mixed /\ handler[h].alone => to = promised[m]
    BY <1>2 DEF DialogueInv, PreviewHolds
  <2>5. state' = "none" /\ data' = D!Cleared /\ mixed' = FALSE
    BY <1>3 DEF D!Clears
  <2> HIDE DEF m, to
  <2>6. DialogueTypes'
    BY <1>2, <1>3, <2>5, DialogueClearedType DEF DialogueInv, DialogueTypes, StateTypes, D!States
  <2>7. OnePlace'
    <3>1. \A n \in D!Messages : ~ Kept(n)' /\ (Sent(n)' <=> Sent(n) \/ n = m)
      BY <2>1, <2>5, DialogueClearedType DEF Kept, Sent, D!DialoguesAssumption, D!Messages
    <3>2. \A o \in outbox : o.message # m
      BY <2>3 DEF Sent
    <3>3. \A o, p \in outbox' : o.message = p.message => o.id = p.id
      BY <2>1, <3>2 DEF DialogueInv, OnePlace
    <3>4. \A o \in outbox' : o.message \in D!Messages
      BY <2>1, <2>2 DEF DialogueInv, OnePlace
    <3>5. \A n \in D!Messages : Kept(n)' \/ Sent(n)' => n <= updates'
      BY <1>2, <2>3, <3>1 DEF DialogueInv, OnePlace
    <3> QED BY <1>2, <2>3, <2>5, <3>1, <3>3, <3>4, <3>5, DialogueClearedType DEF DialogueInv, OnePlace
  <2>8. PreviewHolds'
    BY <1>2, <2>5 DEF PreviewHolds
  <2>9. D!SentAsShown'
    BY <1>3, <2>1, <2>4 DEF DialogueInv, D!SentAsShown
  <2> QED BY <2>6, <2>7, <2>8, <2>9 DEF DialogueInv
<1> QED BY <1>1, <1>4, <1>5 DEF D!PanelYes, D!DmYes

LEMMA DialogueStepInv == ASSUME D!DialoguesAssumption, DialogueInv, [D!Next]_(D!vars) PROVE DialogueInv'
<1>1. CASE UNCHANGED D!vars \/ D!Dismiss
  <2>1. UNCHANGED <<state, data, handler, updates, promised, outbox, mixed>>
    BY <1>1 DEF D!vars, D!Dismiss
  <2>2. DialogueTypes'
    BY <2>1 DEF DialogueInv, DialogueTypes, StateTypes, HandlerTypes
  <2>3. OnePlace'
    BY <2>1 DEF DialogueInv, OnePlace, Kept, Sent, Carries
  <2>4. PreviewHolds' /\ D!SentAsShown'
    BY <2>1 DEF DialogueInv, PreviewHolds, D!SentAsShown, D!Addressee
  <2> QED BY <2>2, <2>3, <2>4 DEF DialogueInv
<1>2. CASE D!Restart
  <2>1. handler' = [h \in Handlers |-> D!Idle] /\ UNCHANGED updates
    BY <1>2 DEF D!Restart
  <2>2. HandlerTypes'
    BY <2>1, DialogueIdleType DEF HandlerTypes
  <2>3. \A g \in Handlers : handler'[g].does = "nothing"
    BY <2>1, DialogueIdleType
  <2> QED BY <1>2, <2>2, <2>3, ClearsInv DEF D!Restart, D!Clears, Carries
<1>3. ASSUME NEW h \in Handlers, D!Work(h) PROVE DialogueInv'
  BY <1>3, OtherWorkInv, PreviewInv, YesInv DEF D!Work, D!PanelWork, D!DmWork
<1>4. ASSUME NEW h \in Handlers,
             \/ D!PressMenu(h) \/ D!PressBroadcast(h) \/ D!PressDirect(h) \/ D!TypeCancel(h)
             \/ \E c \in Customers : D!TypeId(h, c)
             \/ D!TypeMessage(h) \/ D!TypeAnswer(h) \/ D!PressButton(h)
      PROVE  DialogueInv'
  BY <1>4, ArrivalOf, ArriveInv
<1> QED BY <1>1, <1>2, <1>3, <1>4 DEF D!Next

LEMMA Dialogued == ASSUME D!DialoguesAssumption PROVE D!Spec => []DialogueInv
  BY DialogueInitInv, DialogueStepInv, PTL DEF D!Spec

LEMMA DialoguesImplied == ASSUME DialogueInv PROVE D!TypeOK /\ D!SentAsShown /\ D!SentOnce
<1>1. D!SentAsShown
  BY DEF DialogueInv
<1>2. D!SentOnce
  BY DEF DialogueInv, OnePlace, D!SentOnce
<1>3. D!TypeOK
  BY DEF DialogueInv, DialogueTypes, StateTypes, Dictionary, HandlerTypes, D!TypeOK
<1> QED BY <1>1, <1>2, <1>3

-----------------------------------------------------------------------------
(* The catalogue                                                           *)

CatalogueKinds == {"none", "update", "refused", "delete", "create", "seed"}
Configs == [server : {"none", "entry", "panel"}, name : K!Names, active : BOOLEAN, default : BOOLEAN]
Stored == [server : {"entry", "panel"}, name : K!Names, active : BOOLEAN, default : BOOLEAN]
Tables == [K!Ids -> Stored \cup {K!NoRow}]
CatalogueTransactions ==
  [kind : CatalogueKinds, at : {"idle", "loaded", "selected"}, row : 0 .. MaxRow, want : Configs,
   seen : SUBSET K!Ids, loaded : Tables, touched : BOOLEAN, alone : BOOLEAN]

\* A transaction works on a row it has loaded; only two kinds choose a default.
Loads(r) ==
  /\ r \in CatalogueTransactions /\ r.kind # "none"
  /\ \A i \in K!Ids : r.loaded[i] # K!NoRow => i \in r.seen
  /\ r.kind \in {"update", "refused", "delete"} => r.row \in r.seen /\ r.loaded[r.row] # K!NoRow
  /\ r.kind = "create" => r.want \in Stored
  /\ r.want.default => r.kind \in {"update", "create"}
CatalogueWellFormed(r) == r \in CatalogueTransactions /\ IF r.at = "idle" THEN r = K!Idle ELSE Loads(r)

CatalogueTypes ==
  /\ rows \in Tables /\ lastRow \in 0 .. MaxRow
  /\ \A i \in K!Ids : rows[i] # K!NoRow => i <= lastRow
  /\ editing \in [Transactions -> CatalogueTransactions]
  /\ \A s \in Transactions : CatalogueWellFormed(editing[s])
  /\ spoiled \in BOOLEAN /\ untouched \in BOOLEAN

\* Nobody else is at work, and what it has loaded is what is committed.
Current(r) ==
  /\ \A i \in r.seen : r.loaded[i] = rows[i]
  /\ r.at = "selected" /\ r.want.default => K!Defaults \subseteq r.seen
  /\ r.at = "selected" /\ r.kind = "seed" => K!Existing \subseteq r.seen
AloneIsCurrent ==
  \A s \in Transactions : editing[s].at # "idle" /\ editing[s].alone =>
    Current(editing[s]) /\ \A t \in Transactions \ {s} : editing[t].at = "idle"

OneOrSpoiled == spoiled \/ \A i, j \in K!Defaults : i = j

CatalogueInv == CatalogueTypes /\ AloneIsCurrent /\ OneOrSpoiled /\ K!SeedServes

\* The instance counts as the library's facts do.
LEMMA SameCount == ASSUME NEW S PROVE K!Cardinality(S) = Cardinality(S)
  BY DEF K!Cardinality, Cardinality


LEMMA CatalogueConstant ==
  ASSUME K!CatalogueAssumption
  PROVE  /\ MaxRow \in Nat /\ K!Ids = 1 .. MaxRow /\ 1 \in K!Ids /\ 2 \in K!Ids /\ NewNames \subseteq K!Names
         /\ K!NoRow.server = "none" /\ ~ K!NoRow.default /\ K!NoRow \in Configs /\ K!NoRow \notin Stored
         /\ Stored \subseteq Configs
<1>1. K!NoRow.server = "none" /\ ~ K!NoRow.default /\ K!NoRow \in Configs
  BY DEF K!NoRow, Configs, K!Names
<1>2. \A r \in Stored : r.server # "none" /\ r \in Configs
  BY DEF Stored, Configs
<1>3. MaxRow \in Nat /\ K!Ids = 1 .. MaxRow /\ 1 \in K!Ids /\ 2 \in K!Ids /\ NewNames \subseteq K!Names
  BY DEF K!CatalogueAssumption, K!Ids
<1> QED BY <1>1, <1>2, <1>3

LEMMA RowType ==
  ASSUME NEW server \in {"entry", "panel"}, NEW name \in K!Names, NEW active \in BOOLEAN, NEW default \in BOOLEAN
  PROVE  /\ K!Row(server, name, active, default) \in Stored
         /\ K!Row(server, name, active, default).server = server
         /\ K!Row(server, name, active, default).name = name
         /\ K!Row(server, name, active, default).active = active
         /\ K!Row(server, name, active, default).default = default
  BY DEF K!Row, Stored

LEMMA CatalogueIdleType ==
  ASSUME K!CatalogueAssumption
  PROVE  /\ CatalogueWellFormed(K!Idle) /\ K!Idle.at = "idle" /\ K!Idle.kind = "none" /\ K!Idle.seen = {}
         /\ K!Idle.loaded = [i \in K!Ids |-> K!NoRow] /\ K!Idle \in CatalogueTransactions /\ ~ K!Idle.want.default
         /\ ~ K!Idle.touched /\ K!Idle.alone
<1>1. K!Idle \in CatalogueTransactions
  <2>1. [i \in K!Ids |-> K!NoRow] \in Tables
    BY DEF Tables
  <2>2. 0 \in 0 .. MaxRow
    BY CatalogueConstant
  <2>3. K!NoRow \in Configs
    BY CatalogueConstant
  <2> HIDE DEF Tables
  <2> QED BY <2>1, <2>2, <2>3 DEF K!Idle, CatalogueTransactions, CatalogueKinds
<1>2. /\ K!Idle.at = "idle" /\ K!Idle.kind = "none" /\ K!Idle.seen = {}
      /\ K!Idle.loaded = [i \in K!Ids |-> K!NoRow] /\ ~ K!Idle.want.default /\ ~ K!Idle.touched /\ K!Idle.alone
  BY CatalogueConstant DEF K!Idle
<1> HIDE DEF K!Idle
<1> QED BY <1>1, <1>2 DEF CatalogueWellFormed

\* Some row of a set is the newest.
LEMMA Newest == ASSUME K!CatalogueAssumption, NEW S \in SUBSET K!Ids, S # {} PROVE K!Max(S) \in S
<1> DEFINE T == {MaxRow - i : i \in S}
<1>1. MaxRow \in Nat /\ \A i \in S : i \in Nat /\ i <= MaxRow
  BY CatalogueConstant
<1>2. T \subseteq Nat /\ T # {}
  <2>1. ASSUME NEW i \in S PROVE MaxRow - i \in Nat
    BY <1>1
  <2> QED BY <2>1
<1> HIDE DEF T
<1>3. PICK x \in T : \A y \in T : ~ (<<y, x>> \in OpToRel(<, Nat))
  BY <1>2, WFMin, NatLessThanWellFounded
<1>4. \A y \in T : ~ (y < x)
  BY <1>2, <1>3 DEF OpToRel
<1>5. PICK m \in S : x = MaxRow - m
  BY <1>3 DEF T
<1>6. ASSUME NEW i \in S PROVE m >= i
  <2>1. ~ (MaxRow - i < x)
    BY <1>4 DEF T
  <2>2. m \in Nat /\ i \in Nat /\ MaxRow \in Nat
    BY <1>1
  <2> QED BY <1>5, <2>1, <2>2
<1> QED BY <1>5, <1>6 DEF K!Max

LEMMA CatalogueInitInv == ASSUME K!CatalogueAssumption, K!Init PROVE CatalogueInv
<1>1. ASSUME NEW i \in K!Ids
      PROVE  /\ rows[i] \in Stored \cup {K!NoRow} /\ (rows[i] # K!NoRow => i \in {1, 2})
             /\ (rows[i].default => i = 1)
  <2>1. CASE rows = [j \in K!Ids |-> CASE j = 1 -> K!Row("entry", "main", TRUE, TRUE)
                               [] j = 2 -> K!Row("panel", "finland", TRUE, FALSE) [] OTHER -> K!NoRow]
    <3>1. /\ K!Row("entry", "main", TRUE, TRUE) \in Stored /\ K!Row("entry", "main", TRUE, TRUE).default
          /\ K!Row("panel", "finland", TRUE, FALSE) \in Stored /\ ~ K!Row("panel", "finland", TRUE, FALSE).default
      BY DEF K!Row, Stored, K!Names
    <3>2. CASE i = 1
      BY <2>1, <3>1, <3>2
    <3>3. CASE i = 2
      BY <2>1, <3>1, <3>3
    <3>4. CASE i \notin {1, 2}
      BY <2>1, <3>4, CatalogueConstant
    <3> QED BY <3>2, <3>3, <3>4
  <2>2. CASE rows = [j \in K!Ids |-> CASE j = 1 -> K!Row("entry", "retired", TRUE, TRUE)
                               [] j = 2 -> K!Row("entry", "old main", TRUE, FALSE) [] OTHER -> K!NoRow]
    <3>1. /\ K!Row("entry", "retired", TRUE, TRUE) \in Stored /\ K!Row("entry", "retired", TRUE, TRUE).default
          /\ K!Row("entry", "old main", TRUE, FALSE) \in Stored /\ ~ K!Row("entry", "old main", TRUE, FALSE).default
      BY DEF K!Row, Stored, K!Names
    <3>2. CASE i = 1
      BY <2>2, <3>1, <3>2
    <3>3. CASE i = 2
      BY <2>2, <3>1, <3>3
    <3>4. CASE i \notin {1, 2}
      BY <2>2, <3>4, CatalogueConstant
    <3> QED BY <3>2, <3>3, <3>4
  <2> QED BY <2>1, <2>2 DEF K!Init
<1>2. CatalogueTypes
  <2>1. rows \in Tables
    <3>1. DOMAIN rows = K!Ids /\ rows = [i \in K!Ids |-> rows[i]]
      BY DEF K!Init
    <3> QED BY <1>1, <3>1 DEF Tables
  <2>2. 2 \in 0 .. MaxRow /\ \A i \in K!Ids : rows[i] # K!NoRow => i <= 2
    BY <1>1, CatalogueConstant DEF K!CatalogueAssumption
  <2>3. /\ editing \in [Transactions -> CatalogueTransactions]
        /\ \A s \in Transactions : CatalogueWellFormed(editing[s])
    BY CatalogueIdleType DEF K!Init
  <2> QED BY <2>1, <2>2, <2>3 DEF K!Init, CatalogueTypes
<1>3. AloneIsCurrent
  BY CatalogueIdleType DEF K!Init, AloneIsCurrent
<1>4. OneOrSpoiled
  BY <1>1 DEF OneOrSpoiled, K!Defaults, K!Existing
<1>5. K!SeedServes
  BY DEF K!Init, K!SeedServes
<1> QED BY <1>2, <1>3, <1>4, <1>5 DEF CatalogueInv

\* A transaction begins: whoever is at work is no longer alone.
LEMMA BeginInv ==
  ASSUME K!CatalogueAssumption, CatalogueInv, NEW s \in Transactions, NEW r, K!Begin(s, r),
         Loads(r), \A i \in r.seen : r.loaded[i] = rows[i]
  PROVE  CatalogueInv'
<1> DEFINE alone == \A u \in Transactions \ {s} : editing[u] = K!Idle
<1> DEFINE new == [r EXCEPT !.at = "loaded", !.alone = alone]
<1>1. /\ editing' = [t \in Transactions |->
            IF t = s THEN new ELSE IF editing[t] = K!Idle THEN K!Idle ELSE [editing[t] EXCEPT !.alone = FALSE]]
      /\ rows' = rows /\ lastRow' = lastRow /\ spoiled' = spoiled /\ untouched' = untouched
  BY DEF K!Begin
<1>2. CatalogueWellFormed(new) /\ new \in CatalogueTransactions /\ new.at = "loaded" /\ new.alone = alone /\ new.seen = r.seen
      /\ new.loaded = r.loaded
  <2>1. r \in CatalogueTransactions /\ alone \in BOOLEAN
    BY DEF Loads
  <2> HIDE DEF alone
  <2>2. /\ new \in CatalogueTransactions /\ new.at = "loaded" /\ new.alone = alone /\ new.seen = r.seen
        /\ new.loaded = r.loaded /\ new.kind = r.kind /\ new.row = r.row /\ new.want = r.want
    BY <2>1 DEF CatalogueTransactions
  <2> HIDE DEF new
  <2> QED BY <2>2 DEF Loads, CatalogueWellFormed
<1> HIDE DEF new
<1>3. ASSUME NEW t \in Transactions \ {s}
      PROVE  /\ CatalogueWellFormed(editing'[t]) /\ editing'[t] \in CatalogueTransactions
             /\ editing'[t].at # "idle" => ~ editing'[t].alone
             /\ editing[t] = K!Idle => editing'[t].at = "idle"
  <2>1. CASE editing[t] = K!Idle
    BY <1>1, <2>1, CatalogueIdleType
  <2>2. CASE editing[t] # K!Idle
    <3>1. CatalogueWellFormed(editing[t]) /\ editing[t] \in CatalogueTransactions
      BY DEF CatalogueInv, CatalogueTypes
    <3> DEFINE other == [editing[t] EXCEPT !.alone = FALSE]
    <3>2. editing'[t] = other
      BY <1>1, <2>2
    <3>3. /\ other \in CatalogueTransactions /\ ~ other.alone /\ other.at = editing[t].at
          /\ other.kind = editing[t].kind /\ other.row = editing[t].row /\ other.want = editing[t].want
          /\ other.seen = editing[t].seen /\ other.loaded = editing[t].loaded
      BY <3>1 DEF CatalogueTransactions
    <3> HIDE DEF other
    <3> QED BY <2>2, <3>1, <3>2, <3>3 DEF CatalogueWellFormed, Loads
  <2> QED BY <2>1, <2>2
<1>4. editing'[s] = new
  BY <1>1
<1>5. CatalogueTypes'
  BY <1>1, <1>2, <1>3, <1>4 DEF CatalogueInv, CatalogueTypes
<1>6. AloneIsCurrent'
  <2>1. PICK x : x = new
    OBVIOUS
  <2>2. Current(x)'
    BY <1>1, <1>2, <2>1 DEF Current
  <2>3. Current(editing[s])'
    BY <1>4, <2>1, <2>2 DEF Current
  <2>4. editing'[s].alone => \A t \in Transactions \ {s} : editing'[t].at = "idle"
    BY <1>2, <1>3, <1>4
  <2> QED BY <1>3, <2>3, <2>4 DEF AloneIsCurrent
<1>7. OneOrSpoiled' /\ K!SeedServes'
  BY <1>1 DEF CatalogueInv, OneOrSpoiled, K!SeedServes, K!Defaults, K!Existing
<1> QED BY <1>5, <1>6, <1>7 DEF CatalogueInv

\* What is read next to what was read before.
LEMMA ReadType ==
  ASSUME K!CatalogueAssumption, CatalogueInv, NEW s \in Transactions, NEW ids \in SUBSET K!Existing
  PROVE  LET r == editing[s]
             new == K!Read(s, ids)
         IN /\ new \in CatalogueTransactions /\ new.kind = r.kind /\ new.at = r.at /\ new.row = r.row
            /\ new.want = r.want /\ new.touched = r.touched /\ new.alone = r.alone
            /\ new.seen = r.seen \cup ids
            /\ \A i \in K!Ids : new.loaded[i] = IF i \in ids \ r.seen THEN rows[i] ELSE r.loaded[i]
<1> DEFINE r == editing[s]
<1> DEFINE loaded == [i \in K!Ids |-> IF i \in ids \ r.seen THEN rows[i] ELSE r.loaded[i]]
<1>1. r \in CatalogueTransactions /\ rows \in Tables /\ ids \subseteq K!Ids
  BY DEF CatalogueInv, CatalogueTypes, K!Existing
<1>2. loaded \in Tables
  BY <1>1 DEF CatalogueTransactions, Tables
<1>3. \A i \in K!Ids : loaded[i] = IF i \in ids \ r.seen THEN rows[i] ELSE r.loaded[i]
  OBVIOUS
<1>4. K!Read(s, ids) = [r EXCEPT !.seen = @ \cup ids, !.loaded = loaded]
  BY DEF K!Read
<1> HIDE DEF r, loaded
<1>5. LET new == [r EXCEPT !.seen = @ \cup ids, !.loaded = loaded]
      IN /\ new \in CatalogueTransactions /\ new.kind = r.kind /\ new.at = r.at /\ new.row = r.row
         /\ new.want = r.want /\ new.touched = r.touched /\ new.alone = r.alone
         /\ new.seen = r.seen \cup ids /\ new.loaded = loaded
  BY <1>1, <1>2 DEF CatalogueTransactions
<1> QED BY <1>3, <1>4, <1>5 DEF r

\* What an idle session reads one.
LEMMA FirstRead ==
  ASSUME K!CatalogueAssumption, CatalogueInv, NEW s \in Transactions, editing[s] = K!Idle, NEW ids \in SUBSET K!Existing
  PROVE  LET new == K!Read(s, ids)
         IN /\ new \in CatalogueTransactions /\ ~ new.want.default /\ new.seen = ids
            /\ \A i \in K!Ids : new.loaded[i] = IF i \in ids THEN rows[i] ELSE K!NoRow
<1>1. ids \subseteq K!Ids
  BY DEF K!Existing
<1>2. /\ editing[s].want = K!Idle.want /\ editing[s].seen = {} /\ \A i \in K!Ids : editing[s].loaded[i] = K!NoRow
  BY CatalogueIdleType
<1> DEFINE new == K!Read(s, ids)
<1>3. /\ new \in CatalogueTransactions /\ new.want = editing[s].want /\ new.seen = editing[s].seen \cup ids
      /\ \A i \in K!Ids : new.loaded[i] = IF i \in ids \ editing[s].seen THEN rows[i] ELSE editing[s].loaded[i]
  BY ReadType
<1> HIDE DEF new
<1>4. /\ new \in CatalogueTransactions /\ ~ new.want.default /\ new.seen = ids
      /\ \A i \in K!Ids : new.loaded[i] = IF i \in ids THEN rows[i] ELSE K!NoRow
  BY <1>2, <1>3, CatalogueIdleType
<1> QED BY <1>4 DEF new

LEMMA EditInv ==
  ASSUME K!CatalogueAssumption, CatalogueInv, NEW s \in Transactions, NEW i \in K!Ids,
         NEW kind \in {"update", "refused", "delete"}, K!Edit(s, kind, i)
  PROVE  CatalogueInv'
<1>1. PICK name \in NewNames \cup {rows[i].name}, active \in BOOLEAN, default \in BOOLEAN :
        /\ kind # "update" => ~ active /\ ~ default
        /\ K!Begin(s, [K!Read(s, {i}) EXCEPT !.kind = kind, !.row = i, !.touched = name # rows[i].name,
                                         !.want = K!Row("none", name, active, default)])
  BY DEF K!Edit
<1> DEFINE old == K!Read(s, {i})
<1> DEFINE want == K!Row("none", name, active, default)
<1> DEFINE touched == name # rows[i].name
<1> DEFINE r == [old EXCEPT !.kind = kind, !.row = i, !.touched = touched, !.want = want]
<1>2. editing[s] = K!Idle /\ i \in K!Existing /\ rows[i] # K!NoRow
  BY <1>1 DEF K!Begin, K!Edit, K!Existing
<1>3. /\ old \in CatalogueTransactions /\ old.seen = {i}
      /\ \A j \in K!Ids : old.loaded[j] = IF j \in {i} THEN rows[j] ELSE K!NoRow
  BY <1>2, FirstRead
<1>4. want \in Configs /\ want.default = default
  <2>1. rows[i] \in Stored
    BY <1>2 DEF CatalogueInv, CatalogueTypes, Tables
  <2>2. rows[i].name \in K!Names
    BY <2>1 DEF Stored
  <2> QED BY <2>2, CatalogueConstant DEF K!Row, Configs
<1>5. i \in 0 .. MaxRow
  BY CatalogueConstant
<1> HIDE DEF old, want, touched
<1>6. touched \in BOOLEAN
  BY DEF touched
<1>7. /\ r \in CatalogueTransactions /\ r.kind = kind /\ r.row = i /\ r.want = want /\ r.seen = {i}
      /\ r.loaded = old.loaded
  BY <1>3, <1>4, <1>5, <1>6 DEF CatalogueTransactions, CatalogueKinds
<1>8. K!Begin(s, r)
  BY <1>1 DEF old, want, touched
<1> HIDE DEF r
<1>9. Loads(r)
  BY <1>1, <1>2, <1>3, <1>4, <1>7 DEF Loads
<1> QED BY <1>3, <1>7, <1>8, <1>9, BeginInv

LEMMA CreateInv == ASSUME K!CatalogueAssumption, CatalogueInv, NEW s \in Transactions, K!Create(s) PROVE CatalogueInv'
<1>1. PICK name \in NewNames, default \in BOOLEAN :
        K!Begin(s, [K!Idle EXCEPT !.kind = "create", !.want = K!Row("panel", name, TRUE, default)])
  BY DEF K!Create
<1> DEFINE want == K!Row("panel", name, TRUE, default)
<1> DEFINE r == [K!Idle EXCEPT !.kind = "create", !.want = want]
<1>2. want \in Stored /\ want \in Configs
  BY CatalogueConstant, RowType
<1>3. K!Begin(s, r)
  BY <1>1
<1> HIDE DEF want
<1>4. /\ r \in CatalogueTransactions /\ r.kind = "create" /\ r.want = want /\ r.seen = {} /\ r.loaded = K!Idle.loaded
  BY <1>2, CatalogueIdleType DEF CatalogueTransactions, CatalogueKinds
<1> HIDE DEF r
<1>5. Loads(r)
  BY <1>2, <1>4, CatalogueIdleType DEF Loads
<1> QED BY <1>3, <1>4, <1>5, BeginInv

LEMMA SeedInv == ASSUME K!CatalogueAssumption, CatalogueInv, NEW s \in Transactions, K!Seed(s) PROVE CatalogueInv'
<1> DEFINE ids == {i \in K!Existing : \E n \in {<<"entry", "main">>, <<"panel", "finland">>} :
                       rows[i].server = n[1] /\ rows[i].name \in {n[2]} \cup K!Aliases(n[2])}
<1> DEFINE old == K!Read(s, ids)
<1> DEFINE r == [old EXCEPT !.kind = "seed"]
<1>1. K!Begin(s, r)
  BY DEF K!Seed
<1>2. editing[s] = K!Idle
  BY <1>1 DEF K!Begin
<1>3. ids \in SUBSET K!Existing
  OBVIOUS
<1> HIDE DEF ids
<1>4. /\ old \in CatalogueTransactions /\ ~ old.want.default /\ old.seen = ids
      /\ \A i \in K!Ids : old.loaded[i] = IF i \in ids THEN rows[i] ELSE K!NoRow
  BY <1>2, <1>3, FirstRead
<1> HIDE DEF old
<1>5. r \in CatalogueTransactions /\ r.kind = "seed" /\ r.want = old.want /\ r.seen = ids /\ r.loaded = old.loaded
  BY <1>4 DEF CatalogueTransactions, CatalogueKinds
<1> HIDE DEF r
<1>6. Loads(r)
  BY <1>4, <1>5 DEF Loads
<1>7. \A i \in r.seen : r.loaded[i] = rows[i]
  BY <1>3, <1>4, <1>5 DEF K!Existing
<1> QED BY <1>1, <1>6, <1>7, BeginInv

LEMMA SelectInv == ASSUME K!CatalogueAssumption, CatalogueInv, NEW s \in Transactions, K!Select(s) PROVE CatalogueInv'
<1> DEFINE r == editing[s]
<1> DEFINE ids == IF r.kind = "seed" THEN K!Existing ELSE IF r.want.default THEN K!Defaults ELSE {}
<1> DEFINE old == K!Read(s, ids)
<1> DEFINE new == [old EXCEPT !.at = "selected"]
<1>1. /\ editing' = [editing EXCEPT ![s] = new] /\ r.at = "loaded"
      /\ rows' = rows /\ lastRow' = lastRow /\ spoiled' = spoiled /\ untouched' = untouched
  BY DEF K!Select
<1>2. ids \in SUBSET K!Existing
  BY DEF K!Defaults
<1>3. /\ r \in CatalogueTransactions /\ Loads(r) /\ (r.want.default => r.kind # "seed")
  BY <1>1 DEF CatalogueInv, CatalogueTypes, CatalogueWellFormed, Loads
<1>4. /\ old \in CatalogueTransactions /\ old.kind = r.kind /\ old.row = r.row
      /\ old.want = r.want /\ old.alone = r.alone /\ old.seen = r.seen \cup ids
      /\ \A i \in K!Ids : old.loaded[i] = IF i \in ids \ r.seen THEN rows[i] ELSE r.loaded[i]
  BY <1>2, ReadType
<1>5. /\ r.kind = "seed" => K!Existing \subseteq ids
      /\ r.want.default => K!Defaults \subseteq ids
  BY <1>3
<1> HIDE DEF old, ids
<1>6. /\ new \in CatalogueTransactions /\ new.at = "selected" /\ new.kind = r.kind /\ new.row = r.row
      /\ new.want = r.want /\ new.alone = r.alone /\ new.seen = r.seen \cup ids
      /\ new.loaded = old.loaded
  BY <1>4 DEF CatalogueTransactions
<1> HIDE DEF new
<1>7. PICK x : x = new
  OBVIOUS
<1>8. Loads(new)
  <2>1. r.seen \subseteq K!Ids /\ ids \subseteq K!Ids
    BY <1>2, <1>3 DEF CatalogueTransactions, K!Existing
  <2>2. \A i \in ids : rows[i] # K!NoRow
    BY <1>2 DEF K!Existing
  <2> QED BY <1>3, <1>4, <1>6, <2>1, <2>2 DEF Loads
<1>9. editing' \in [Transactions -> CatalogueTransactions] /\ editing'[s] = new
      /\ \A t \in Transactions \ {s} : editing'[t] = editing[t]
  BY <1>1, <1>6 DEF CatalogueInv, CatalogueTypes
<1>10. CatalogueTypes'
  BY <1>1, <1>6, <1>8, <1>9 DEF CatalogueInv, CatalogueTypes, CatalogueWellFormed
<1>11. ASSUME r.alone PROVE Current(x)' /\ \A t \in Transactions \ {s} : editing[t].at = "idle"
  <2>1. (\A i \in r.seen : r.loaded[i] = rows[i]) /\ \A t \in Transactions \ {s} : editing[t].at = "idle"
    BY <1>1, <1>11 DEF CatalogueInv, AloneIsCurrent, Current
  <2>2. r.seen \subseteq K!Ids /\ ids \subseteq K!Ids
    BY <1>2, <1>3 DEF CatalogueTransactions, K!Existing
  <2>3. \A i \in x.seen : x.loaded[i] = rows[i]
    BY <1>4, <1>6, <1>7, <2>1, <2>2
  <2>4. K!Defaults' = K!Defaults /\ K!Existing' = K!Existing
    BY <1>1 DEF K!Defaults, K!Existing
  <2> QED BY <1>1, <1>5, <1>6, <1>7, <2>1, <2>3, <2>4 DEF Current
<1>12. AloneIsCurrent'
  <2>1. ASSUME NEW t \in Transactions, editing'[t].at # "idle", editing'[t].alone
        PROVE  Current(editing[t])' /\ \A u \in Transactions \ {t} : editing'[u].at = "idle"
    <3>1. CASE t = s
      BY <1>6, <1>7, <1>9, <1>11, <2>1, <3>1 DEF Current
    <3>2. CASE t # s
      BY <1>1, <1>9, <2>1, <3>2 DEF CatalogueInv, AloneIsCurrent
    <3> QED BY <3>1, <3>2
  <2> QED BY <2>1 DEF AloneIsCurrent
<1>13. OneOrSpoiled' /\ K!SeedServes'
  BY <1>1 DEF CatalogueInv, OneOrSpoiled, K!SeedServes, K!Defaults, K!Existing
<1> QED BY <1>10, <1>12, <1>13 DEF CatalogueInv

\* A transaction ends: whoever else is at work was not alone.
LEMMA Ended ==
  ASSUME K!CatalogueAssumption, CatalogueInv, NEW s \in Transactions, editing' = [editing EXCEPT ![s] = K!Idle],
         rows' = rows \/ editing[s].at # "idle"
  PROVE  /\ editing' \in [Transactions -> CatalogueTransactions] /\ \A t \in Transactions : CatalogueWellFormed(editing'[t])
         /\ AloneIsCurrent'
<1>1. /\ editing' \in [Transactions -> CatalogueTransactions] /\ editing'[s] = K!Idle
      /\ \A t \in Transactions \ {s} : editing'[t] = editing[t]
  BY CatalogueIdleType DEF CatalogueInv, CatalogueTypes
<1>2. \A t \in Transactions : CatalogueWellFormed(editing'[t])
  BY <1>1, CatalogueIdleType DEF CatalogueInv, CatalogueTypes
<1>3. ASSUME NEW t \in Transactions, editing'[t].at # "idle", editing'[t].alone
      PROVE  Current(editing[t])' /\ \A u \in Transactions \ {t} : editing'[u].at = "idle"
  <2>1. t # s /\ editing[t].at # "idle" /\ editing[t].alone
    BY <1>1, <1>3, CatalogueIdleType
  <2>2. Current(editing[t]) /\ \A u \in Transactions \ {t} : editing[u].at = "idle"
    BY <2>1 DEF CatalogueInv, AloneIsCurrent
  <2>3. rows' = rows
    BY <2>1, <2>2
  <2> QED BY <1>1, <2>1, <2>2, <2>3, CatalogueIdleType DEF Current, K!Defaults, K!Existing
<1> QED BY <1>1, <1>2, <1>3 DEF AloneIsCurrent

LEMMA CatalogueFailInv == ASSUME K!CatalogueAssumption, CatalogueInv, NEW s \in Transactions, K!Fail(s) PROVE CatalogueInv'
<1>1. /\ editing' = [editing EXCEPT ![s] = K!Idle]
      /\ rows' = rows /\ lastRow' = lastRow /\ spoiled' = spoiled /\ untouched' = untouched
  BY DEF K!Fail
<1>2. CatalogueTypes' /\ AloneIsCurrent'
  BY <1>1, Ended DEF CatalogueInv, CatalogueTypes
<1> QED BY <1>1, <1>2 DEF CatalogueInv, OneOrSpoiled, K!SeedServes, K!Defaults, K!Existing

-----------------------------------------------------------------------------
(* What a transaction makes of the rows                                    *)

LEMMA CatalogueClearedType ==
  ASSUME K!CatalogueAssumption, NEW loaded \in Tables, NEW but
  PROVE  /\ K!Cleared(loaded, but) \in Tables
         /\ \A i \in K!Ids : K!Cleared(loaded, but)[i].default => i = but
<1>1. ASSUME NEW i \in K!Ids PROVE [loaded[i] EXCEPT !.default = FALSE] \in Stored \cup {K!NoRow}
  <2>1. CASE loaded[i] \in Stored
    BY <2>1 DEF Stored
  <2>2. CASE loaded[i] = K!NoRow
    <3>1. [K!NoRow EXCEPT !.default = FALSE] = K!NoRow
      <4>1. \A x \in Configs : x.default = FALSE => [x EXCEPT !.default = FALSE] = x
        BY DEF Configs
      <4>2. K!NoRow.default = FALSE
        BY DEF K!NoRow
      <4> QED BY <4>1, <4>2, CatalogueConstant
    <3> QED BY <2>2, <3>1
  <2> QED BY <2>1, <2>2 DEF Tables
<1>2. ASSUME NEW i \in K!Ids PROVE [loaded[i] EXCEPT !.default = FALSE].default = FALSE
  BY DEF Tables, Stored, K!NoRow
<1> QED BY <1>1, <1>2 DEF K!Cleared, Tables

LEMMA RetiredType ==
  ASSUME K!CatalogueAssumption, NEW loaded \in Tables
  PROVE  K!Retired(loaded) \in Tables
<1>1. ASSUME NEW i \in K!Ids, loaded[i].name = "retired"
      PROVE  [loaded[i] EXCEPT !.active = FALSE, !.default = FALSE] \in Stored
  <2>1. loaded[i] \in Stored
    BY <1>1 DEF Tables, K!NoRow
  <2> QED BY <2>1 DEF Stored
<1> QED BY <1>1 DEF K!Retired, Tables

\* The rows the seed can take over for one of its own.
Takes(loaded, server, name) ==
  {i \in K!Ids : loaded[i].server = server /\ loaded[i].name \in {name} \cup K!Aliases(name)}

LEMMA UpsertType ==
  ASSUME K!CatalogueAssumption, NEW loaded \in Tables, NEW server \in {"entry", "panel"},
         NEW name \in K!Names, NEW default \in BOOLEAN
  PROVE  /\ K!Upsert(loaded, server, name, default) \in Tables
         /\ Takes(loaded, server, name) = {} => K!Upsert(loaded, server, name, default) = loaded
         /\ Takes(loaded, server, name) # {} => \E m \in Takes(loaded, server, name) :
              K!Upsert(loaded, server, name, default) = [loaded EXCEPT ![m] = K!Row(server, name, TRUE, default)]
<1> DEFINE named == {i \in K!Ids : loaded[i].server = server /\ loaded[i].name = name}
<1> DEFINE aliased == {i \in K!Ids : loaded[i].server = server /\ loaded[i].name \in K!Aliases(name)}
<1> DEFINE found == Takes(loaded, server, name)
<1> DEFINE all == IF named # {} THEN named ELSE aliased
<1>1. all \in SUBSET K!Ids /\ all \subseteq found /\ (found = {} <=> all = {})
  BY DEF Takes
<1>2. K!Upsert(loaded, server, name, default) =
        IF all = {} THEN loaded ELSE [loaded EXCEPT ![K!Max(all)] = K!Row(server, name, TRUE, default)]
  BY DEF K!Upsert
<1>3. K!Row(server, name, TRUE, default) \in Stored
  BY RowType
<1> HIDE DEF all, found
<1>4. all # {} => K!Max(all) \in found /\ K!Max(all) \in K!Ids
  BY <1>1, Newest
<1> DEFINE new == K!Upsert(loaded, server, name, default)
<1>5. new \in Tables
  BY <1>2, <1>3, <1>4 DEF Tables
<1>6. found = {} => new = loaded
  BY <1>1, <1>2
<1>7. found # {} => \E m \in found : new = [loaded EXCEPT ![m] = K!Row(server, name, TRUE, default)]
  BY <1>1, <1>2, <1>4
<1> QED BY <1>5, <1>6, <1>7 DEF found

LEMMA GoalType == ASSUME K!CatalogueAssumption, NEW r, Loads(r) PROVE K!Goal(r) \in Tables
<1>1. r.loaded \in Tables /\ r.kind \in CatalogueKinds \ {"none"} /\ r.want \in Configs /\ r.seen \subseteq K!Ids
  BY DEF Loads, CatalogueTransactions
<1>2. CASE r.kind \in {"update", "refused", "delete"}
  <2>1. r.row \in K!Ids /\ r.loaded[r.row] \in Stored
    BY <1>1, <1>2 DEF Loads, Tables
  <2>2. CASE r.kind = "update"
    <3> DEFINE others == IF r.want.default THEN K!Cleared(r.loaded, r.row) ELSE r.loaded
    <3>1. others \in Tables
      BY <1>1, CatalogueClearedType
    <3>2. [r.want EXCEPT !.server = r.loaded[r.row].server] \in Stored
      BY <1>1, <2>1 DEF Stored, Configs
    <3>3. K!Goal(r) = [others EXCEPT ![r.row] = [r.want EXCEPT !.server = r.loaded[r.row].server]]
      BY <2>2 DEF K!Goal, K!Updated
    <3> QED BY <2>1, <3>1, <3>2, <3>3 DEF Tables
  <2>3. CASE r.kind = "refused"
    <3>1. [r.loaded[r.row] EXCEPT !.name = r.want.name] \in Stored
      BY <1>1, <2>1 DEF Stored, Configs
    <3>2. K!Goal(r) = [r.loaded EXCEPT ![r.row] = [r.loaded[r.row] EXCEPT !.name = r.want.name]]
      BY <1>1, <2>1, <2>3 DEF K!Goal, Tables
    <3> QED BY <1>1, <2>1, <3>1, <3>2 DEF Tables
  <2>4. CASE r.kind = "delete"
    BY <1>1, <2>1, <2>4 DEF K!Goal, Tables
  <2> QED BY <1>2, <2>2, <2>3, <2>4
<1>3. CASE r.kind = "create"
  BY <1>1, <1>3, CatalogueClearedType DEF K!Goal
<1>4. CASE r.kind = "seed"
  <2>1. K!Upsert(r.loaded, "entry", "main", TRUE) \in Tables
    BY <1>1, UpsertType DEF K!Names
  <2>2. K!Upserted(r.loaded) \in Tables
    BY <2>1, UpsertType DEF K!Names, K!Upserted
  <2> QED BY <1>4, <2>2, RetiredType DEF K!Goal
<1> QED BY <1>1, <1>2, <1>3, <1>4 DEF CatalogueKinds

\* A row that had not changed since it was loaded is what the transaction wants it to be.
LEMMA WrittenType ==
  ASSUME K!CatalogueAssumption, rows \in Tables, NEW r, Loads(r), NEW i \in K!Ids
  PROVE  /\ K!Written(r, i) \in Stored \cup {K!NoRow}
         /\ rows[i] = K!NoRow => K!Written(r, i) = K!NoRow
         /\ i \notin r.seen => K!Written(r, i) = rows[i]
         /\ i \in r.seen /\ r.loaded[i] = rows[i] =>
              /\ K!Written(r, i).default => K!Goal(r)[i].default
              /\ rows[i] # K!NoRow /\ K!Goal(r)[i] # K!NoRow /\ K!Goal(r)[i].server = rows[i].server =>
                   K!Written(r, i) = K!Goal(r)[i]
<1> DEFINE old == r.loaded[i]
<1> DEFINE new == K!Goal(r)[i]
<1> DEFINE now == rows[i]
<1>1. /\ old \in Stored \cup {K!NoRow} /\ new \in Stored \cup {K!NoRow} /\ now \in Stored \cup {K!NoRow}
  BY GoalType DEF Loads, CatalogueTransactions, Tables
<1> DEFINE all == K!Row(now.server, K!Column(old.name, new.name, now.name),
              K!Column(old.active, new.active, now.active), K!Column(old.default, new.default, now.default))
<1>2. K!Written(r, i) =
        IF i \notin K!Changed(r) \/ now = K!NoRow THEN now ELSE IF new = K!NoRow THEN K!NoRow ELSE all
  BY DEF K!Written
<1>3. i \in K!Changed(r) <=> i \in r.seen /\ new # old
  BY DEF K!Changed, Loads, CatalogueTransactions
<1> HIDE DEF old, new, now
<1>4. ASSUME new # K!NoRow, now # K!NoRow
      PROVE  /\ all \in Stored /\ (old = now => all.default = new.default)
             /\ old = now /\ new.server = now.server => all = new
  <2>1. new \in Stored /\ now \in Stored
    BY <1>1, <1>4
  <2>2. all = [server |-> now.server, name |-> K!Column(old.name, new.name, now.name),
               active |-> K!Column(old.active, new.active, now.active),
               default |-> K!Column(old.default, new.default, now.default)]
    BY DEF K!Row
  <2>3. old = now => all = [server |-> now.server, name |-> new.name, active |-> new.active,
                            default |-> new.default]
    BY <2>2 DEF K!Column
  <2> HIDE DEF all
  <2>4. new = [server |-> new.server, name |-> new.name, active |-> new.active, default |-> new.default]
    BY <2>1 DEF Stored
  <2>5. all \in Stored
    BY <2>1, <2>2 DEF K!Column, Stored
  <2> QED BY <2>3, <2>4, <2>5
<1> HIDE DEF all
<1>5. K!Written(r, i) \in Stored \cup {K!NoRow} /\ (rows[i] = K!NoRow => K!Written(r, i) = K!NoRow)
  BY <1>1, <1>2, <1>4 DEF now
<1>6. i \notin r.seen => K!Written(r, i) = rows[i]
  BY <1>2, <1>3 DEF now
<1>7. ASSUME i \in r.seen, old = now PROVE K!Written(r, i).default => new.default
  BY <1>2, <1>3, <1>4, <1>7, CatalogueConstant
<1>8. ASSUME i \in r.seen, old = now, now # K!NoRow, new # K!NoRow, new.server = now.server
      PROVE  K!Written(r, i) = new
  BY <1>2, <1>3, <1>4, <1>8
<1> QED BY <1>5, <1>6, <1>7, <1>8 DEF old, new, now

\* An edit makes no row a default but its own.
LEMMA GoalDefault ==
  ASSUME K!CatalogueAssumption, NEW r, Loads(r), r.kind # "seed", NEW i \in K!Ids, K!Goal(r)[i].default
  PROVE  IF r.want.default THEN r.kind = "update" /\ i = r.row ELSE r.loaded[i].default
<1>1. r.loaded \in Tables /\ r.kind \in CatalogueKinds \ {"none"} /\ r.want \in Configs /\ r.seen \subseteq K!Ids
      /\ r.row \in 0 .. MaxRow
  BY DEF Loads, CatalogueTransactions
<1>2. CASE r.kind = "update"
  <2>1. r.row \in K!Ids
    BY <1>1, <1>2 DEF Loads
  <2> DEFINE others == IF r.want.default THEN K!Cleared(r.loaded, r.row) ELSE r.loaded
  <2>2. K!Goal(r) = [others EXCEPT ![r.row] = [r.want EXCEPT !.server = r.loaded[r.row].server]]
    BY <1>2 DEF K!Goal, K!Updated
  <2>3. others \in Tables
    BY <1>1, CatalogueClearedType
  <2>4. K!Goal(r)[r.row].default = r.want.default
    BY <1>1, <2>1, <2>2, <2>3 DEF Tables, Configs
  <2>5. i # r.row => K!Goal(r)[i] = others[i]
    BY <2>2, <2>3 DEF Tables
  <2>6. r.want.default /\ i # r.row => ~ others[i].default
    BY <1>1, CatalogueClearedType
  <2> QED BY <1>2, <2>4, <2>5, <2>6
<1>3. CASE r.kind = "create"
  <2>1. CASE r.want.default
    <3>1. 0 # i
      BY CatalogueConstant
    <3> QED BY <1>1, <1>3, <2>1, <3>1, CatalogueClearedType DEF K!Goal
  <2>2. CASE ~ r.want.default
    BY <1>3, <2>2 DEF K!Goal
  <2> QED BY <2>1, <2>2
<1>4. CASE r.kind \in {"refused", "delete"}
  <2>1. ~ r.want.default /\ r.row \in K!Ids /\ r.loaded[r.row] \in Stored
    BY <1>1, <1>4 DEF Loads, Tables
  <2>2. CASE r.kind = "refused"
    <3>1. K!Goal(r) = [r.loaded EXCEPT ![r.row] = [r.loaded[r.row] EXCEPT !.name = r.want.name]]
      BY <1>1, <2>1, <2>2 DEF K!Goal, Tables
    <3>2. [r.loaded[r.row] EXCEPT !.name = r.want.name].default = r.loaded[r.row].default
      BY <2>1 DEF Stored
    <3> QED BY <1>1, <2>1, <3>1, <3>2 DEF Tables
  <2>3. CASE r.kind = "delete"
    BY <1>1, <2>1, <2>3, CatalogueConstant DEF K!Goal, Tables
  <2> QED BY <1>4, <2>2, <2>3
<1> QED BY <1>1, <1>2, <1>3, <1>4 DEF CatalogueKinds

Main == K!Row("entry", "main", TRUE, TRUE)
Finland == K!Row("panel", "finland", TRUE, FALSE)

\* The seed takes over a row for the main profile, or has a new one.
LEMMA GoalServes ==
  ASSUME K!CatalogueAssumption, NEW r, Loads(r), r.kind = "seed"
  PROVE  \/ Main \in K!Missing(r.loaded)
         \/ \E m \in r.seen : r.loaded[m].server = "entry" /\ K!Goal(r)[m] = Main
<1> DEFINE found == Takes(r.loaded, "entry", "main")
<1>1. r.loaded \in Tables
  BY DEF Loads, CatalogueTransactions
<1>2. CASE found = {}
  <2> DEFINE n == <<"entry", "main", TRUE>>
  <2> DEFINE wanted == {m \in {<<"entry", "main", TRUE>>, <<"panel", "finland", FALSE>>} :
     ~ \E i \in K!Ids : r.loaded[i].server = m[1] /\ r.loaded[i].name \in {m[2]} \cup K!Aliases(m[2])}
  <2>1. n \in wanted
    BY <1>2 DEF Takes
  <2>2. K!Row(n[1], n[2], TRUE, n[3]) = Main
    BY DEF Main
  <2>3. K!Missing(r.loaded) = {K!Row(m[1], m[2], TRUE, m[3]) : m \in wanted}
    BY DEF K!Missing
  <2> HIDE DEF n, wanted
  <2> QED BY <2>1, <2>2, <2>3
<1>3. CASE found # {}
  <2> DEFINE one == K!Upsert(r.loaded, "entry", "main", TRUE)
  <2> DEFINE two == K!Upserted(r.loaded)
  <2>1. PICK m \in found : one = [r.loaded EXCEPT ![m] = Main]
    BY <1>1, <1>3, UpsertType DEF K!Names, Main
  <2>2. one \in Tables /\ one[m] = Main /\ m \in K!Ids
    <3>1. one \in Tables
      BY <1>1, UpsertType DEF K!Names
    <3> QED BY <1>1, <2>1, <3>1 DEF Tables, Takes
  <2>3. two = K!Upsert(one, "panel", "finland", FALSE)
    BY DEF K!Upserted
  <2> HIDE DEF one, two
  <2>4. two[m] = Main
    <3> DEFINE other == Takes(one, "panel", "finland")
    <3>0. "panel" \in {"entry", "panel"} /\ "finland" \in K!Names /\ FALSE \in BOOLEAN
      BY DEF K!Names
    <3>1. CASE other = {}
      BY <2>2, <2>3, <3>0, <3>1, UpsertType
    <3>2. CASE other # {}
      <4>1. PICK n \in other : two = [one EXCEPT ![n] = K!Row("panel", "finland", TRUE, FALSE)]
        BY <2>2, <2>3, <3>0, <3>2, UpsertType
      <4>2. m # n
        BY <2>2 DEF Main, K!Row, Takes
      <4> QED BY <2>2, <4>1, <4>2 DEF Tables
    <3> QED BY <3>1, <3>2
  <2>5. K!Goal(r) = K!Retired(two)
    BY DEF K!Goal, two
  <2>6. K!Goal(r)[m] = Main
    <3>1. Main.name # "retired"
      BY DEF Main, K!Row
    <3> QED BY <2>2, <2>4, <2>5, <3>1 DEF K!Retired
  <2>7. m \in r.seen /\ r.loaded[m].server = "entry"
    BY <2>1, CatalogueConstant DEF Loads, Takes
  <2> QED BY <2>6, <2>7
<1> QED BY <1>2, <1>3

\* The rows a transaction adds.
LEMMA NewRows ==
  ASSUME K!CatalogueAssumption, NEW r, Loads(r)
  PROVE  LET new == K!New(r)
             one == IF Cardinality(new) = 2 THEN CHOOSE q \in new : q.name = "main" ELSE CHOOSE q \in new : TRUE
             other == CHOOSE q \in new : q # one
         IN /\ Cardinality(new) \in 0 .. 2 /\ (Cardinality(new) = 0 => new = {}) /\ new \subseteq Stored
            /\ new # {} => one \in new
            /\ Cardinality(new) = 2 => other \in new
            /\ r.kind = "create" => Cardinality(new) = 1 /\ new = {r.want}
            /\ r.kind \notin {"create", "seed"} => new = {}
            /\ r.kind = "seed" /\ Main \in new => one = Main
<1> DEFINE new == K!New(r)
<1> DEFINE one == IF Cardinality(new) = 2 THEN CHOOSE q \in new : q.name = "main" ELSE CHOOSE q \in new : TRUE
<1> DEFINE other == CHOOSE q \in new : q # one
<1>1. /\ Main \in Stored /\ Finland \in Stored /\ Main.name = "main" /\ Finland.name = "finland" /\ Main # Finland
  BY DEF Main, Finland, K!Row, Stored, K!Names
<1>2. CASE r.kind = "create"
  <2>1. new = {r.want} /\ r.want \in Stored
    BY <1>2 DEF K!New, Loads
  <2>2. Cardinality(new) = 1
    BY <2>1, FS_Singleton
  <2> QED BY <1>2, <2>1, <2>2
<1>3. CASE r.kind = "seed"
  <2>1. new = K!Missing(r.loaded)
    BY <1>3 DEF K!New
  <2>2. new \subseteq {Main, Finland}
    <3>1. ASSUME NEW q \in new PROVE q \in {Main, Finland}
      <4>1. PICK n \in {<<"entry", "main", TRUE>>, <<"panel", "finland", FALSE>>} : q = K!Row(n[1], n[2], TRUE, n[3])
        BY <2>1 DEF K!Missing
      <4>2. CASE n = <<"entry", "main", TRUE>>
        BY <4>1, <4>2 DEF Main
      <4>3. CASE n = <<"panel", "finland", FALSE>>
        BY <4>1, <4>3 DEF Finland
      <4> QED BY <4>2, <4>3
    <3> QED BY <3>1
  <2>3. \/ new = {} \/ new = {Main} \/ new = {Finland} \/ new = {Main, Finland}
    BY <2>2
  <2> HIDE DEF new
  <2> DEFINE all == /\ Cardinality(new) \in 0 .. 2 /\ (Cardinality(new) = 0 => new = {}) /\ new \subseteq Stored
                    /\ new # {} => one \in new
                    /\ Cardinality(new) = 2 => other \in new
                    /\ Main \in new => one = Main
  <2>4. Cardinality({}) = 0 /\ Cardinality({Main}) = 1 /\ Cardinality({Finland}) = 1
    BY FS_EmptySet, FS_Singleton
  <2>5. Cardinality({Main, Finland}) = 2
    <3>1. IsFiniteSet({Main}) /\ {Main} \cup {Finland} = {Main, Finland} /\ Finland \notin {Main}
      BY <1>1, FS_Singleton
    <3> QED BY <2>4, <3>1, FS_AddElement
  <2>6. new = {} => all
    BY <2>4
  <2>7. new = {Main} => all
    BY <1>1, <2>4
  <2>8. new = {Finland} => all
    BY <1>1, <2>4
  <2>9. ASSUME new = {Main, Finland} PROVE all
    <3>1. Cardinality(new) = 2 /\ one = CHOOSE q \in new : q.name = "main"
      BY <2>5, <2>9
    <3>2. one = Main
      BY <1>1, <2>9, <3>1
    <3>3. other = CHOOSE q \in new : q # Main
      BY <3>2
    <3>4. other \in new
      BY <1>1, <2>9, <3>3
    <3> QED BY <1>1, <2>9, <3>1, <3>2, <3>4
  <2>10. all
    BY <2>3, <2>6, <2>7, <2>8, <2>9
  <2> QED BY <1>3, <2>10 DEF new
<1>4. CASE r.kind \notin {"create", "seed"}
  <2>1. new = {} /\ Cardinality(new) = 0
    BY <1>4, FS_EmptySet DEF K!New
  <2> QED BY <1>4, <2>1
<1> QED BY <1>2, <1>3, <1>4

\* What is in the table after a commit: the new rows, and the old ones as written.
LEMMA CommitRows ==
  ASSUME K!CatalogueAssumption, CatalogueInv, NEW s \in Transactions, K!Commit(s)
  PROVE  LET r == editing[s]
             new == K!New(r)
         IN /\ r \in CatalogueTransactions /\ Loads(r) /\ r.at = "selected"
            /\ rows' \in Tables /\ lastRow' \in 0 .. MaxRow
            /\ \A i \in K!Ids : rows'[i] # K!NoRow => i <= lastRow'
            /\ \A i \in K!Ids : rows'[i] = K!Written(r, i) \/ (i > lastRow /\ rows'[i] \in new)
            /\ \A i \in K!Ids : i <= lastRow => rows'[i] = K!Written(r, i)
            /\ r.kind = "create" => lastRow + 1 \in K!Ids /\ \A i \in K!Ids : i # lastRow + 1 => rows'[i] = K!Written(r, i)
            /\ r.kind = "seed" /\ Main \in new => lastRow + 1 \in K!Ids /\ rows'[lastRow + 1] = Main
<1> DEFINE r == editing[s]
<1> DEFINE new == K!New(r)
<1> DEFINE one == IF Cardinality(new) = 2 THEN CHOOSE q \in new : q.name = "main" ELSE CHOOSE q \in new : TRUE
<1> DEFINE other == CHOOSE q \in new : q # one
<1>1. r.at = "selected" /\ r \in CatalogueTransactions /\ Loads(r)
  BY DEF K!Commit, CatalogueInv, CatalogueTypes, CatalogueWellFormed
<1>2. /\ lastRow + Cardinality(new) <= MaxRow /\ lastRow' = lastRow + Cardinality(new)
      /\ rows' = [i \in K!Ids |->
            IF i = lastRow + 1 /\ new # {} THEN one
            ELSE IF i = lastRow + 2 /\ Cardinality(new) = 2 THEN other
            ELSE K!Written(r, i)]
  BY SameCount DEF K!Commit
<1>3. /\ Cardinality(new) \in 0 .. 2 /\ (Cardinality(new) = 0 => new = {}) /\ new \subseteq Stored
      /\ new # {} => one \in new
      /\ Cardinality(new) = 2 => other \in new
      /\ r.kind = "create" => Cardinality(new) = 1 /\ new = {r.want}
      /\ r.kind = "seed" /\ Main \in new => one = Main
  BY <1>1, NewRows
<1> HIDE DEF r, new, one, other
<1>4. lastRow \in 0 .. MaxRow /\ MaxRow \in Nat /\ rows \in Tables /\ K!Ids = 1 .. MaxRow
      /\ \A i \in K!Ids : rows[i] # K!NoRow => i <= lastRow
  BY CatalogueConstant DEF CatalogueInv, CatalogueTypes
<1>5. \A i \in K!Ids : K!Written(r, i) \in Stored \cup {K!NoRow} /\ (rows[i] = K!NoRow => K!Written(r, i) = K!NoRow)
  BY <1>1, <1>4, WrittenType
<1>6. new = {} => Cardinality(new) = 0
  BY FS_EmptySet
<1>7. rows' \in Tables
  BY <1>2, <1>3, <1>5 DEF Tables
<1>8. lastRow' \in 0 .. MaxRow /\ lastRow <= lastRow'
  BY <1>2, <1>3, <1>4
<1>9. \A i \in K!Ids : rows'[i] # K!NoRow => i <= lastRow'
  <2>1. ASSUME NEW i \in K!Ids, rows'[i] # K!NoRow PROVE i <= lastRow'
    <3>1. CASE i = lastRow + 1 /\ new # {}
      BY <1>2, <1>3, <1>4, <3>1
    <3>2. CASE i = lastRow + 2 /\ Cardinality(new) = 2
      BY <1>2, <1>4, <3>2
    <3>3. CASE rows'[i] = K!Written(r, i)
      <4>1. i <= lastRow
        BY <1>4, <1>5, <2>1, <3>3
      <4> QED BY <1>4, <1>8, <4>1
    <3> QED BY <1>2, <3>1, <3>2, <3>3
  <2> QED BY <2>1
<1>10. \A i \in K!Ids : rows'[i] = K!Written(r, i) \/ (i > lastRow /\ rows'[i] \in new)
  BY <1>2, <1>3, <1>4
<1>11. \A i \in K!Ids : i <= lastRow => rows'[i] = K!Written(r, i)
  BY <1>2, <1>4
<1>12. r.kind = "create" => lastRow + 1 \in K!Ids /\ \A i \in K!Ids : i # lastRow + 1 => rows'[i] = K!Written(r, i)
  BY <1>2, <1>3, <1>4
<1>13. r.kind = "seed" /\ Main \in new => lastRow + 1 \in K!Ids /\ rows'[lastRow + 1] = Main
  BY <1>2, <1>3, <1>4, <1>6
<1> QED BY <1>1, <1>7, <1>8, <1>9, <1>10, <1>11, <1>12, <1>13 DEF r, new

\* An edit that was alone adds no other default, and mends two if it chooses one.
LEMMA CommitDefault ==
  ASSUME K!CatalogueAssumption, CatalogueInv, NEW s \in Transactions, K!Commit(s) PROVE OneOrSpoiled'
<1> DEFINE r == editing[s]
<1> DEFINE new == K!New(r)
<1>1. /\ r \in CatalogueTransactions /\ Loads(r) /\ r.at = "selected"
      /\ \A i \in K!Ids : rows'[i] = K!Written(r, i) \/ (i > lastRow /\ rows'[i] \in new)
      /\ r.kind = "create" => lastRow + 1 \in K!Ids /\ \A i \in K!Ids : i # lastRow + 1 => rows'[i] = K!Written(r, i)
  BY CommitRows
<1>2. spoiled' = IF r.kind = "seed" \/ ~ r.alone THEN TRUE
                 ELSE IF r.kind \in {"create", "update"} /\ r.want.default THEN FALSE ELSE spoiled
  BY DEF K!Commit
<1>3. new = IF r.kind = "create" THEN {r.want} ELSE IF r.kind = "seed" THEN K!Missing(r.loaded) ELSE {}
  BY DEF K!New
<1> HIDE DEF r, new
<1>4. SUFFICES ASSUME r.kind # "seed", r.alone PROVE OneOrSpoiled'
  BY <1>2 DEF OneOrSpoiled
<1>5. Current(r)
  BY <1>1, <1>4 DEF r, CatalogueInv, AloneIsCurrent
<1>6. \A i \in K!Ids : /\ i \notin r.seen => K!Written(r, i) = rows[i]
                       /\ i \in r.seen => (K!Written(r, i).default => K!Goal(r)[i].default)
                       /\ rows[i] = K!NoRow => K!Written(r, i) = K!NoRow
  <2>1. rows \in Tables
    BY DEF CatalogueInv, CatalogueTypes
  <2> QED BY <1>1, <1>5, <2>1, WrittenType DEF Current
<1>7. ASSUME NEW i \in K!Ids, K!Written(r, i).default
      PROVE  IF r.want.default THEN r.kind = "update" /\ i = r.row ELSE i \in K!Defaults
  <2>1. rows[i] # K!NoRow
    BY <1>6, <1>7, CatalogueConstant
  <2>2. CASE i \in r.seen
    <3>1. IF r.want.default THEN r.kind = "update" /\ i = r.row ELSE r.loaded[i].default
      BY <1>1, <1>4, <1>6, <1>7, <2>2, GoalDefault
    <3> QED BY <1>5, <2>1, <2>2, <3>1 DEF Current, K!Defaults, K!Existing
  <2>3. CASE i \notin r.seen
    <3>1. i \in K!Defaults
      BY <1>6, <1>7, <2>1, <2>3 DEF K!Defaults, K!Existing
    <3> QED BY <1>1, <1>5, <2>3, <3>1 DEF Current
  <2> QED BY <2>2, <2>3
<1>8. CASE r.want.default
  <2>1. ASSUME NEW i \in K!Ids, rows'[i].default
        PROVE  IF r.kind = "update" THEN i = r.row ELSE i = lastRow + 1
    <3>1. CASE rows'[i] = K!Written(r, i)
      BY <1>7, <1>8, <2>1, <3>1
    <3>2. CASE rows'[i] # K!Written(r, i)
      BY <1>1, <1>3, <1>4, <2>1, <3>2
    <3> QED BY <3>1, <3>2
  <2>2. K!Defaults' = {i \in K!Ids : rows'[i] # K!NoRow /\ rows'[i].default}
    BY DEF K!Defaults, K!Existing
  <2> QED BY <2>1, <2>2 DEF OneOrSpoiled
<1>9. CASE ~ r.want.default
  <2>1. ASSUME NEW i \in K!Ids, rows'[i].default PROVE i \in K!Defaults
    <3>1. CASE rows'[i] = K!Written(r, i)
      BY <1>7, <1>9, <2>1, <3>1
    <3>2. CASE rows'[i] # K!Written(r, i)
      BY <1>1, <1>3, <1>4, <1>9, <2>1, <3>2
    <3> QED BY <3>1, <3>2
  <2>2. K!Defaults' = {i \in K!Ids : rows'[i] # K!NoRow /\ rows'[i].default}
    BY DEF K!Defaults, K!Existing
  <2>3. K!Defaults' \subseteq K!Defaults /\ (spoiled' = spoiled)
    BY <1>2, <1>4, <1>9, <2>1, <2>2
  <2> QED BY <2>3 DEF CatalogueInv, OneOrSpoiled
<1> QED BY <1>8, <1>9

LEMMA CommitServes ==
  ASSUME K!CatalogueAssumption, CatalogueInv, NEW s \in Transactions, K!Commit(s) PROVE K!SeedServes'
<1> DEFINE r == editing[s]
<1> DEFINE new == K!New(r)
<1>1. /\ r \in CatalogueTransactions /\ Loads(r) /\ r.at = "selected"
      /\ \A i \in K!Ids : i <= lastRow => rows'[i] = K!Written(r, i)
      /\ r.kind = "seed" /\ Main \in new => lastRow + 1 \in K!Ids /\ rows'[lastRow + 1] = Main
  BY CommitRows
<1>2. untouched' = (r.kind = "seed" /\ r.alone)
  BY DEF K!Commit
<1>3. r.kind = "seed" => new = K!Missing(r.loaded)
  BY DEF K!New
<1> HIDE DEF r, new
<1>4. SUFFICES ASSUME r.kind = "seed", r.alone PROVE \E i \in K!Ids : rows'[i] = Main
  <2>1. /\ Main.server = "entry" /\ Main.name = "main" /\ Main.active /\ Main.default /\ Main # K!NoRow
    BY CatalogueConstant DEF Main, K!Row
  <2> QED BY <1>2, <2>1 DEF K!SeedServes, K!Existing
<1>5. CASE Main \in K!Missing(r.loaded)
  BY <1>1, <1>3, <1>4, <1>5
<1>6. CASE \E m \in r.seen : r.loaded[m].server = "entry" /\ K!Goal(r)[m] = Main
  <2>1. PICK m \in r.seen : r.loaded[m].server = "entry" /\ K!Goal(r)[m] = Main
    BY <1>6
  <2>2. r.loaded[m] = rows[m]
    BY <1>1, <1>4, <2>1 DEF r, CatalogueInv, AloneIsCurrent, Current
  <2>3. m \in K!Ids /\ rows[m] # K!NoRow /\ m <= lastRow /\ rows \in Tables
    BY <1>1, <2>1, <2>2, CatalogueConstant DEF CatalogueInv, CatalogueTypes, CatalogueTransactions
  <2>4. Main # K!NoRow /\ Main.server = rows[m].server
    BY <2>1, <2>2, CatalogueConstant DEF Main, K!Row
  <2>5. K!Written(r, m) = Main
    BY <1>1, <2>1, <2>2, <2>3, <2>4, WrittenType
  <2> QED BY <1>1, <2>3, <2>5
<1> QED BY <1>1, <1>4, <1>5, <1>6, GoalServes

LEMMA CatalogueCommitInv == ASSUME K!CatalogueAssumption, CatalogueInv, NEW s \in Transactions, K!Commit(s) PROVE CatalogueInv'
<1>1. /\ editing' = [editing EXCEPT ![s] = K!Idle] /\ spoiled' \in BOOLEAN /\ untouched' \in BOOLEAN
      /\ editing[s].at = "selected"
  BY DEF K!Commit, CatalogueInv, CatalogueTypes
<1>2. /\ rows' \in Tables /\ lastRow' \in 0 .. MaxRow
      /\ \A i \in K!Ids : rows'[i] # K!NoRow => i <= lastRow'
  BY CommitRows
<1>3. /\ editing' \in [Transactions -> CatalogueTransactions] /\ \A t \in Transactions : CatalogueWellFormed(editing'[t])
      /\ AloneIsCurrent'
  BY <1>1, Ended
<1> QED BY <1>1, <1>2, <1>3, CommitDefault, CommitServes DEF CatalogueInv, CatalogueTypes

LEMMA CatalogueStepInv == ASSUME K!CatalogueAssumption, CatalogueInv, [K!Next]_(K!vars) PROVE CatalogueInv'
<1>1. CASE UNCHANGED K!vars
  BY <1>1 DEF K!vars, CatalogueInv, CatalogueTypes, AloneIsCurrent, Current, OneOrSpoiled, K!SeedServes, K!Defaults, K!Existing
<1>2. CASE K!Next
  BY <1>2, EditInv, CreateInv, SeedInv, SelectInv, CatalogueCommitInv, CatalogueFailInv DEF K!Next
<1> QED BY <1>1, <1>2

LEMMA Implied == ASSUME K!CatalogueAssumption, CatalogueInv PROVE K!TypeOK /\ K!OneDefault /\ K!SeedServes
<1>1. K!TypeOK
  <2>1. \A i \in K!Ids : rows[i] # K!NoRow => rows[i].server \in {"entry", "panel"} /\ rows[i].name \in K!Names
    BY DEF CatalogueInv, CatalogueTypes, Tables, Stored
  <2> QED BY <2>1 DEF CatalogueInv, CatalogueTypes, K!Existing, CatalogueWellFormed, K!TypeOK
<1>2. K!OneDefault
  <2>1. CASE spoiled
    BY <2>1 DEF K!OneDefault
  <2>2. CASE \A i, j \in K!Defaults : i = j
    <3>1. CASE K!Defaults = {}
      BY <3>1, SameCount, FS_EmptySet DEF K!OneDefault
    <3>2. CASE K!Defaults # {}
      <4>1. PICK i \in K!Defaults : K!Defaults = {i}
        BY <2>2, <3>2
      <4>2. Cardinality(K!Defaults) = 1
        BY <4>1, FS_Singleton
      <4> QED BY <4>2, SameCount DEF K!OneDefault
    <3> QED BY <3>1, <3>2
  <2> QED BY <2>1, <2>2 DEF CatalogueInv, OneOrSpoiled
<1> QED BY <1>1, <1>2 DEF CatalogueInv

LEMMA Defaulted ==
  ASSUME K!CatalogueAssumption PROVE K!Spec => [](K!TypeOK /\ K!OneDefault /\ K!SeedServes)
<1>1. K!Init => CatalogueInv
  BY CatalogueInitInv
<1>2. CatalogueInv /\ [K!Next]_(K!vars) => CatalogueInv'
  BY CatalogueStepInv
<1>3. CatalogueInv => K!TypeOK /\ K!OneDefault /\ K!SeedServes
  BY Implied
<1> QED BY <1>1, <1>2, <1>3, PTL DEF K!Spec

-----------------------------------------------------------------------------
(* Reminders and nudges                                                    *)

States == {"none", "active", "suspended"}
ReminderMarks == {0} \cup M!ReminderDays
Renewals == [on : BOOLEAN, left : 0 .. MaxLeft, mark : ReminderMarks]
Jobs == [at : {"idle", "remind", "nudge"}, todo : SUBSET People,
         left : [People -> 0 .. MaxLeft], mark : [People -> ReminderMarks],
         marked : SUBSET People, nudged : SUBSET People, gone : SUBSET People]

ReminderRowTypes ==
  /\ holding \in [People -> States] /\ left \in [People -> 0 .. MaxLeft]
  /\ mark \in [People -> ReminderMarks] /\ nudged \in [People -> 0 .. M!Never]
  /\ age \in [People -> 0 .. FirstAfter]
HistoryTypes ==
  /\ sent \in [People -> SUBSET M!ReminderDays] /\ silence \in [People -> 0 .. M!Never]
  /\ raced \subseteq People /\ missed \subseteq People /\ repeated \subseteq People
  /\ crashed \in BOOLEAN
ReminderTypes ==
  /\ ReminderRowTypes /\ HistoryTypes /\ job \in Jobs
  /\ renewal \in [People -> Renewals]
  /\ \A c \in People : ~ renewal[c].on => renewal[c] = M!NoRenewal

\* The run: whom it has still to look at, and whom it has noted.
JobShape ==
  /\ job.at = "idle" => job = M!NoJob
  /\ job.at = "remind" => job.todo \cap job.marked = {} /\ job.nudged = {}
  /\ job.at = "nudge" => job.todo \cap job.nudged = {}
  /\ job.marked \cap job.gone = {}

\* Customers whose row is as the run has loaded it.
Watched == IF job.at = "remind" THEN job.todo \cup job.marked ELSE job.marked
LoadedIsNow ==
  \A c \in Watched : c \notin raced \cup job.gone => left[c] = job.left[c] /\ mark[c] = job.mark[c]

\* What is noted was sent in this period, and the last that was: in the row, and
\* in the run that has not committed yet.
MarkWasSent ==
  \A c \in People : c \notin raced /\ mark[c] # 0 => mark[c] \in sent[c] /\ left[c] <= mark[c]
NotedWasSent ==
  \A c \in job.marked : job.left[c] \in M!ReminderDays /\ (c \notin raced => job.left[c] \in sent[c])
SentIsMarked ==
  ~ crashed => \A c \in People : c \notin raced =>
    \A d \in sent[c] : IF c \in job.marked THEN job.left[c] <= d ELSE mark[c] # 0 /\ mark[c] <= d

\* A renewal that will not clear the mark has none to clear.
RenewalClears ==
  \A c \in People : renewal[c].on /\ c \notin raced /\ renewal[c].mark = 0 => mark[c] = 0

\* Nobody was sent a nudge more recently than their row says, or the run knows.
NudgesNoted ==
  ~ crashed =>
    /\ \A c \in People : c \notin job.nudged => nudged[c] <= silence[c]
    /\ job.at = "nudge" => \A c \in job.todo : silence[c] >= Interval

ReminderInv ==
  /\ ReminderTypes /\ JobShape /\ LoadedIsNow /\ MarkWasSent /\ NotedWasSent /\ SentIsMarked
  /\ RenewalClears /\ NudgesNoted /\ M!EveryoneReminded /\ M!NotTwice

LEMMA Numbers ==
  ASSUME M!RemindersAssumption
  PROVE  /\ M!ReminderDays = 1 .. 3 /\ ReminderMarks = 0 .. 3 /\ M!Never = Interval + 1
         /\ MaxLeft \in Nat /\ FirstAfter \in Nat /\ Interval \in Nat
  BY DEF M!ReminderDays, ReminderMarks, M!Never, M!RemindersAssumption

LEMMA NoJobFields ==
  ASSUME M!RemindersAssumption
  PROVE  /\ M!NoJob \in Jobs /\ M!NoJob.at = "idle" /\ M!NoJob.todo = {} /\ M!NoJob.marked = {}
         /\ M!NoJob.nudged = {} /\ M!NoJob.gone = {}
         /\ M!NoRenewal \in Renewals /\ M!NoRenewal.on = FALSE
<1>1. [c \in People |-> 0] \in [People -> 0 .. MaxLeft]
  BY Numbers
<1>2. [c \in People |-> 0] \in [People -> ReminderMarks]
  BY Numbers
<1> HIDE DEF ReminderMarks
<1>3. M!NoJob \in Jobs
  BY <1>1, <1>2 DEF M!NoJob, Jobs
<1> QED BY <1>3, Numbers DEF M!NoJob, M!NoRenewal, Renewals

LEMMA ReminderInitInv == ASSUME M!RemindersAssumption, M!Init PROVE ReminderInv
<1>1. ReminderTypes
  <2>1. ReminderRowTypes
    BY Numbers DEF M!Init, ReminderRowTypes, States, M!RemindersAssumption
  <2>2. HistoryTypes
    <3>1. sent = [c \in People |-> {}] /\ silence = [c \in People |-> M!Never]
      BY DEF M!Init
    <3>2. sent \in [People -> SUBSET M!ReminderDays]
      BY <3>1
    <3>3. silence \in [People -> 0 .. M!Never]
      BY <3>1, Numbers
    <3> QED BY <3>2, <3>3 DEF M!Init, HistoryTypes
  <2> QED BY <2>1, <2>2, NoJobFields DEF M!Init, ReminderTypes
<1>2. JobShape /\ LoadedIsNow /\ NotedWasSent
  BY NoJobFields DEF M!Init, JobShape, LoadedIsNow, Watched, NotedWasSent
<1>3. MarkWasSent /\ RenewalClears
  BY DEF M!Init, MarkWasSent, RenewalClears
<1>4. SentIsMarked
  BY DEF M!Init, SentIsMarked
<1>5. NudgesNoted
  BY Numbers, NoJobFields DEF M!Init, NudgesNoted
<1> QED BY <1>1, <1>2, <1>3, <1>4, <1>5 DEF ReminderInv, M!Init, M!EveryoneReminded, M!NotTwice

\* What an invariant about one customer needs to know of the others: nothing.
JobTypes == /\ job.at \in {"idle", "remind", "nudge"} /\ job.todo \subseteq People
            /\ job.left \in [People -> 0 .. MaxLeft] /\ job.mark \in [People -> ReminderMarks]
            /\ job.marked \subseteq People /\ job.nudged \subseteq People /\ job.gone \subseteq People

LEMMA JobFields == ASSUME ReminderInv PROVE JobTypes
  BY DEF ReminderInv, ReminderTypes, Jobs, JobTypes

LEMMA ReminderStartInv == ASSUME M!RemindersAssumption, ReminderInv, M!Start PROVE ReminderInv'
<1> DEFINE active == {c \in People : holding[c] = "active"}
<1> DEFINE new == [M!NoJob EXCEPT !.at = "remind", !.todo = active, !.left = left, !.mark = mark]
<1>1. /\ job' = new /\ job = M!NoJob
      /\ holding' = holding /\ left' = left /\ mark' = mark /\ nudged' = nudged /\ age' = age
      /\ renewal' = renewal /\ sent' = sent /\ silence' = silence /\ raced' = raced
      /\ missed' = missed /\ repeated' = repeated /\ crashed' = crashed
  BY DEF M!Start, M!rows, M!history, ReminderInv, JobShape
<1>2. left \in [People -> 0 .. MaxLeft] /\ mark \in [People -> ReminderMarks] /\ active \subseteq People
  BY DEF ReminderInv, ReminderTypes, ReminderRowTypes
<1> HIDE DEF active
<1>3. /\ new \in Jobs /\ new.at = "remind" /\ new.todo = active /\ new.left = left /\ new.mark = mark
      /\ new.marked = {} /\ new.nudged = {} /\ new.gone = {}
  BY <1>2, NoJobFields DEF Jobs
<1> HIDE DEF new
<1>4. PICK j : j = new
  OBVIOUS
<1>5. ReminderTypes'
  BY <1>1, <1>3 DEF ReminderInv, ReminderTypes, ReminderRowTypes, HistoryTypes
<1>6. JobShape' /\ LoadedIsNow' /\ NotedWasSent'
  BY <1>1, <1>3, <1>4 DEF JobShape, LoadedIsNow, Watched, NotedWasSent
<1>7. MarkWasSent' /\ RenewalClears' /\ M!EveryoneReminded' /\ M!NotTwice'
  BY <1>1 DEF ReminderInv, MarkWasSent, RenewalClears, M!EveryoneReminded, M!NotTwice
<1>8. SentIsMarked' /\ NudgesNoted'
  BY <1>1, <1>3, <1>4, NoJobFields DEF ReminderInv, SentIsMarked, NudgesNoted
<1> QED BY <1>5, <1>6, <1>7, <1>8 DEF ReminderInv

\* A customer is passed over, or the message could not be sent.
LEMMA PassInv ==
  ASSUME M!RemindersAssumption, ReminderInv, NEW c \in People, M!Skip(c) \/ M!RemindFails(c) PROVE ReminderInv'
<1>1. /\ job' = [job EXCEPT !.todo = @ \ {c}]
      /\ holding' = holding /\ left' = left /\ mark' = mark /\ nudged' = nudged /\ age' = age
      /\ renewal' = renewal /\ sent' = sent /\ silence' = silence /\ raced' = raced
      /\ repeated' = repeated /\ crashed' = crashed /\ c \in job.todo /\ job.at = "remind"
  BY DEF M!Skip, M!RemindFails, M!rows, M!history
<1>2. /\ job' \in Jobs /\ job'.at = "remind" /\ job'.todo = job.todo \ {c} /\ job'.left = job.left
      /\ job'.mark = job.mark /\ job'.marked = job.marked /\ job'.nudged = job.nudged
      /\ job'.gone = job.gone
  BY <1>1 DEF ReminderInv, ReminderTypes, Jobs
<1>3. missed' = {}
  <2>1. CASE M!RemindFails(c)
    BY <2>1 DEF M!RemindFails, M!history, ReminderInv, M!EveryoneReminded
  <2>2. CASE M!Skip(c) /\ M!Due(c) /\ c \notin raced \cup job.gone
    <3>1. job.mark[c] # 0 /\ job.mark[c] <= job.left[c] /\ left[c] = job.left[c] /\ mark[c] = job.mark[c]
      BY <1>1, <2>2 DEF M!Skip, M!NotYet, ReminderInv, LoadedIsNow, Watched
    <3>2. mark[c] \in sent[c] /\ left[c] <= mark[c]
      BY <2>2, <3>1 DEF ReminderInv, MarkWasSent
    <3>3. mark[c] \in 0 .. 3 /\ left[c] \in 0 .. MaxLeft
      BY Numbers DEF ReminderInv, ReminderTypes, ReminderRowTypes
    <3>4. job.left[c] \in sent[c]
      BY <3>1, <3>2, <3>3, Numbers
    <3> QED BY <2>2, <3>4 DEF M!Skip, ReminderInv, M!EveryoneReminded
  <2>3. CASE M!Skip(c) /\ ~ (M!Due(c) /\ c \notin raced \cup job.gone)
    BY <2>3 DEF M!Skip, ReminderInv, M!EveryoneReminded
  <2> QED BY <2>1, <2>2, <2>3
<1>4. ReminderTypes'
  BY <1>1, <1>2, <1>3 DEF ReminderInv, ReminderTypes, ReminderRowTypes, HistoryTypes
<1>5. JobShape' /\ LoadedIsNow' /\ NotedWasSent'
  BY <1>1, <1>2 DEF ReminderInv, JobShape, LoadedIsNow, Watched, NotedWasSent
<1>6. MarkWasSent' /\ RenewalClears' /\ M!EveryoneReminded' /\ M!NotTwice'
  BY <1>1, <1>3 DEF ReminderInv, MarkWasSent, RenewalClears, M!EveryoneReminded, M!NotTwice
<1>7. SentIsMarked' /\ NudgesNoted'
  BY <1>1, <1>2 DEF ReminderInv, SentIsMarked, NudgesNoted
<1> QED BY <1>4, <1>5, <1>6, <1>7 DEF ReminderInv

LEMMA RemindInv == ASSUME M!RemindersAssumption, ReminderInv, NEW c \in People, M!Remind(c) PROVE ReminderInv'
<1>1. /\ job' = [job EXCEPT !.todo = @ \ {c}, !.marked = @ \cup {c}]
      /\ sent' = [sent EXCEPT ![c] = IF c \in raced THEN @ ELSE @ \cup {job.left[c]}]
      /\ holding' = holding /\ left' = left /\ mark' = mark /\ nudged' = nudged /\ age' = age
      /\ renewal' = renewal /\ silence' = silence /\ raced' = raced /\ missed' = missed
      /\ crashed' = crashed /\ c \in job.todo \ job.gone /\ job.at = "remind" /\ M!NotYet(c)
      /\ repeated' = IF job.left[c] \in sent[c] /\ c \notin raced THEN repeated \cup {c} ELSE repeated
  BY DEF M!Remind, M!rows
<1>2. /\ job' \in Jobs /\ job'.at = "remind" /\ job'.todo = job.todo \ {c} /\ job'.left = job.left
      /\ job'.mark = job.mark /\ job'.marked = job.marked \cup {c} /\ job'.nudged = job.nudged
      /\ job'.gone = job.gone
  BY <1>1 DEF ReminderInv, ReminderTypes, Jobs
<1>3. job.left[c] \in M!ReminderDays /\ ~ (job.mark[c] # 0 /\ job.mark[c] <= job.left[c])
  BY <1>1 DEF M!NotYet, M!Due
<1>4. c \notin job.marked
  BY <1>1 DEF ReminderInv, JobShape
<1>5. c \notin raced => left[c] = job.left[c] /\ mark[c] = job.mark[c]
  BY <1>1 DEF ReminderInv, LoadedIsNow, Watched
<1>6. /\ sent \in [People -> SUBSET M!ReminderDays] /\ sent' \in [People -> SUBSET M!ReminderDays]
      /\ c \notin raced => sent'[c] = sent[c] \cup {job.left[c]}
      /\ \A x \in People : x # c \/ c \in raced => sent'[x] = sent[x]
  BY <1>1, <1>3 DEF ReminderInv, ReminderTypes, HistoryTypes
<1>7. ReminderTypes'
  BY <1>1, <1>2, <1>6 DEF ReminderInv, ReminderTypes, ReminderRowTypes, HistoryTypes
<1>8. JobShape' /\ LoadedIsNow'
  BY <1>1, <1>2 DEF ReminderInv, JobShape, LoadedIsNow, Watched
<1>9. NotedWasSent'
  <2>1. job.marked \subseteq People
    BY JobFields DEF JobTypes
  <2> QED BY <1>1, <1>2, <1>3, <1>6, <2>1 DEF ReminderInv, NotedWasSent
<1>10. MarkWasSent'
  BY <1>1, <1>6 DEF ReminderInv, MarkWasSent
<1>11. RenewalClears' /\ M!EveryoneReminded' /\ NudgesNoted'
  BY <1>1, <1>2 DEF ReminderInv, RenewalClears, M!EveryoneReminded, NudgesNoted
\* The days left are fewer than those of every reminder of this period.
<1>12. ~ crashed /\ c \notin raced => \A d \in sent[c] : job.left[c] < d
  <2> SUFFICES ASSUME ~ crashed, c \notin raced, NEW d \in sent[c] PROVE job.left[c] < d
    OBVIOUS
  <2>1. mark[c] # 0 /\ mark[c] <= d
    BY <1>4 DEF ReminderInv, SentIsMarked
  <2>2. mark[c] \in 0 .. 3 /\ d \in 1 .. 3 /\ job.left[c] \in 1 .. 3
    BY <1>3, <1>6, Numbers DEF ReminderInv, ReminderTypes, ReminderRowTypes
  <2> QED BY <1>3, <1>5, <2>1, <2>2
<1>13. M!NotTwice'
  <2>1. job.left[c] \in 1 .. 3
    BY <1>3, Numbers
  <2> QED BY <1>1, <1>12, <2>1 DEF ReminderInv, M!NotTwice
<1>14. SentIsMarked'
  <2>1. ASSUME ~ crashed, NEW x \in People, x \notin raced, NEW d \in sent'[x]
        PROVE  IF x \in job'.marked THEN job'.left[x] <= d ELSE mark'[x] # 0 /\ mark'[x] <= d
    <3>1. CASE x # c
      BY <1>1, <1>2, <1>6, <2>1, <3>1 DEF ReminderInv, SentIsMarked
    <3>2. CASE x = c
      <4>1. job.left[c] \in 1 .. 3 /\ d \in 1 .. 3 /\ (d \in sent[c] \/ d = job.left[c])
        BY <1>3, <1>6, <2>1, <3>2, Numbers
      <4>2. job.left[c] <= d
        BY <1>12, <2>1, <3>2, <4>1
      <4> QED BY <1>2, <3>2, <4>2
    <3> QED BY <3>1, <3>2
  <2> QED BY <1>1, <2>1 DEF SentIsMarked
<1> QED BY <1>7, <1>8, <1>9, <1>10, <1>11, <1>13, <1>14 DEF ReminderInv

LEMMA NudgesInv == ASSUME M!RemindersAssumption, ReminderInv, M!Nudges PROVE ReminderInv'
<1>1. PICK B \in SUBSET {c \in People : M!Wants(c)} : job' = [job EXCEPT !.at = "nudge", !.todo = B]
  BY DEF M!Nudges
<1>2. /\ holding' = holding /\ left' = left /\ mark' = mark /\ nudged' = nudged /\ age' = age
      /\ renewal' = renewal /\ sent' = sent /\ silence' = silence /\ raced' = raced
      /\ missed' = missed /\ repeated' = repeated /\ crashed' = crashed /\ job.at = "remind"
  BY DEF M!Nudges, M!rows, M!history
<1>3. /\ job' \in Jobs /\ job'.at = "nudge" /\ job'.todo = B /\ job'.left = job.left
      /\ job'.mark = job.mark /\ job'.marked = job.marked /\ job'.nudged = job.nudged
      /\ job'.gone = job.gone
  BY <1>1 DEF ReminderInv, ReminderTypes, Jobs
<1>4. ReminderTypes'
  BY <1>2, <1>3 DEF ReminderInv, ReminderTypes, ReminderRowTypes, HistoryTypes
<1>5. JobShape' /\ LoadedIsNow' /\ NotedWasSent'
  BY <1>2, <1>3 DEF ReminderInv, JobShape, LoadedIsNow, Watched, NotedWasSent
<1>6. MarkWasSent' /\ RenewalClears' /\ M!EveryoneReminded' /\ M!NotTwice' /\ SentIsMarked'
  BY <1>2, <1>3 DEF ReminderInv, MarkWasSent, RenewalClears, M!EveryoneReminded, M!NotTwice, SentIsMarked
<1>7. NudgesNoted'
  <2>1. ASSUME ~ crashed, NEW c \in B PROVE silence[c] >= Interval
    <3>1. nudged[c] >= Interval /\ nudged[c] <= silence[c]
      BY <1>2, <2>1 DEF M!Wants, ReminderInv, JobShape, NudgesNoted
    <3>2. nudged[c] \in 0 .. M!Never /\ silence[c] \in 0 .. M!Never
      BY <2>1 DEF ReminderInv, ReminderTypes, ReminderRowTypes, HistoryTypes
    <3> QED BY <3>1, <3>2, Numbers
  <2> QED BY <1>2, <1>3, <2>1 DEF ReminderInv, NudgesNoted
<1> QED BY <1>4, <1>5, <1>6, <1>7 DEF ReminderInv

LEMMA NudgeInv ==
  ASSUME M!RemindersAssumption, ReminderInv, NEW c \in People, NEW delivered \in BOOLEAN,
         M!Nudge(c, delivered)
  PROVE  ReminderInv'
<1>1. /\ job' = [job EXCEPT !.todo = @ \ {c}, !.nudged = @ \cup {c}]
      /\ silence' = IF delivered THEN [silence EXCEPT ![c] = 0] ELSE silence
      /\ repeated' = IF delivered /\ silence[c] < Interval THEN repeated \cup {c} ELSE repeated
      /\ job.at = "nudge" /\ c \in job.todo
      /\ holding' = holding /\ left' = left /\ mark' = mark /\ nudged' = nudged /\ age' = age
      /\ renewal' = renewal /\ sent' = sent /\ raced' = raced
      /\ missed' = missed /\ crashed' = crashed
  BY DEF M!Nudge, M!rows
<1>2. /\ job' \in Jobs /\ job'.at = "nudge" /\ job'.todo = job.todo \ {c} /\ job'.left = job.left
      /\ job'.mark = job.mark /\ job'.marked = job.marked /\ job'.nudged = job.nudged \cup {c}
      /\ job'.gone = job.gone
  BY <1>1 DEF ReminderInv, ReminderTypes, Jobs
<1>3. /\ silence \in [People -> 0 .. M!Never] /\ silence' \in [People -> 0 .. M!Never]
      /\ \A x \in People \ {c} : silence'[x] = silence[x]
  BY <1>1, Numbers DEF ReminderInv, ReminderTypes, HistoryTypes
<1>4. ReminderTypes'
  BY <1>1, <1>2, <1>3 DEF ReminderInv, ReminderTypes, ReminderRowTypes, HistoryTypes
<1>5. JobShape' /\ LoadedIsNow' /\ NotedWasSent'
  BY <1>1, <1>2 DEF ReminderInv, JobShape, LoadedIsNow, Watched, NotedWasSent
<1>6. MarkWasSent' /\ RenewalClears' /\ M!EveryoneReminded' /\ SentIsMarked'
  BY <1>1, <1>2 DEF ReminderInv, MarkWasSent, RenewalClears, M!EveryoneReminded, SentIsMarked
<1>7. M!NotTwice'
  <2>1. ~ crashed => ~ silence[c] < Interval
    <3>1. ~ crashed => silence[c] >= Interval
      BY <1>1 DEF ReminderInv, NudgesNoted
    <3> QED BY <1>3, <3>1, Numbers
  <2> QED BY <1>1, <2>1 DEF ReminderInv, M!NotTwice
<1>8. NudgesNoted'
  <2>1. job.todo \subseteq People
    BY JobFields DEF JobTypes
  <2> QED BY <1>1, <1>2, <1>3, <2>1 DEF ReminderInv, NudgesNoted
<1> QED BY <1>4, <1>5, <1>6, <1>7, <1>8 DEF ReminderInv

\* What the run has noted is what it has sent, unless a renewal may clear it.
LEMMA ReminderCommitInv == ASSUME M!RemindersAssumption, ReminderInv, M!Commit PROVE ReminderInv'
<1>1. /\ mark' = [c \in People |-> IF c \in job.marked THEN job.left[c] ELSE mark[c]]
      /\ nudged' = [c \in People |-> IF c \in job.nudged THEN 0 ELSE nudged[c]]
      /\ raced' = raced \cup {c \in job.marked : renewal[c].on}
      /\ job' = M!NoJob /\ job.at = "nudge" /\ holding' = holding /\ left' = left /\ age' = age
      /\ renewal' = renewal /\ sent' = sent /\ silence' = silence
      /\ missed' = missed /\ repeated' = repeated /\ crashed' = crashed
  BY DEF M!Commit
<1>2. JobTypes
  BY JobFields
<1>3. /\ \A c \in job.marked : mark'[c] = job.left[c] /\ job.left[c] \in M!ReminderDays
      /\ \A c \in People \ job.marked : mark'[c] = mark[c]
      /\ mark' \in [People -> ReminderMarks]
  <2>1. \A c \in job.marked : job.left[c] \in M!ReminderDays
    BY DEF ReminderInv, NotedWasSent
  <2> QED BY <1>1, <1>2, <2>1 DEF JobTypes, ReminderMarks, ReminderInv, ReminderTypes, ReminderRowTypes
<1>4. /\ nudged' \in [People -> 0 .. M!Never]
      /\ \A c \in People : nudged'[c] = 0 \/ (nudged'[c] = nudged[c] /\ c \notin job.nudged)
  BY <1>1, Numbers DEF ReminderInv, ReminderTypes, ReminderRowTypes
<1>5. ReminderTypes'
  BY <1>1, <1>2, <1>3, <1>4, NoJobFields DEF ReminderInv, ReminderTypes, ReminderRowTypes, HistoryTypes, JobTypes
<1>6. JobShape' /\ LoadedIsNow' /\ NotedWasSent'
  BY <1>1, NoJobFields DEF JobShape, LoadedIsNow, Watched, NotedWasSent
<1>7. MarkWasSent'
  <2>1. ASSUME NEW c \in People, c \notin raced', mark'[c] # 0
        PROVE  mark'[c] \in sent[c] /\ left[c] <= mark'[c]
    <3>1. CASE c \in job.marked
      <4>1. c \notin job.gone /\ c \notin raced
        BY <1>1, <2>1, <3>1 DEF ReminderInv, JobShape
      <4>2. left[c] = job.left[c] /\ left[c] \in 0 .. MaxLeft
        BY <1>1, <3>1, <4>1 DEF ReminderInv, LoadedIsNow, Watched, ReminderTypes, ReminderRowTypes
      <4>3. job.left[c] \in sent[c]
        BY <3>1, <4>1 DEF ReminderInv, NotedWasSent
      <4> QED BY <1>3, <3>1, <4>2, <4>3, Numbers
    <3>2. CASE c \notin job.marked
      BY <1>1, <1>3, <2>1, <3>2 DEF ReminderInv, MarkWasSent
    <3> QED BY <3>1, <3>2
  <2> QED BY <1>1, <2>1 DEF MarkWasSent
<1>8. RenewalClears'
  BY <1>1, <1>3 DEF ReminderInv, RenewalClears
<1>9. SentIsMarked'
  <2>1. ASSUME ~ crashed, NEW c \in People, c \notin raced', NEW d \in sent[c]
        PROVE  mark'[c] # 0 /\ mark'[c] <= d
    <3>1. IF c \in job.marked THEN job.left[c] <= d ELSE mark[c] # 0 /\ mark[c] <= d
      BY <1>1, <2>1 DEF ReminderInv, SentIsMarked
    <3>2. \A x \in M!ReminderDays : x # 0
      BY Numbers
    <3> QED BY <1>3, <3>1, <3>2
  <2> QED BY <1>1, <2>1, NoJobFields DEF SentIsMarked
<1>10. NudgesNoted'
  <2>1. ASSUME ~ crashed, NEW c \in People PROVE nudged'[c] <= silence[c]
    <3>1. silence[c] \in 0 .. M!Never
      BY DEF ReminderInv, ReminderTypes, HistoryTypes
    <3>2. CASE nudged'[c] = 0
      BY <3>1, <3>2, Numbers
    <3>3. CASE nudged'[c] = nudged[c] /\ c \notin job.nudged
      BY <2>1, <3>3 DEF ReminderInv, NudgesNoted
    <3> QED BY <1>4, <3>2, <3>3
  <2> QED BY <1>1, <2>1, NoJobFields DEF NudgesNoted
<1> QED BY <1>1, <1>5, <1>6, <1>7, <1>8, <1>9, <1>10 DEF ReminderInv, M!EveryoneReminded, M!NotTwice

LEMMA CrashInv == ASSUME M!RemindersAssumption, ReminderInv, M!Crash PROVE ReminderInv'
<1>1. /\ job' = M!NoJob /\ crashed' = TRUE
      /\ holding' = holding /\ left' = left /\ mark' = mark /\ nudged' = nudged /\ age' = age
      /\ renewal' = renewal /\ sent' = sent /\ silence' = silence /\ raced' = raced
      /\ missed' = missed /\ repeated' = repeated
  BY DEF M!Crash, M!rows
<1>2. ReminderTypes'
  BY <1>1, NoJobFields DEF ReminderInv, ReminderTypes, ReminderRowTypes, HistoryTypes
<1>3. JobShape' /\ LoadedIsNow' /\ NotedWasSent'
  BY <1>1, NoJobFields DEF JobShape, LoadedIsNow, Watched, NotedWasSent
<1>4. MarkWasSent' /\ RenewalClears' /\ M!EveryoneReminded' /\ M!NotTwice' /\ SentIsMarked' /\ NudgesNoted'
  BY <1>1 DEF ReminderInv, MarkWasSent, RenewalClears, M!EveryoneReminded, M!NotTwice, SentIsMarked, NudgesNoted
<1> QED BY <1>2, <1>3, <1>4 DEF ReminderInv

-----------------------------------------------------------------------------
LEMMA RenewStartInv ==
  ASSUME M!RemindersAssumption, ReminderInv, NEW c \in People, M!RenewStart(c) PROVE ReminderInv'
<1> DEFINE new == [on |-> TRUE, left |-> left[c], mark |-> mark[c]]
<1>1. /\ renewal' = [renewal EXCEPT ![c] = new] /\ job' = job
      /\ holding' = holding /\ left' = left /\ mark' = mark /\ nudged' = nudged /\ age' = age
      /\ sent' = sent /\ silence' = silence /\ raced' = raced
      /\ missed' = missed /\ repeated' = repeated /\ crashed' = crashed
  BY DEF M!RenewStart, M!rows, M!history
<1>2. new \in Renewals /\ new.on /\ new.mark = mark[c]
  BY DEF ReminderInv, ReminderTypes, ReminderRowTypes, Renewals
<1> HIDE DEF new
<1>3. /\ renewal' \in [People -> Renewals] /\ renewal'[c] = new
      /\ \A x \in People \ {c} : renewal'[x] = renewal[x]
  BY <1>1, <1>2 DEF ReminderInv, ReminderTypes
<1>4. ReminderTypes'
  BY <1>1, <1>2, <1>3 DEF ReminderInv, ReminderTypes, ReminderRowTypes, HistoryTypes
<1>5. RenewalClears'
  BY <1>1, <1>2, <1>3 DEF ReminderInv, RenewalClears
<1> QED BY <1>1, <1>4, <1>5 DEF ReminderInv, JobShape, LoadedIsNow, Watched, MarkWasSent, NotedWasSent,
                            SentIsMarked, NudgesNoted, M!EveryoneReminded, M!NotTwice

\* After a renewal the mark is gone, or the renewal has overlapped a run.
LEMMA RenewCommitInv ==
  ASSUME M!RemindersAssumption, ReminderInv, NEW c \in People, NEW gift \in BOOLEAN, M!RenewCommit(c, gift)
  PROVE  ReminderInv'
<1>1. /\ renewal[c].on /\ c \notin job.marked /\ (gift => c \notin job.nudged)
      /\ holding' = [holding EXCEPT ![c] = "active"] /\ left' = [left EXCEPT ![c] = MaxLeft]
      /\ mark' = [mark EXCEPT ![c] = M!ClearedMark(c)]
      /\ nudged' = IF gift THEN [nudged EXCEPT ![c] = 0] ELSE nudged
      /\ sent' = [sent EXCEPT ![c] = {}]
      /\ raced' = IF M!RunLists(c) \/ (c \in raced /\ mark'[c] # 0) THEN raced \cup {c} ELSE raced \ {c}
      /\ renewal' = [renewal EXCEPT ![c] = M!NoRenewal]
      /\ age' = age /\ job' = job /\ silence' = silence /\ missed' = missed
      /\ repeated' = repeated /\ crashed' = crashed
  BY DEF M!RenewCommit
<1>2. /\ holding \in [People -> States] /\ left \in [People -> 0 .. MaxLeft]
      /\ mark \in [People -> ReminderMarks] /\ nudged \in [People -> 0 .. M!Never]
      /\ sent \in [People -> SUBSET M!ReminderDays] /\ renewal \in [People -> Renewals]
  BY DEF ReminderInv, ReminderTypes, ReminderRowTypes, HistoryTypes
<1>3. M!ClearedMark(c) \in ReminderMarks /\ (c \notin raced => M!ClearedMark(c) = 0)
  BY <1>1, <1>2 DEF M!ClearedMark, ReminderMarks, ReminderInv, RenewalClears
<1>4. /\ holding' \in [People -> States] /\ left' \in [People -> 0 .. MaxLeft]
      /\ mark' \in [People -> ReminderMarks] /\ mark'[c] = M!ClearedMark(c)
      /\ sent' \in [People -> SUBSET M!ReminderDays] /\ sent'[c] = {}
      /\ renewal' \in [People -> Renewals] /\ renewal'[c] = M!NoRenewal
      /\ \A x \in People \ {c} :
           /\ left'[x] = left[x] /\ mark'[x] = mark[x] /\ sent'[x] = sent[x] /\ renewal'[x] = renewal[x]
  BY <1>1, <1>2, <1>3, Numbers, NoJobFields DEF States
<1>5. /\ nudged' \in [People -> 0 .. M!Never]
      /\ \A x \in People : nudged'[x] = nudged[x] \/ nudged'[x] = 0
  BY <1>1, <1>2, Numbers
<1>6. /\ raced' \subseteq People /\ (M!RunLists(c) => c \in raced')
      /\ (c \notin raced' => mark'[c] = 0)
      /\ \A x \in People \ {c} : x \in raced' <=> x \in raced
  BY <1>1, <1>3, <1>4 DEF ReminderInv, ReminderTypes, HistoryTypes
<1>7. ReminderTypes'
  BY <1>1, <1>4, <1>5, <1>6 DEF ReminderInv, ReminderTypes, ReminderRowTypes, HistoryTypes
<1>8. JobShape'
  BY <1>1 DEF ReminderInv, JobShape
<1>9. LoadedIsNow'
  <2>1. Watched' = Watched /\ Watched \subseteq People /\ (c \in Watched => M!RunLists(c))
    BY <1>1, JobFields DEF Watched, M!RunLists, JobTypes
  <2> QED BY <1>1, <1>4, <1>6, <2>1 DEF ReminderInv, LoadedIsNow
<1>10. NotedWasSent'
  <2>1. job.marked \subseteq People
    BY JobFields DEF JobTypes
  <2> QED BY <1>1, <1>4, <1>6, <2>1 DEF ReminderInv, NotedWasSent
<1>11. MarkWasSent' /\ SentIsMarked'
  BY <1>1, <1>4, <1>6 DEF ReminderInv, MarkWasSent, SentIsMarked
<1>12. RenewalClears'
  BY <1>4, <1>6, NoJobFields DEF ReminderInv, RenewalClears
<1>13. NudgesNoted'
  <2>1. ASSUME ~ crashed, NEW x \in People, x \notin job.nudged PROVE nudged'[x] <= silence[x]
    <3>1. silence[x] \in 0 .. M!Never /\ nudged[x] <= silence[x]
      BY <2>1 DEF ReminderInv, ReminderTypes, HistoryTypes, NudgesNoted
    <3> QED BY <1>5, <3>1, Numbers
  <2> QED BY <1>1, <2>1 DEF ReminderInv, NudgesNoted
<1> QED BY <1>1, <1>7, <1>8, <1>9, <1>10, <1>11, <1>12, <1>13 DEF ReminderInv, M!EveryoneReminded, M!NotTwice

\* Only the state changes: a suspended subscription, and one that is over.
LEMMA StateInv ==
  ASSUME M!RemindersAssumption, ReminderInv, NEW c \in People, M!Deactivate(c) \/ M!Lapse(c) PROVE ReminderInv'
<1>1. /\ holding' \in [People -> States] /\ job' = job /\ renewal' = renewal
      /\ left' = left /\ mark' = mark /\ nudged' = nudged /\ age' = age
      /\ sent' = sent /\ silence' = silence /\ raced' = raced
      /\ missed' = missed /\ repeated' = repeated /\ crashed' = crashed
  BY DEF M!Deactivate, M!Lapse, M!history, ReminderInv, ReminderTypes, ReminderRowTypes, States
<1>2. ReminderTypes'
  BY <1>1 DEF ReminderInv, ReminderTypes, ReminderRowTypes, HistoryTypes
<1> QED BY <1>1, <1>2 DEF ReminderInv, JobShape, LoadedIsNow, Watched, MarkWasSent, NotedWasSent,
                      SentIsMarked, RenewalClears, NudgesNoted, M!EveryoneReminded, M!NotTwice

LEMMA ReminderDeleteInv == ASSUME M!RemindersAssumption, ReminderInv, NEW c \in People, M!Delete(c) PROVE ReminderInv'
<1>1. /\ ~ renewal[c].on /\ c \notin job.marked
      /\ holding' = [holding EXCEPT ![c] = "none"] /\ left' = [left EXCEPT ![c] = 0]
      /\ mark' = [mark EXCEPT ![c] = 0] /\ sent' = [sent EXCEPT ![c] = {}]
      /\ job' = IF M!RunLists(c) THEN [job EXCEPT !.gone = @ \cup {c}] ELSE job
      /\ nudged' = nudged /\ age' = age /\ renewal' = renewal /\ silence' = silence /\ raced' = raced
      /\ missed' = missed /\ repeated' = repeated /\ crashed' = crashed
  BY DEF M!Delete
<1>2. /\ job' \in Jobs /\ job'.at = job.at /\ job'.todo = job.todo /\ job'.left = job.left
      /\ job'.mark = job.mark /\ job'.marked = job.marked /\ job'.nudged = job.nudged
      /\ job'.gone = IF M!RunLists(c) THEN job.gone \cup {c} ELSE job.gone
      /\ job.at = "idle" => job' = job
  BY <1>1 DEF ReminderInv, ReminderTypes, Jobs, M!RunLists
<1>3. /\ holding \in [People -> States] /\ left \in [People -> 0 .. MaxLeft]
      /\ mark \in [People -> ReminderMarks] /\ sent \in [People -> SUBSET M!ReminderDays]
  BY DEF ReminderInv, ReminderTypes, ReminderRowTypes, HistoryTypes
<1>4. /\ holding' \in [People -> States] /\ left' \in [People -> 0 .. MaxLeft]
      /\ mark' \in [People -> ReminderMarks] /\ mark'[c] = 0
      /\ sent' \in [People -> SUBSET M!ReminderDays] /\ sent'[c] = {}
      /\ \A x \in People \ {c} : left'[x] = left[x] /\ mark'[x] = mark[x] /\ sent'[x] = sent[x]
  BY <1>1, <1>3, Numbers DEF States
<1>5. ReminderTypes'
  BY <1>1, <1>2, <1>4 DEF ReminderInv, ReminderTypes, ReminderRowTypes, HistoryTypes
<1>6. JobShape'
  BY <1>1, <1>2 DEF ReminderInv, JobShape
<1>7. LoadedIsNow'
  <2>1. Watched' = Watched /\ Watched \subseteq People /\ (c \in Watched => c \in job'.gone)
    BY <1>1, <1>2, JobFields DEF Watched, M!RunLists, JobTypes
  <2> QED BY <1>1, <1>2, <1>4, <2>1 DEF ReminderInv, LoadedIsNow
<1>8. NotedWasSent'
  <2>1. job.marked \subseteq People
    BY JobFields DEF JobTypes
  <2> QED BY <1>1, <1>2, <1>4, <2>1 DEF ReminderInv, NotedWasSent
<1>9. MarkWasSent' /\ SentIsMarked' /\ RenewalClears'
  BY <1>1, <1>2, <1>4 DEF ReminderInv, MarkWasSent, SentIsMarked, RenewalClears
<1>10. NudgesNoted'
  BY <1>1, <1>2 DEF ReminderInv, NudgesNoted
<1> QED BY <1>1, <1>5, <1>6, <1>7, <1>8, <1>9, <1>10 DEF ReminderInv, M!EveryoneReminded, M!NotTwice

\* The days a subscription has left only become fewer, and a nudge only older.
LEMMA NewDayInv == ASSUME M!RemindersAssumption, ReminderInv, M!NewDay PROVE ReminderInv'
<1>1. /\ left' = [c \in People |-> IF left[c] > 0 THEN left[c] - 1 ELSE 0]
      /\ nudged' = [c \in People |-> IF nudged[c] < Interval THEN nudged[c] + 1 ELSE nudged[c]]
      /\ age' = [c \in People |-> IF age[c] < FirstAfter THEN age[c] + 1 ELSE age[c]]
      /\ silence' = [c \in People |-> IF silence[c] < Interval THEN silence[c] + 1 ELSE silence[c]]
      /\ holding' = holding /\ mark' = mark /\ renewal' = renewal /\ job' = job /\ job = M!NoJob
      /\ sent' = sent /\ raced' = raced
      /\ missed' = missed /\ repeated' = repeated /\ crashed' = crashed
  BY DEF M!NewDay, ReminderInv, JobShape
<1>2. \A c \in People :
        /\ left[c] \in 0 .. MaxLeft /\ nudged[c] \in 0 .. M!Never /\ age[c] \in 0 .. FirstAfter
        /\ silence[c] \in 0 .. M!Never /\ mark[c] \in 0 .. 3
  BY Numbers DEF ReminderInv, ReminderTypes, ReminderRowTypes, HistoryTypes
<1>3. \A c \in People :
        /\ left'[c] \in 0 .. MaxLeft /\ left'[c] <= left[c]
        /\ age'[c] \in 0 .. FirstAfter
  BY <1>1, <1>2, Numbers
<1>4. \A c \in People :
        /\ nudged'[c] \in 0 .. M!Never /\ silence'[c] \in 0 .. M!Never
        /\ nudged[c] <= silence[c] => nudged'[c] <= silence'[c]
  BY <1>1, <1>2, Numbers
<1>5. ReminderTypes'
  BY <1>1, <1>3, <1>4 DEF ReminderInv, ReminderTypes, ReminderRowTypes, HistoryTypes
<1>6. JobShape' /\ LoadedIsNow' /\ NotedWasSent'
  BY <1>1, NoJobFields DEF JobShape, LoadedIsNow, Watched, NotedWasSent
<1>7. MarkWasSent'
  <2>1. ASSUME NEW c \in People, c \notin raced, mark[c] # 0
        PROVE  mark[c] \in sent[c] /\ left'[c] <= mark[c]
    <3>1. mark[c] \in sent[c] /\ left[c] <= mark[c]
      BY <2>1 DEF ReminderInv, MarkWasSent
    <3> QED BY <1>2, <1>3, <3>1, Numbers
  <2> QED BY <1>1, <2>1 DEF MarkWasSent
<1>8. SentIsMarked' /\ RenewalClears'
  BY <1>1 DEF ReminderInv, SentIsMarked, RenewalClears
<1>9. NudgesNoted'
  BY <1>1, <1>4, NoJobFields DEF ReminderInv, NudgesNoted
<1> QED BY <1>1, <1>5, <1>6, <1>7, <1>8, <1>9 DEF ReminderInv, M!EveryoneReminded, M!NotTwice

LEMMA ReminderStepInv == ASSUME M!RemindersAssumption, ReminderInv, [M!Next]_(M!vars) PROVE ReminderInv'
<1>1. CASE UNCHANGED M!vars
  BY <1>1 DEF M!vars, M!rows, M!history, ReminderInv, ReminderTypes, ReminderRowTypes, HistoryTypes, JobShape, LoadedIsNow,
     Watched, MarkWasSent, NotedWasSent, SentIsMarked, RenewalClears, NudgesNoted, M!EveryoneReminded,
     M!NotTwice
<1>2. CASE M!Next
  BY <1>2, ReminderStartInv, NudgesInv, ReminderCommitInv, CrashInv, NewDayInv, PassInv, RemindInv, NudgeInv,
     RenewCommitInv, RenewStartInv, StateInv, ReminderDeleteInv DEF M!Next
<1> QED BY <1>1, <1>2

LEMMA Reminded ==
  ASSUME M!RemindersAssumption PROVE M!Spec => [](M!EveryoneReminded /\ M!NotTwice)
<1>1. M!Init => ReminderInv
  BY ReminderInitInv
<1>2. ReminderInv /\ [M!Next]_(M!vars) => ReminderInv'
  BY ReminderStepInv
<1>3. ReminderInv => M!EveryoneReminded /\ M!NotTwice
  BY DEF ReminderInv
<1> QED BY <1>1, <1>2, <1>3, PTL DEF M!Spec

LEMMA ReminderTypesHold == ASSUME M!RemindersAssumption PROVE M!Spec => []M!TypeOK
<1>1. M!Init => ReminderInv
  BY ReminderInitInv
<1>2. ReminderInv /\ [M!Next]_(M!vars) => ReminderInv'
  BY ReminderStepInv
<1>3. ReminderInv => M!TypeOK
  BY DEF ReminderInv, ReminderTypes, ReminderRowTypes, HistoryTypes, States, ReminderMarks, JobShape, M!TypeOK
<1> QED BY <1>1, <1>2, <1>3, PTL DEF M!Spec

-----------------------------------------------------------------------------
(* A behaviour of the run is one of each part                              *)

LEMMA AttributionPart == OthersSpec => A!Spec
<1>1. OthersInit => A!Init
  BY DEF OthersInit
<1>2. [OthersNext]_<<part, vars, attribution, dialogues, catalogue, reminders>> => [A!Next]_(A!vars)
  BY DEF OthersNext, attribution, A!vars, A!history
<1> QED BY <1>1, <1>2, PTL DEF OthersSpec, A!Spec

LEMMA DialoguesPart == OthersSpec => D!Spec
<1>1. OthersInit => D!Init
  BY DEF OthersInit
<1>2. [OthersNext]_<<part, vars, attribution, dialogues, catalogue, reminders>> => [D!Next]_(D!vars)
  BY DEF OthersNext, dialogues, D!vars
<1> QED BY <1>1, <1>2, PTL DEF OthersSpec, D!Spec

LEMMA CataloguePart == OthersSpec => K!Spec
<1>1. OthersInit => K!Init
  BY DEF OthersInit
<1>2. [OthersNext]_<<part, vars, attribution, dialogues, catalogue, reminders>> => [K!Next]_(K!vars)
  BY DEF OthersNext, catalogue, K!vars
<1> QED BY <1>1, <1>2, PTL DEF OthersSpec, K!Spec

LEMMA RemindersPart == OthersSpec => M!Spec
<1>1. OthersInit => M!Init
  BY DEF OthersInit
<1>2. [OthersNext]_<<part, vars, attribution, dialogues, catalogue, reminders>> => [M!Next]_(M!vars)
  BY DEF OthersNext, reminders, M!vars, M!rows, M!history
<1> QED BY <1>1, <1>2, PTL DEF OthersSpec, M!Spec

-----------------------------------------------------------------------------
(* Theorems                                                                *)

\* Attribution: whatever registrations, clicks, switches, deletions and runs of the
\* script overlap, what brought a customer stays with the row, nobody becomes their
\* own referrer, alone or in a circle, and no redirected click is lost unless two
\* came at once.
THEOREM AttributionHolds == OthersSpec => []AttributionKept
<1>1. A!Spec => [](A!AttributionKept /\ A!ClicksCounted)
  BY OthersAssumption, Attributed
<1>2. A!AttributionKept /\ A!ClicksCounted => AttributionKept
  BY DEF AttributionKept
<1> QED BY <1>1, <1>2, AttributionPart, PTL

\* Dialogues: the button of any preview, pressed in any state of the dialogue and
\* after any restart of the bot, sends what was shown to whom it named, and once.
THEOREM DialoguesHold == OthersSpec => []SentAsShown
<1>1. D!Spec => []DialogueInv
  BY OthersAssumption, Dialogued
<1>2. DialogueInv => SentAsShown
  BY DialoguesImplied DEF SentAsShown
<1> QED BY <1>1, <1>2, DialoguesPart, PTL

\* Catalogue: however many edits, deletions and seeds overlap, there is one default
\* unless a seed or overlapping edits came since it was chosen, and what the seed
\* leaves serves.
THEOREM CatalogueHolds == OthersSpec => []OneDefault
<1>1. K!Spec => [](K!TypeOK /\ K!OneDefault /\ K!SeedServes)
  BY OthersAssumption, Defaulted
<1>2. K!TypeOK /\ K!OneDefault /\ K!SeedServes => OneDefault
  BY DEF OneDefault
<1> QED BY <1>1, <1>2, CataloguePart, PTL

\* Reminders: a run passes over nobody who is due, unless a renewal overlapped it,
\* and nobody gets a message twice or too early, unless a run died before its commit.
THEOREM RemindersHold == OthersSpec => []RemindedOnce
<1>1. M!Spec => [](M!EveryoneReminded /\ M!NotTwice)
  BY OthersAssumption, Reminded
<1>2. M!EveryoneReminded /\ M!NotTwice => RemindedOnce
  BY DEF RemindedOnce
<1> QED BY <1>1, <1>2, RemindersPart, PTL

PartType ==
  part \in {"payments", "attribution", "dialogues", "catalogue", "reminders"}

\* Types: the rows, sessions, handlers and histories of the four parts.
THEOREM OthersTypes == OthersSpec => []OthersTypeOK
<1>1. A!Spec => []A!TypeOK
  BY OthersAssumption, AttributionTypesHold
<1>2. D!Spec => []DialogueInv
  BY OthersAssumption, Dialogued
<1>3. K!Spec => [](K!TypeOK /\ K!OneDefault /\ K!SeedServes)
  BY OthersAssumption, Defaulted
<1>4. M!Spec => []M!TypeOK
  BY OthersAssumption, ReminderTypesHold
<1>5. OthersInit => PartType
  BY DEF OthersInit, PartType
<1>6. PartType /\ [OthersNext]_<<part, vars, attribution, dialogues, catalogue, reminders>>
      => PartType'
  BY DEF OthersNext, PartType
<1>7. /\ PartType
      /\ A!TypeOK /\ DialogueInv /\ K!TypeOK /\ K!OneDefault /\ K!SeedServes /\ M!TypeOK
      => OthersTypeOK
  BY DialoguesImplied DEF OthersTypeOK, PartType
<1> QED BY <1>1, <1>2, <1>3, <1>4, <1>5, <1>6, <1>7,
           AttributionPart, DialoguesPart, CataloguePart, RemindersPart, PTL DEF OthersSpec
===============================================================================
