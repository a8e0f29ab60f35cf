--------------------------- MODULE Purchases_proofs ---------------------------
(***************************************************************************)
(* What holds of balances and promo counters for every number of users,    *)
(* concurrent requests, prices and amounts.                                *)
(***************************************************************************)
EXTENDS Purchases, TLAPS

\* A session in the middle of its work: past the checks of extend_subscription.
Checked(s) == pc[s] \in {"valid", "redeem", "reward", "bonus", "done"}

\* What a session loaded is still what is committed, unless the row is raced.
SnapshotsHold ==
  \A t \in Sessions, u \in Users \ raced : Loaded(t, u) => Base(t, u) = balance[u]

\* What sessions remember of the promo code.
PromoSeen ==
  \A s \in Sessions :
    /\ pc[s] # "idle" => seenUsed[s] <= Len(redemptions)
    /\ Checked(s) /\ op[s].promo => seenUsed[s] < MaxUses

\* What sessions remember of balances.
SolventSessions ==
  \A s \in Sessions :
    /\ pc[s] # "idle" => seen[s] >= 0
    /\ pc[s] = "bonus" \/ (pc[s] = "done" /\ Earns(op[s])) => seenReferrer[s] >= 0
    /\ Checked(s) /\ op[s].kind = "balance" => seen[s] >= Pays(op[s])

\* An admin only ever adds.
Generous == \A a \in Adjustments : a > 0
Solvent == Generous => SolventSessions /\ \A u \in Users : balance[u] >= 0

-------------------------------------------------------------------------------
(* Operations and their amounts                                            *)

LEMMA OperationFields ==
  ASSUME NEW o \in Operations
  PROVE  /\ o.kind \in {"balance", "gateway", "deposit", "adjust"}
         /\ o.user \in Users /\ o.promo \in BOOLEAN
         /\ o.kind = "deposit" => o.amount \in Nat \ {0}
         /\ o.kind = "adjust" => o.amount \in Adjustments
         /\ ~ IsPurchase(o) => o.promo = FALSE
  BY PurchaseAssumption DEF Operations, IsPurchase, PurchaseAssumption

LEMMA Amounts ==
  ASSUME NEW o \in Operations
  PROVE  /\ Pays(o) \in Int /\ Effect(o) \in Int
         /\ o.kind # "adjust" => Pays(o) \in Nat
         /\ o.kind = "balance" => Effect(o) = - Pays(o)
         /\ o.kind = "gateway" => Effect(o) = 0
         /\ o.kind = "deposit" => Effect(o) > 0
         /\ o.kind = "adjust" => Effect(o) \in Adjustments
  <1>1. /\ o.kind \in {"balance", "gateway", "deposit", "adjust"}
        /\ o.kind = "deposit" => o.amount \in Nat \ {0}
        /\ o.kind = "adjust" => o.amount \in Adjustments /\ o.amount \in Int
    BY OperationFields, PurchaseAssumption DEF PurchaseAssumption
  <1>2. Price \in Nat /\ Discount \in 0 .. Price
    BY PurchaseAssumption DEF PurchaseAssumption
  <1>3. QED
    BY <1>1, <1>2 DEF Pays, Effect, IsPurchase

LEMMA ShareIsNatural ==
  ASSUME NEW x \in Nat, NEW p \in Nat
  PROVE  (x * p) \div 100 \in Nat
  <1>1. x * p \in Nat
    OBVIOUS
  <1>2. \A y \in Nat : y \div 100 \in Nat
    OBVIOUS
  <1>3. QED
    BY <1>1, <1>2

LEMMA BonusIsNatural == ASSUME NEW o \in Operations PROVE Bonus(o) \in Nat
  <1>1. CASE o.kind = "adjust" \/ Referrer[o.user] = NoUser
    BY <1>1 DEF Bonus
  <1>2. CASE ~ (o.kind = "adjust" \/ Referrer[o.user] = NoUser)
    <2>1. Pays(o) \in Nat /\ Percent \in Nat
      BY <1>2, Amounts, PurchaseAssumption DEF PurchaseAssumption
    <2>2. QED
      BY <1>2, <2>1, ShareIsNatural DEF Bonus
  <1>3. QED
    BY <1>1, <1>2

\* Whom an operation pays a bonus: the referrer, another user.
LEMMA Deltas ==
  ASSUME NEW o \in Operations, NEW u \in Users
  PROVE  /\ Delta(o, u) \in Int
         /\ u = o.user => Delta(o, u) = Effect(o)
         /\ u # o.user /\ Delta(o, u) # 0 => u = Referrer[o.user] /\ Earns(o)
         /\ u # o.user => Delta(o, u) >= 0
  <1>1. Effect(o) \in Int /\ Bonus(o) \in Nat
    BY Amounts, BonusIsNatural
  <1>2. CASE u = o.user
    <2>1. Delta(o, u) = Effect(o)
      BY <1>2, OperationFields, PurchaseAssumption DEF Delta, PurchaseAssumption
    <2>2. QED
      BY <1>1, <1>2, <2>1
  <1>3. CASE u # o.user /\ u = Referrer[o.user]
    <2>1. Delta(o, u) = Bonus(o)
      BY <1>3 DEF Delta
    <2>2. QED
      BY <1>1, <1>3, <2>1 DEF Earns
  <1>4. CASE u # o.user /\ u # Referrer[o.user]
    <2>1. Delta(o, u) = 0
      BY <1>4 DEF Delta
    <2>2. QED
      BY <1>4, <2>1
  <1>5. QED
    BY <1>2, <1>3, <1>4

LEMMA EarnedByReferrer ==
  ASSUME NEW o \in Operations, Earns(o)
  PROVE  Referrer[o.user] \in Users /\ Referrer[o.user] # o.user
  <1>1. Referrer[o.user] # NoUser
    BY DEF Earns, Bonus
  <1>2. QED
    BY <1>1, OperationFields, PurchaseAssumption DEF PurchaseAssumption

-------------------------------------------------------------------------------
(* Types                                                                   *)

LEMMA TypeInit == Init => TypeOK
  <1> SUFFICES ASSUME Init PROVE TypeOK
    OBVIOUS
  <1>1. PICK u \in Users : TRUE
    BY PurchaseAssumption DEF PurchaseAssumption
  <1>2. [kind |-> "balance", user |-> u, promo |-> FALSE, amount |-> 0] \in Operations
    BY DEF Operations
  <1>3. (CHOOSE o \in Operations : TRUE) \in Operations
    BY <1>2
  <1>4. MaxOps \in Nat /\ MaxFailures \in Nat
    BY PurchaseAssumption DEF PurchaseAssumption
  <1> HIDE DEF Operations
  <1>5. QED
    BY <1>3, <1>4 DEF Init, TypeOK, PC

LEMMA UpdateType ==
  ASSUME TypeOK, NEW s \in Sessions, NEW r \in Rows, Update(s, r), pc'[s] # "idle",
         \A t \in Sessions \ {s} : pc'[t] = pc[t]
  PROVE  /\ held' \in [Sessions -> SUBSET Rows]
         /\ \A t \in Sessions : pc'[t] = "idle" => held'[t] = {}
  BY DEF TypeOK, Update

LEMMA TypeWork ==
  ASSUME TypeOK, NEW s \in Sessions,
         \/ Validate(s) \/ NoReward(s) \/ LoadReferrer(s)
         \/ Charge(s) \/ Redeem(s) \/ PayBonus(s)
  PROVE  TypeOK'
  <1>0. op[s] \in Operations
    BY DEF TypeOK
  <1>1. CASE Validate(s)
    BY <1>1 DEF Validate, TypeOK, Goto, PC, dbVars
  <1>2. CASE NoReward(s)
    BY <1>2 DEF NoReward, TypeOK, Goto, PC, dbVars
  <1>3. CASE LoadReferrer(s)
    <2>1. balance[Referrer[op[s].user]] \in Int
      BY <1>0, <1>3, EarnedByReferrer DEF LoadReferrer, TypeOK
    <2>2. QED
      BY <1>3, <2>1 DEF LoadReferrer, TypeOK, Goto, PC, dbVars, Earns
  <1>4. CASE Charge(s)
    <2>1. UserRow(op[s].user) \in Rows
      BY <1>0, OperationFields DEF Rows
    <2>2. \E at \in {"redeem", "reward"} : Goto(s, at)
      BY <1>4 DEF Charge
    <2>3. /\ pc' \in [Sessions -> PC] /\ pc'[s] \notin {"idle", "bonus"}
          /\ \A t \in Sessions \ {s} : pc'[t] = pc[t]
      BY <2>2 DEF Goto, TypeOK, PC
    <2>4. CASE Effect(op[s]) # 0
      <3>1. Update(s, UserRow(op[s].user))
        BY <1>4, <2>4 DEF Charge
      <3>2. /\ held' \in [Sessions -> SUBSET Rows]
            /\ \A t \in Sessions : pc'[t] = "idle" => held'[t] = {}
        BY <2>1, <2>3, <3>1, UpdateType
      <3>3. QED
        BY <1>4, <2>3, <3>2 DEF Charge, TypeOK, dbVars
    <2>5. CASE Effect(op[s]) = 0
      <3>1. UNCHANGED held
        BY <1>4, <2>5 DEF Charge
      <3>2. QED
        BY <1>4, <2>3, <3>1 DEF Charge, TypeOK, dbVars
    <2>6. QED
      BY <2>4, <2>5
  <1>5. CASE Redeem(s)
    <2>1. Promo \in Rows /\ Update(s, Promo) /\ Goto(s, "reward")
      BY <1>5 DEF Redeem, Rows
    <2>2. /\ pc' \in [Sessions -> PC] /\ pc'[s] \notin {"idle", "bonus"}
          /\ \A t \in Sessions \ {s} : pc'[t] = pc[t]
      BY <2>1 DEF Goto, TypeOK, PC
    <2>3. /\ held' \in [Sessions -> SUBSET Rows]
          /\ \A t \in Sessions : pc'[t] = "idle" => held'[t] = {}
      BY <2>1, <2>2, UpdateType
    <2>4. QED
      BY <1>5, <2>2, <2>3 DEF Redeem, TypeOK, dbVars
  <1>6. CASE PayBonus(s)
    <2>0. Goto(s, "done") /\ Update(s, UserRow(Referrer[op[s].user])) /\ pc[s] = "bonus"
      BY <1>6 DEF PayBonus
    <2>a. Earns(op[s])
      BY <2>0 DEF TypeOK, Earns
    <2>1. UserRow(Referrer[op[s].user]) \in Rows
      BY <1>0, <2>a, EarnedByReferrer DEF Rows
    <2>2. /\ pc' \in [Sessions -> PC] /\ pc'[s] \notin {"idle", "bonus"}
          /\ \A t \in Sessions \ {s} : pc'[t] = pc[t]
      BY <2>0 DEF Goto, TypeOK, PC
    <2>3. /\ held' \in [Sessions -> SUBSET Rows]
          /\ \A t \in Sessions : pc'[t] = "idle" => held'[t] = {}
      BY <2>0, <2>1, <2>2, UpdateType
    <2>4. QED
      BY <1>6, <2>2, <2>3 DEF PayBonus, TypeOK, dbVars
  <1>7. QED
    BY <1>1, <1>2, <1>3, <1>4, <1>5, <1>6

LEMMA TypeBegin ==
  ASSUME TypeOK, NEW s \in Sessions, NEW o \in Operations, Begin(s, o)
  PROVE  TypeOK'
  <1>1. o.user \in Users /\ MaxOps \in Nat
    BY OperationFields, PurchaseAssumption DEF PurchaseAssumption
  <1>2. \E at \in {"loaded", "valid"} : Goto(s, at)
    BY DEF Begin
  <1>3. pc' \in [Sessions -> PC] /\ \A t \in Sessions : pc'[t] = "idle" => held'[t] = {}
    BY <1>2 DEF Begin, Goto, TypeOK, PC
  <1>4. started' \in 0 .. MaxOps
    BY <1>1 DEF Begin, TypeOK
  <1>5. seen' \in [Sessions -> Int] /\ seenUsed' \in [Sessions -> Nat]
    BY <1>1 DEF Begin, TypeOK
  <1>6. op' \in [Sessions -> Operations] /\ \A t \in Sessions \ {s} : op'[t] = op[t]
    BY DEF Begin, TypeOK
  <1>7. \A t \in Sessions : pc'[t] = "bonus" => Bonus(op'[t]) > 0
    BY <1>2, <1>6 DEF Goto, TypeOK
  <1>8. UNCHANGED <<balance, ledger, used, redemptions, raced, seenReferrer, held, failures>>
    BY DEF Begin, dbVars
  <1>9. QED
    BY <1>3, <1>4, <1>5, <1>6, <1>7, <1>8 DEF TypeOK

LEMMA EndType ==
  ASSUME TypeOK, NEW s \in Sessions, EndSession(s)
  PROVE  /\ pc' \in [Sessions -> PC] /\ held' \in [Sessions -> SUBSET Rows]
         /\ \A t \in Sessions : pc'[t] = "idle" => held'[t] = {}
         /\ \A t \in Sessions : pc'[t] = "bonus" => Bonus(op[t]) > 0
  BY DEF TypeOK, EndSession, Goto, PC

LEMMA TypeEnd ==
  ASSUME TypeOK, NEW s \in Sessions, Refuse(s) \/ Rollback(s) \/ DeadlockAbort(s) \/ Commit(s)
  PROVE  TypeOK'
  <1>1. EndSession(s)
    BY DEF Refuse, Rollback, DeadlockAbort, Commit
  <1>2. CASE Refuse(s)
    BY <1>1, <1>2, EndType DEF Refuse, TypeOK, dbVars
  <1>3. CASE Rollback(s)
    <2>1. failures' \in 0 .. MaxFailures
      BY <1>3, PurchaseAssumption DEF Rollback, TypeOK, PurchaseAssumption
    <2>2. QED
      BY <1>1, <1>3, <2>1, EndType DEF Rollback, TypeOK, dbVars
  <1>4. CASE DeadlockAbort(s)
    BY <1>1, <1>4, EndType DEF DeadlockAbort, TypeOK, dbVars
  <1>5. CASE Commit(s)
    <2>1. op[s] \in Operations /\ op[s].user \in Users
      BY OperationFields DEF TypeOK
    <2>2. \A u \in Users : Delta(op[s], u) \in Int /\ Base(s, u) \in Int
      BY <2>1, Deltas DEF Base, TypeOK
    <2>3. /\ balance' = [u \in Users |->
               IF Delta(op[s], u) # 0 THEN Base(s, u) + Delta(op[s], u) ELSE balance[u]]
          /\ ledger' = [u \in Users |-> ledger[u] + Delta(op[s], u)]
          /\ raced' \in SUBSET Users
      BY <1>5 DEF Commit, TypeOK
    <2>4. balance' \in [Users -> Int] /\ ledger' \in [Users -> Int]
      <3>1. balance \in [Users -> Int] /\ ledger \in [Users -> Int]
        BY DEF TypeOK
      <3>2. QED
        BY <2>2, <2>3, <3>1
    <2>5. used' \in Nat /\ redemptions' \in Seq(Users)
      <3>1. used \in Nat /\ redemptions \in Seq(Users) /\ seenUsed[s] \in Nat
        BY DEF TypeOK
      <3>2. CASE op[s].promo
        BY <1>5, <2>1, <3>1, <3>2, SMTT(20) DEF Commit
      <3>3. CASE ~ op[s].promo
        BY <1>5, <3>1, <3>3 DEF Commit
      <3>4. QED
        BY <3>2, <3>3
    <2>6. UNCHANGED <<op, seen, seenReferrer, seenUsed, started, failures>>
      BY <1>5 DEF Commit
    <2>7. QED
      BY <1>1, <2>3, <2>4, <2>5, <2>6, EndType DEF TypeOK
  <1>6. QED
    BY <1>2, <1>3, <1>4, <1>5

\* Every variable keeps its type, and a session that ended holds no row.
THEOREM TypeCorrect == Spec => []TypeOK
  <1>1. TypeOK /\ [Next]_vars => TypeOK'
    <2> SUFFICES ASSUME TypeOK, [Next]_vars PROVE TypeOK'
      OBVIOUS
    <2>1. CASE UNCHANGED vars
      BY <2>1 DEF TypeOK, vars, dbVars, sessVars
    <2>2. ASSUME NEW s \in Sessions, NEW o \in Operations, Begin(s, o) PROVE TypeOK'
      BY <2>2, TypeBegin
    <2>3. ASSUME NEW s \in Sessions,
                 Step(s) \/ Charge(s) \/ Redeem(s) \/ PayBonus(s) \/ Rollback(s)
          PROVE  TypeOK'
      BY <2>3, TypeWork, TypeEnd DEF Step
    <2>4. QED
      BY <2>1, <2>2, <2>3 DEF Next
  <1>2. QED
    BY TypeInit, <1>1, PTL DEF Spec

-------------------------------------------------------------------------------
(* How a step moves one session.  Every invariant below is argued from     *)
(* these facts rather than from the actions.                               *)

\* A step of s that commits nothing and ends nothing.
Works(s) ==
  \/ Validate(s) \/ NoReward(s) \/ LoadReferrer(s)
  \/ Charge(s) \/ Redeem(s) \/ PayBonus(s)

LEMMA WorkFrame ==
  ASSUME TypeOK, NEW s \in Sessions, Works(s)
  PROVE  /\ UNCHANGED <<balance, ledger, used, redemptions, raced, op, seen, seenUsed>>
         /\ \A t \in Sessions \ {s} : pc'[t] = pc[t] /\ seenReferrer'[t] = seenReferrer[t]
         /\ pc[s] # "idle" /\ Checked(s)'
         /\ pc[s] = "loaded" \/ Checked(s)
  <1>1. CASE Validate(s)
    BY <1>1 DEF Validate, Goto, TypeOK, Checked, dbVars
  <1>2. CASE NoReward(s)
    BY <1>2 DEF NoReward, Goto, TypeOK, Checked, dbVars
  <1>3. CASE LoadReferrer(s)
    BY <1>3 DEF LoadReferrer, Goto, TypeOK, Checked, dbVars
  <1>4. CASE Charge(s)
    BY <1>4 DEF Charge, Goto, TypeOK, Checked, dbVars
  <1>5. CASE Redeem(s)
    BY <1>5 DEF Redeem, Goto, TypeOK, Checked, dbVars
  <1>6. CASE PayBonus(s)
    BY <1>6 DEF PayBonus, Goto, TypeOK, Checked, dbVars
  <1>7. QED
    BY <1>1, <1>2, <1>3, <1>4, <1>5, <1>6 DEF Works

\* When a session comes to hold a referrer's balance, and that it keeps it.
LEMMA WorkReferrer ==
  ASSUME TypeOK, NEW s \in Sessions, Works(s),
         pc'[s] = "bonus" \/ (pc'[s] = "done" /\ Earns(op[s]))
  PROVE  \/ /\ pc[s] = "bonus"
            /\ seenReferrer'[s] = seenReferrer[s]
         \/ /\ Earns(op[s])
            /\ seenReferrer'[s] = balance[Referrer[op[s].user]]
  <1>1. CASE Validate(s)
    BY <1>1 DEF Validate, Goto, TypeOK
  <1>2. CASE NoReward(s)
    BY <1>2 DEF NoReward, Goto, TypeOK
  <1>3. CASE LoadReferrer(s)
    BY <1>3 DEF LoadReferrer, Goto, TypeOK
  <1>4. CASE Charge(s)
    BY <1>4 DEF Charge, Goto, TypeOK
  <1>5. CASE Redeem(s)
    BY <1>5 DEF Redeem, Goto, TypeOK
  <1>6. CASE PayBonus(s)
    BY <1>6 DEF PayBonus, Goto, TypeOK
  <1>7. QED
    BY <1>1, <1>2, <1>3, <1>4, <1>5, <1>6 DEF Works

\* A session leaves "loaded" only through the checks of extend_subscription.
LEMMA WorkChecks ==
  ASSUME TypeOK, NEW s \in Sessions, Works(s), pc[s] = "loaded"
  PROVE  /\ op[s].promo => seenUsed[s] < MaxUses
         /\ op[s].kind = "balance" => seen[s] >= Pays(op[s])
  BY DEF Works, Validate, NoReward, LoadReferrer, Charge, Redeem, PayBonus, PromoOk, Affordable

LEMMA BeginFrame ==
  ASSUME TypeOK, NEW s \in Sessions, NEW o \in Operations, Begin(s, o)
  PROVE  /\ UNCHANGED <<balance, ledger, used, redemptions, raced>>
         /\ \A t \in Sessions \ {s} :
              /\ pc'[t] = pc[t] /\ op'[t] = op[t] /\ seen'[t] = seen[t]
              /\ seenReferrer'[t] = seenReferrer[t] /\ seenUsed'[t] = seenUsed[t]
         /\ op'[s] = o /\ seen'[s] = balance[o.user] /\ seenUsed'[s] = used
         /\ pc'[s] = IF IsPurchase(o) THEN "loaded" ELSE "valid"
  BY DEF Begin, Goto, TypeOK, dbVars

LEMMA EndFrame ==
  ASSUME TypeOK, NEW s \in Sessions, EndSession(s)
  PROVE  pc'[s] = "idle" /\ \A t \in Sessions \ {s} : pc'[t] = pc[t]
  BY DEF EndSession, Goto, TypeOK

\* A session that ends without a commit leaves the database as it was.
Leaves(s) == Refuse(s) \/ Rollback(s) \/ DeadlockAbort(s)

LEMMA LeaveFrame ==
  ASSUME NEW s \in Sessions, Leaves(s)
  PROVE  /\ EndSession(s)
         /\ UNCHANGED <<balance, ledger, used, redemptions, raced>>
         /\ UNCHANGED <<op, seen, seenReferrer, seenUsed>>
  BY DEF Leaves, Refuse, Rollback, DeadlockAbort, dbVars

LEMMA CommitFrame ==
  ASSUME TypeOK, NEW s \in Sessions, Commit(s)
  PROVE  /\ pc[s] = "done" /\ EndSession(s)
         /\ UNCHANGED <<op, seen, seenReferrer, seenUsed>>
         /\ raced \subseteq raced'
         /\ \A u \in Users :
              /\ balance'[u] = IF Delta(op[s], u) # 0
                                 THEN Base(s, u) + Delta(op[s], u) ELSE balance[u]
              /\ ledger'[u] = ledger[u] + Delta(op[s], u)
              /\ u \notin raced' /\ Delta(op[s], u) # 0 =>
                   \A t \in Sessions \ {s} : ~ Loaded(t, u)
  BY DEF Commit

-------------------------------------------------------------------------------
(* Drift needs overlap.  A snapshot is as good as the row until the row is *)
(* raced, so what a commit adds to the snapshot it adds to the balance.    *)

Explained == SnapshotsHold /\ DriftNeedsOverlap

LEMMA ExplainedByWork ==
  ASSUME TypeOK, SnapshotsHold, NEW s \in Sessions, Works(s)
  PROVE  SnapshotsHold'
  <1> SUFFICES ASSUME NEW t \in Sessions, NEW u \in Users \ raced', Loaded(t, u)'
               PROVE  Base(t, u)' = balance'[u]
    BY DEF SnapshotsHold
  <1>1. u \in Users \ raced /\ balance'[u] = balance[u] /\ op' = op /\ seen' = seen
    BY WorkFrame
  <1>2. Loaded(t, u) => Base(t, u) = balance[u]
    BY <1>1 DEF SnapshotsHold
  <1>3. CASE t # s
    BY <1>1, <1>2, <1>3, WorkFrame DEF Loaded, Base
  <1>4. CASE t = s /\ u = op[s].user
    <2>1. Loaded(s, u)
      BY <1>4, WorkFrame DEF Loaded
    <2>2. QED
      BY <1>1, <1>2, <1>4, <2>1 DEF Base
  <1>5. CASE t = s /\ u # op[s].user
    <2>1. u = Referrer[op[s].user] /\ (pc'[s] = "bonus" \/ (pc'[s] = "done" /\ Earns(op[s])))
      BY <1>1, <1>5 DEF Loaded
    <2>2. CASE pc[s] = "bonus" /\ seenReferrer'[s] = seenReferrer[s]
      <3>1. Loaded(s, u)
        BY <2>1, <2>2 DEF Loaded
      <3>2. QED
        BY <1>1, <1>2, <1>5, <2>2, <3>1 DEF Base
    <2>3. CASE seenReferrer'[s] = balance[Referrer[op[s].user]]
      BY <1>1, <1>5, <2>1, <2>3 DEF Base
    <2>4. QED
      BY <2>1, <2>2, <2>3, WorkReferrer
  <1>6. QED
    BY <1>3, <1>4, <1>5

LEMMA ExplainedByBegin ==
  ASSUME TypeOK, SnapshotsHold, NEW s \in Sessions, NEW o \in Operations, Begin(s, o)
  PROVE  SnapshotsHold'
  <1> SUFFICES ASSUME NEW t \in Sessions, NEW u \in Users \ raced', Loaded(t, u)'
               PROVE  Base(t, u)' = balance'[u]
    BY DEF SnapshotsHold
  <1>1. u \in Users \ raced /\ balance'[u] = balance[u]
    BY BeginFrame
  <1>2. CASE t # s
    BY <1>1, <1>2, BeginFrame DEF SnapshotsHold, Loaded, Base
  <1>3. CASE t = s
    <2>1. pc'[s] \in {"loaded", "valid"} /\ op'[s] = o /\ seen'[s] = balance[o.user]
      BY BeginFrame
    <2>2. u = o.user
      BY <1>3, <2>1 DEF Loaded
    <2>3. QED
      BY <1>1, <1>3, <2>1, <2>2 DEF Base
  <1>4. QED
    BY <1>2, <1>3

LEMMA ExplainedByLeave ==
  ASSUME TypeOK, SnapshotsHold, NEW s \in Sessions, Leaves(s)
  PROVE  SnapshotsHold'
  <1>1. pc'[s] = "idle" /\ \A t \in Sessions \ {s} : pc'[t] = pc[t]
    BY LeaveFrame, EndFrame
  <1>2. QED
    BY <1>1, LeaveFrame DEF SnapshotsHold, Loaded, Base

LEMMA ExplainedByCommit ==
  ASSUME TypeOK, Explained, NEW s \in Sessions, Commit(s)
  PROVE  Explained'
  <1>1. pc'[s] = "idle" /\ \A t \in Sessions \ {s} : pc'[t] = pc[t]
    BY CommitFrame, EndFrame
  <1>2. op[s] \in Operations
    BY DEF TypeOK
  <1>3. ASSUME NEW u \in Users \ raced', Delta(op[s], u) # 0
        PROVE  balance'[u] = balance[u] + Delta(op[s], u)
    <2>1. u \in Users \ raced /\ balance'[u] = Base(s, u) + Delta(op[s], u)
      BY <1>3, CommitFrame
    <2>2. Loaded(s, u)
      BY <1>2, <1>3, Deltas, CommitFrame DEF Loaded
    <2>3. QED
      BY <2>1, <2>2 DEF Explained, SnapshotsHold
  <1>4. SnapshotsHold'
    <2> SUFFICES ASSUME NEW t \in Sessions, NEW u \in Users \ raced', Loaded(t, u)'
                 PROVE  Base(t, u)' = balance'[u]
      BY DEF SnapshotsHold
    <2>1. t # s /\ u \in Users \ raced
      BY <1>1, CommitFrame DEF Loaded
    <2>2. Loaded(t, u) /\ Base(t, u)' = Base(t, u)
      BY <1>1, <2>1, CommitFrame DEF Loaded, Base
    <2>3. Delta(op[s], u) = 0 /\ balance'[u] = balance[u]
      BY <2>1, <2>2, CommitFrame
    <2>4. QED
      BY <2>1, <2>2, <2>3 DEF Explained, SnapshotsHold
  <1>5. DriftNeedsOverlap'
    <2> SUFFICES ASSUME NEW u \in Users \ raced' PROVE balance'[u] = ledger'[u]
      BY DEF DriftNeedsOverlap
    <2>1. u \in Users \ raced /\ balance[u] = ledger[u] /\ ledger[u] \in Int
      BY CommitFrame DEF Explained, DriftNeedsOverlap, TypeOK
    <2>2. ledger'[u] = ledger[u] + Delta(op[s], u)
      BY CommitFrame
    <2>3. CASE Delta(op[s], u) = 0
      BY <2>1, <2>2, <2>3, CommitFrame
    <2>4. CASE Delta(op[s], u) # 0
      BY <1>3, <2>1, <2>2, <2>4
    <2>5. QED
      BY <2>3, <2>4
  <1>6. QED
    BY <1>4, <1>5 DEF Explained

\* Every step, by the kind of step it is.
LEMMA StepKinds ==
  ASSUME Next
  PROVE  \E s \in Sessions :
           Works(s) \/ Leaves(s) \/ Commit(s) \/ \E o \in Operations : Begin(s, o)
  BY DEF Next, Step, Works, Leaves

LEMMA ExplainedStep == TypeOK /\ Explained /\ [Next]_vars => Explained'
  <1> SUFFICES ASSUME TypeOK, Explained, [Next]_vars PROVE Explained'
    OBVIOUS
  <1>1. CASE UNCHANGED vars
    BY <1>1 DEF vars, dbVars, sessVars, Explained, SnapshotsHold, DriftNeedsOverlap, Loaded, Base
  <1>2. ASSUME NEW s \in Sessions, Works(s) PROVE Explained'
    BY <1>2, ExplainedByWork, WorkFrame DEF Explained, DriftNeedsOverlap
  <1>3. ASSUME NEW s \in Sessions, NEW o \in Operations, Begin(s, o) PROVE Explained'
    BY <1>3, ExplainedByBegin, BeginFrame DEF Explained, DriftNeedsOverlap
  <1>4. ASSUME NEW s \in Sessions, Leaves(s) PROVE Explained'
    BY <1>4, ExplainedByLeave, LeaveFrame DEF Explained, DriftNeedsOverlap
  <1>5. QED
    BY <1>1, <1>2, <1>3, <1>4, ExplainedByCommit, StepKinds

\* The only cause of a balance that its transactions do not explain is a write
\* to the row while another session works with the value from before.
THEOREM DriftOnlyByOverlap == Spec => []DriftNeedsOverlap
  <1>1. Init => Explained
    BY DEF Init, Explained, SnapshotsHold, DriftNeedsOverlap, Loaded
  <1>2. Explained => DriftNeedsOverlap
    BY DEF Explained
  <1>3. QED
    BY <1>1, <1>2, ExplainedStep, TypeCorrect, PTL DEF Spec

-------------------------------------------------------------------------------
(* The promo counter.                                                      *)

Counted == PromoSeen /\ PromoCounterBounded

LEMMA CountedStep == TypeOK /\ Counted /\ [Next]_vars => Counted'
  <1> SUFFICES ASSUME TypeOK, Counted, [Next]_vars PROVE Counted'
    OBVIOUS
  <1>1. CASE UNCHANGED vars
    BY <1>1 DEF vars, dbVars, sessVars, Counted, PromoSeen, PromoCounterBounded, Checked
  <1>2. ASSUME NEW s \in Sessions, Works(s) PROVE Counted'
    <2>1. PromoCounterBounded'
      BY <1>2, WorkFrame DEF Counted, PromoCounterBounded
    <2>2. ASSUME NEW t \in Sessions
          PROVE  /\ pc'[t] # "idle" => seenUsed'[t] <= Len(redemptions')
                 /\ Checked(t)' /\ op'[t].promo => seenUsed'[t] < MaxUses
      <3>1. CASE t # s
        BY <1>2, <3>1, WorkFrame DEF Counted, PromoSeen, Checked
      <3>2. CASE t = s
        BY <1>2, <3>2, WorkFrame, WorkChecks DEF Counted, PromoSeen
      <3>3. QED
        BY <3>1, <3>2
    <2>3. QED
      BY <2>1, <2>2 DEF Counted, PromoSeen
  <1>3. ASSUME NEW s \in Sessions, NEW o \in Operations, Begin(s, o) PROVE Counted'
    <2>1. PromoCounterBounded'
      BY <1>3, BeginFrame DEF Counted, PromoCounterBounded
    <2>2. pc'[s] = "loaded" \/ ~ o.promo
      BY <1>3, BeginFrame, OperationFields
    <2>3. ASSUME NEW t \in Sessions
          PROVE  /\ pc'[t] # "idle" => seenUsed'[t] <= Len(redemptions')
                 /\ Checked(t)' /\ op'[t].promo => seenUsed'[t] < MaxUses
      <3>1. CASE t # s
        BY <1>3, <3>1, BeginFrame DEF Counted, PromoSeen, Checked
      <3>2. CASE t = s
        BY <1>3, <2>2, <3>2, BeginFrame DEF Counted, PromoCounterBounded, Checked
      <3>3. QED
        BY <3>1, <3>2
    <2>4. QED
      BY <2>1, <2>3 DEF Counted, PromoSeen
  <1>4. ASSUME NEW s \in Sessions, Leaves(s) PROVE Counted'
    BY <1>4, LeaveFrame, EndFrame DEF Counted, PromoSeen, PromoCounterBounded, Checked
  <1>5. ASSUME NEW s \in Sessions, Commit(s) PROVE Counted'
    <2>1. pc'[s] = "idle" /\ \A t \in Sessions \ {s} : pc'[t] = pc[t]
      BY <1>5, CommitFrame, EndFrame
    <2>2. /\ used \in Nat /\ redemptions \in Seq(Users) /\ op[s].user \in Users
          /\ seenUsed \in [Sessions -> Nat]
      BY OperationFields DEF TypeOK
    <2>3. CASE op[s].promo
      <3>1. used' = seenUsed[s] + 1 /\ Len(redemptions') = Len(redemptions) + 1
        BY <1>5, <2>2, <2>3 DEF Commit
      <3>2. seenUsed[s] < MaxUses /\ seenUsed[s] <= Len(redemptions)
        BY <1>5, <2>3, CommitFrame DEF Counted, PromoSeen, Checked
      <3>3. MaxUses \in Nat /\ Len(redemptions) \in Nat
        BY <2>2, PurchaseAssumption DEF PurchaseAssumption
      <3>4. PromoCounterBounded'
        BY <2>2, <3>1, <3>2, <3>3 DEF PromoCounterBounded
      <3>5. PromoSeen'
        BY <1>5, <2>1, <2>2, <3>1, <3>3, CommitFrame DEF Counted, PromoSeen, Checked
      <3>6. QED
        BY <3>4, <3>5 DEF Counted
    <2>4. CASE ~ op[s].promo
      <3>1. used' = used /\ redemptions' = redemptions
        BY <1>5, <2>4 DEF Commit
      <3>2. QED
        BY <1>5, <2>1, <3>1, CommitFrame DEF Counted, PromoSeen, PromoCounterBounded, Checked
    <2>5. QED
      BY <2>3, <2>4
  <1>6. QED
    BY <1>1, <1>2, <1>3, <1>4, <1>5, StepKinds

\* However many requests redeem a code at once, its counter never passes the
\* limit and never runs ahead of the redemptions.
THEOREM CounterNeverAhead == Spec => []PromoCounterBounded
  <1>1. Init => Counted
    BY PurchaseAssumption DEF Init, Counted, PromoSeen, PromoCounterBounded, Checked, PurchaseAssumption
  <1>2. Counted => PromoCounterBounded
    BY DEF Counted
  <1>3. QED
    BY <1>1, <1>2, CountedStep, TypeCorrect, PTL DEF Spec

-------------------------------------------------------------------------------
(* No debt.  The price was compared with the very value it is later        *)
(* subtracted from, so the result is never negative, however stale.        *)

LEMMA SolventStep == TypeOK /\ Solvent /\ [Next]_vars => Solvent'
  <1> SUFFICES ASSUME TypeOK, Solvent, [Next]_vars, Generous PROVE Solvent'
    BY DEF Solvent, Generous
  <1>0. SolventSessions /\ \A u \in Users : balance[u] >= 0
    BY DEF Solvent
  <1> SUFFICES SolventSessions' /\ \A u \in Users : balance'[u] >= 0
    BY DEF Solvent
  <1>1. CASE UNCHANGED vars
    BY <1>0, <1>1 DEF vars, dbVars, sessVars, SolventSessions, Checked
  <1>2. ASSUME NEW s \in Sessions, Works(s)
        PROVE  SolventSessions' /\ \A u \in Users : balance'[u] >= 0
    <2>1. ASSUME NEW t \in Sessions
          PROVE  /\ pc'[t] # "idle" => seen'[t] >= 0
                 /\ pc'[t] = "bonus" \/ (pc'[t] = "done" /\ Earns(op'[t])) => seenReferrer'[t] >= 0
                 /\ Checked(t)' /\ op'[t].kind = "balance" => seen'[t] >= Pays(op'[t])
      <3>1. CASE t # s
        BY <1>0, <1>2, <3>1, WorkFrame DEF SolventSessions, Checked
      <3>2. CASE t = s
        <4>1. pc'[s] = "bonus" \/ (pc'[s] = "done" /\ Earns(op[s])) => seenReferrer'[s] >= 0
          <5> SUFFICES ASSUME pc'[s] = "bonus" \/ (pc'[s] = "done" /\ Earns(op[s]))
                       PROVE  seenReferrer'[s] >= 0
            OBVIOUS
          <5>1. CASE pc[s] = "bonus" /\ seenReferrer'[s] = seenReferrer[s]
            BY <1>0, <5>1 DEF SolventSessions
          <5>2. CASE Earns(op[s]) /\ seenReferrer'[s] = balance[Referrer[op[s].user]]
            BY <1>0, <5>2, EarnedByReferrer DEF TypeOK
          <5>3. QED
            BY <1>2, <5>1, <5>2, WorkReferrer
        <4>2. seen'[s] >= 0 /\ (op'[s].kind = "balance" => seen'[s] >= Pays(op'[s]))
          BY <1>0, <1>2, WorkFrame, WorkChecks DEF SolventSessions
        <4>3. QED
          BY <1>2, <3>2, <4>1, <4>2, WorkFrame
      <3>3. QED
        BY <3>1, <3>2
    <2>2. QED
      BY <1>0, <1>2, <2>1, WorkFrame DEF SolventSessions
  <1>3. ASSUME NEW s \in Sessions, NEW o \in Operations, Begin(s, o)
        PROVE  SolventSessions' /\ \A u \in Users : balance'[u] >= 0
    <2>1. ASSUME NEW t \in Sessions
          PROVE  /\ pc'[t] # "idle" => seen'[t] >= 0
                 /\ pc'[t] = "bonus" \/ (pc'[t] = "done" /\ Earns(op'[t])) => seenReferrer'[t] >= 0
                 /\ Checked(t)' /\ op'[t].kind = "balance" => seen'[t] >= Pays(op'[t])
      <3>1. CASE t # s
        BY <1>0, <1>3, <3>1, BeginFrame DEF SolventSessions, Checked
      <3>2. CASE t = s
        <4>1. seen'[s] >= 0
          BY <1>0, <1>3, BeginFrame, OperationFields
        <4>2. o.kind = "balance" => pc'[s] = "loaded"
          BY <1>3, BeginFrame DEF IsPurchase
        <4>3. pc'[s] \in {"loaded", "valid"} /\ op'[s] = o
          BY <1>3, BeginFrame
        <4>4. QED
          BY <3>2, <4>1, <4>2, <4>3 DEF Checked
      <3>3. QED
        BY <3>1, <3>2
    <2>2. QED
      BY <1>0, <1>3, <2>1, BeginFrame DEF SolventSessions
  <1>4. ASSUME NEW s \in Sessions, Leaves(s)
        PROVE  SolventSessions' /\ \A u \in Users : balance'[u] >= 0
    BY <1>0, <1>4, LeaveFrame, EndFrame DEF SolventSessions, Checked
  <1>5. ASSUME NEW s \in Sessions, Commit(s)
        PROVE  SolventSessions' /\ \A u \in Users : balance'[u] >= 0
    <2>1. SolventSessions'
      BY <1>0, <1>5, CommitFrame, EndFrame DEF SolventSessions, Checked
    <2>2. op[s] \in Operations
      BY DEF TypeOK
    <2>3. seen[s] >= 0 /\ seen[s] \in Int /\ seenReferrer[s] \in Int
          /\ (op[s].kind = "balance" => seen[s] >= Pays(op[s]))
          /\ (Earns(op[s]) => seenReferrer[s] >= 0)
      BY <1>0, <1>5, CommitFrame DEF SolventSessions, Checked, TypeOK
    <2>4. ASSUME NEW u \in Users, Delta(op[s], u) # 0, u = op[s].user
          PROVE  Base(s, u) + Delta(op[s], u) >= 0
      <3>1. Base(s, u) = seen[s] /\ Delta(op[s], u) = Effect(op[s])
        BY <2>2, <2>4, Deltas DEF Base
      <3>2. CASE op[s].kind = "balance"
        <4>1. Effect(op[s]) = - Pays(op[s]) /\ Pays(op[s]) \in Int
          BY <2>2, <3>2, Amounts
        <4>2. QED
          BY <2>3, <3>1, <3>2, <4>1
      <3>3. CASE op[s].kind # "balance"
        <4>0. op[s].kind \in {"gateway", "deposit", "adjust"}
          BY <2>2, <3>3, OperationFields
        <4>1. \A a \in Adjustments : a \in Int /\ a > 0
          BY PurchaseAssumption DEF Generous, PurchaseAssumption
        <4>2. Effect(op[s]) \in Int /\ Effect(op[s]) >= 0
          BY <2>2, <4>0, <4>1, Amounts
        <4>3. QED
          BY <2>3, <3>1, <4>2
      <3>4. QED
        BY <3>2, <3>3
    <2>5. ASSUME NEW u \in Users, Delta(op[s], u) # 0, u # op[s].user
          PROVE  Base(s, u) + Delta(op[s], u) >= 0
      <3>1. Base(s, u) = seenReferrer[s] /\ Delta(op[s], u) \in Int
            /\ Delta(op[s], u) >= 0 /\ Earns(op[s])
        BY <2>2, <2>5, Deltas DEF Base
      <3>2. QED
        BY <2>3, <3>1
    <2>6. ASSUME NEW u \in Users PROVE balance'[u] >= 0
      BY <1>0, <1>5, <2>4, <2>5, CommitFrame
    <2>7. QED
      BY <2>1, <2>6
  <1>6. QED
    BY <1>1, <1>2, <1>3, <1>4, <1>5, StepKinds

\* However purchases, deposits and bonuses interleave, nobody's balance falls
\* below zero unless an admin takes money away.
THEOREM NoDebt == Spec => []NeverOverdrawn
  <1>1. Init => Solvent
    BY DEF Init, Solvent, SolventSessions, Checked
  <1>2. Solvent => NeverOverdrawn
    BY DEF Solvent, Generous, NeverOverdrawn
  <1>3. QED
    BY <1>1, <1>2, SolventStep, TypeCorrect, PTL DEF Spec
================================================================================
