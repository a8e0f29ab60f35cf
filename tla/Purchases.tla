------------------------------- MODULE Purchases -------------------------------
(***************************************************************************)
(* Money and promo codes: what a deposit, a purchase, a referral bonus and *)
(* an admin's adjustment do to users.balance, to the transactions that     *)
(* explain it, and to promo_codes.used_count                               *)
(* (src/src/services/__init__.py, promo.py, pricing.py, referral.py).      *)
(*                                                                         *)
(* Each operation is one READ COMMITTED transaction.  It loads a row,      *)
(* computes from the loaded value and writes an absolute value; the row is *)
(* locked only by that write.  Amounts are integers (kopecks).             *)
(***************************************************************************)
EXTENDS Integers, Sequences, FiniteSets

\* Definitions named ...Unchecked, ...OfCustomer and the like are deliberate
\* mistakes: the mutants that show each property can fail.

CONSTANTS
  Users,
  Referrer,     \* Referrer[u] : who invited u, or NoUser
  NoUser,
  Sessions,     \* concurrent requests and scripts
  Price,        \* of the plan
  Discount,     \* of the promo code on that plan
  MaxUses,      \* promo.max_uses
  MaxPerUser,   \* promo.max_uses_per_user
  Percent,      \* referral bonus
  Deposits,     \* amounts paid in
  Adjustments,  \* amounts an admin adds or takes away
  MaxOps,       \* bound: operations started
  MaxFailures   \* bound: failed requests

ASSUME PurchaseAssumption ==
  /\ Users # {} /\ NoUser \notin Users
  /\ Referrer \in [Users -> Users \cup {NoUser}]
  /\ \A u \in Users : Referrer[u] # u
  /\ Price \in Nat /\ Discount \in 0 .. Price
  /\ MaxUses \in Nat /\ MaxPerUser \in Nat
  /\ Percent \in 0 .. 100
  /\ Deposits \subseteq Nat \ {0}
  /\ Adjustments \subseteq Int \ {0}
  /\ MaxOps \in Nat /\ MaxFailures \in Nat

VARIABLES
  balance,      \* committed users.balance
  ledger,       \* sum of u's committed transactions that move the balance
  used,         \* committed promo_codes.used_count
  redemptions,  \* committed promo_code_redemptions: the users, in order
  raced,        \* history: users whose row was written under another session
  pc, op,       \* per session: control point and operation
  seen,         \* per session: balance of the loaded customer
  seenReferrer, \* per session: balance of the loaded referrer
  seenUsed,     \* per session: used_count of the loaded promo code
  held,         \* per session: rows it has updated and therefore locked
  started, failures

dbVars   == <<balance, ledger, used, redemptions>>
sessVars == <<pc, op, seen, seenReferrer, seenUsed, held>>
vars == <<dbVars, raced, sessVars, started, failures>>

PC == {"idle", "loaded", "valid", "redeem", "reward", "bonus", "done"}
Promo == <<"promo", NoUser>>
UserRow(u) == <<"user", u>>
Rows == {Promo} \cup {UserRow(u) : u \in Users}

\* extend_subscription paid from the balance or by a gateway order, add_balance
\* for a paid deposit, adjust_balance by an admin.
Operations ==
  [kind : {"balance", "gateway"}, user : Users, promo : BOOLEAN, amount : {0}]
  \cup [kind : {"deposit"}, user : Users, promo : {FALSE}, amount : Deposits]
  \cup [kind : {"adjust"}, user : Users, promo : {FALSE}, amount : Adjustments]

IsPurchase(o) == o.kind \in {"balance", "gateway"}

\* PurchasePricingService.resolve
Pays(o) ==
  IF IsPurchase(o) THEN Price - (IF o.promo THEN Discount ELSE 0) ELSE o.amount

\* What the operation does to the customer's own balance: a purchase paid
\* through the gateway records its transaction and leaves the balance alone.
Effect(o) ==
  CASE o.kind = "balance" -> - Pays(o)
    [] o.kind = "gateway" -> 0
    [] OTHER -> o.amount

\* process_payment_bonus: a share of every deposit and of every purchase.
Bonus(o) ==
  IF o.kind = "adjust" \/ Referrer[o.user] = NoUser
    THEN 0 ELSE (Pays(o) * Percent) \div 100

Delta(o, u) ==
  CASE u = o.user -> Effect(o)
    [] u = Referrer[o.user] -> Bonus(o)
    [] OTHER -> 0

TypeOK ==
  /\ balance \in [Users -> Int] /\ ledger \in [Users -> Int]
  /\ used \in Nat /\ redemptions \in Seq(Users)
  /\ raced \in SUBSET Users
  /\ pc \in [Sessions -> PC] /\ op \in [Sessions -> Operations]
  /\ seen \in [Sessions -> Int] /\ seenReferrer \in [Sessions -> Int]
  /\ seenUsed \in [Sessions -> Nat]
  /\ held \in [Sessions -> SUBSET Rows]
  /\ started \in 0 .. MaxOps /\ failures \in 0 .. MaxFailures
  /\ \A s \in Sessions : pc[s] = "idle" => held[s] = {}
  /\ \A s \in Sessions : pc[s] = "bonus" => Bonus(op[s]) > 0

Init ==
  /\ balance = [u \in Users |-> 0] /\ ledger = [u \in Users |-> 0]
  /\ used = 0 /\ redemptions = <<>>
  /\ raced = {}
  /\ pc = [s \in Sessions |-> "idle"]
  /\ op = [s \in Sessions |-> CHOOSE o \in Operations : TRUE]
  /\ seen = [s \in Sessions |-> 0] /\ seenReferrer = [s \in Sessions |-> 0]
  /\ seenUsed = [s \in Sessions |-> 0]
  /\ held = [s \in Sessions |-> {}]
  /\ started = 0 /\ failures = 0

-------------------------------------------------------------------------------
RowFree(r, s) == \A t \in Sessions \ {s} : r \notin held[t]

\* An UPDATE waits for the row and keeps it until the transaction ends.
Update(s, r) ==
  /\ RowFree(r, s)
  /\ held' = [held EXCEPT ![s] = @ \cup {r}]

Goto(s, at) == pc' = [pc EXCEPT ![s] = at]

\* The handler loads the customer (and, for a purchase with a promo code, the
\* code): from here on the session sees these values, whatever others commit.
Begin(s, o) ==
  /\ pc[s] = "idle"
  /\ started < MaxOps
  /\ started' = started + 1
  /\ op' = [op EXCEPT ![s] = o]
  /\ seen' = [seen EXCEPT ![s] = balance[o.user]]
  /\ seenUsed' = [seenUsed EXCEPT ![s] = used]
  /\ Goto(s, IF IsPurchase(o) THEN "loaded" ELSE "valid")
  /\ UNCHANGED <<dbVars, raced, seenReferrer, held, failures>>

RedemptionsBy(u) == Cardinality({i \in DOMAIN redemptions : redemptions[i] = u})

PromoOkUncounted(s) == RedemptionsBy(op[s].user) < MaxPerUser

\* PromoCodeService.validate: the counter as loaded, the customer's own
\* redemptions counted afresh.
PromoOk(s) == seenUsed[s] < MaxUses /\ RedemptionsBy(op[s].user) < MaxPerUser

AffordableUnchecked(s) == TRUE

\* extend_subscription: "if user.balance < price: raise".
Affordable(s) == op[s].kind = "balance" => seen[s] >= Pays(op[s])

Validate(s) ==
  /\ pc[s] = "loaded"
  /\ op[s].promo => PromoOk(s)
  /\ Affordable(s)
  /\ Goto(s, "valid")
  /\ UNCHANGED <<dbVars, raced, op, seen, seenReferrer, seenUsed, held, started, failures>>

\* users.balance and the transaction that explains it.
Charge(s) ==
  /\ pc[s] = "valid"
  /\ IF Effect(op[s]) # 0 THEN Update(s, UserRow(op[s].user)) ELSE UNCHANGED held
  /\ Goto(s, IF op[s].promo THEN "redeem" ELSE "reward")
  /\ UNCHANGED <<dbVars, raced, op, seen, seenReferrer, seenUsed, started, failures>>

\* PromoCodeService.redeem: used_count += 1 on the loaded object.
Redeem(s) ==
  /\ pc[s] = "redeem"
  /\ Update(s, Promo)
  /\ Goto(s, "reward")
  /\ UNCHANGED <<dbVars, raced, op, seen, seenReferrer, seenUsed, started, failures>>

\* The early returns of process_payment_bonus.
Earns(o) == Bonus(o) > 0

NoReward(s) ==
  /\ pc[s] = "reward"
  /\ ~ Earns(op[s])
  /\ Goto(s, "done")
  /\ UNCHANGED <<dbVars, raced, op, seen, seenReferrer, seenUsed, held, started, failures>>

LoadReferrer(s) ==
  /\ pc[s] = "reward"
  /\ Earns(op[s])
  /\ seenReferrer' = [seenReferrer EXCEPT ![s] = balance[Referrer[op[s].user]]]
  /\ Goto(s, "bonus")
  /\ UNCHANGED <<dbVars, raced, op, seen, seenUsed, held, started, failures>>

PayBonus(s) ==
  /\ pc[s] = "bonus"
  /\ Update(s, UserRow(Referrer[op[s].user]))
  /\ Goto(s, "done")
  /\ UNCHANGED <<dbVars, raced, op, seen, seenReferrer, seenUsed, started, failures>>

EndSessionKeepingRows(s) == Goto(s, "idle") /\ UNCHANGED held

\* The transaction ends and its row locks with it.
EndSession(s) ==
  /\ Goto(s, "idle")
  /\ held' = [held EXCEPT ![s] = {}]

BaseOfCustomer(s, u) == seen[s]

\* The value a session adds to: the one it loaded, not the committed one.
Base(s, u) == IF u = op[s].user THEN seen[s] ELSE seenReferrer[s]

\* The session works with u's row as it was when it loaded it.
Loaded(t, u) ==
  /\ pc[t] # "idle"
  /\ u = op[t].user \/ (u = Referrer[op[t].user] /\ pc[t] = "bonus")
                    \/ (u = Referrer[op[t].user] /\ pc[t] = "done" /\ Earns(op[t]))

Commit(s) ==
  /\ pc[s] = "done"
  /\ balance' = [u \in Users |->
       IF Delta(op[s], u) # 0 THEN Base(s, u) + Delta(op[s], u) ELSE balance[u]]
  /\ ledger' = [u \in Users |-> ledger[u] + Delta(op[s], u)]
  /\ raced' = raced \cup {u \in Users :
       Delta(op[s], u) # 0 /\ \E t \in Sessions \ {s} : Loaded(t, u)}
  /\ IF op[s].promo
       THEN /\ used' = seenUsed[s] + 1
            /\ redemptions' = Append(redemptions, op[s].user)
       ELSE UNCHANGED <<used, redemptions>>
  /\ EndSession(s)
  /\ UNCHANGED <<op, seen, seenReferrer, seenUsed, started, failures>>

\* ValueError: promo code used up, balance too low.  Nothing was written.
Refuse(s) ==
  /\ pc[s] = "loaded"
  /\ (op[s].promo /\ ~ PromoOk(s)) \/ ~ Affordable(s)
  /\ EndSession(s)
  /\ UNCHANGED <<dbVars, raced, op, seen, seenReferrer, seenUsed, started, failures>>

\* Any other exception, a crash, a timeout: rollback.
Rollback(s) ==
  /\ pc[s] # "idle"
  /\ failures < MaxFailures
  /\ failures' = failures + 1
  /\ EndSession(s)
  /\ UNCHANGED <<dbVars, raced, op, seen, seenReferrer, seenUsed, started>>

Wants(s) ==
  CASE pc[s] = "valid" /\ Effect(op[s]) # 0 -> {UserRow(op[s].user)}
    [] pc[s] = "redeem" -> {Promo}
    [] pc[s] = "bonus" -> {UserRow(Referrer[op[s].user])}
    [] OTHER -> {}

WaitsFor(s, t) == s # t /\ Wants(s) \cap held[t] # {}

\* PostgreSQL aborts a transaction of a wait cycle.
DeadlockAbort(s) ==
  /\ \E C \in SUBSET Sessions :
       /\ s \in C
       /\ \A t \in C : /\ \E v \in C : WaitsFor(t, v)
                       /\ \E v \in C : WaitsFor(v, t)
  /\ EndSession(s)
  /\ UNCHANGED <<dbVars, raced, op, seen, seenReferrer, seenUsed, started, failures>>

Step(s) ==
  \/ Validate(s) \/ Refuse(s) \/ NoReward(s) \/ LoadReferrer(s)
  \/ Commit(s) \/ DeadlockAbort(s)

Next ==
  \E s \in Sessions :
    \/ \E o \in Operations : Begin(s, o)
    \/ Step(s) \/ Charge(s) \/ Redeem(s) \/ PayBonus(s)
    \/ Rollback(s)

Spec == Init /\ [][Next]_vars

\* A started request runs on; a row lock goes to those who wait for it in turn.
FairSpec ==
  /\ Spec
  /\ \A s \in Sessions : /\ WF_vars(Step(s))
                         /\ SF_vars(Charge(s)) /\ SF_vars(Redeem(s)) /\ SF_vars(PayBonus(s))

-------------------------------------------------------------------------------
(* Properties                                                              *)

\* However purchases, deposits and bonuses interleave, the absolute writes
\* never leave a customer in debt: only an admin's deduction can do that.
NeverOverdrawn ==
  (\A a \in Adjustments : a > 0) => \A u \in Users : balance[u] >= 0

\* A balance its transactions do not explain comes from one cause only: the
\* row was written while another session worked with the value from before.
DriftNeedsOverlap == \A u \in Users \ raced : balance[u] = ledger[u]

\* used_count may fall behind the redemptions, never ahead of them, and never
\* beyond the limit an admin set.
PromoCounterBounded == used <= MaxUses /\ used <= Len(redemptions)

\* Requests that meet on a promo code and on each other's balance rows (an
\* inviter and the friend he invited) do not wait for one another for ever.
EverySessionEnds == \A s \in Sessions : pc[s] # "idle" ~> pc[s] = "idle"

\* services/__init__.py:96: nobody spends more than he was credited with.
NoDoubleSpend == (\A a \in Adjustments : a > 0) => \A u \in Users : ledger[u] >= 0
===============================================================================
