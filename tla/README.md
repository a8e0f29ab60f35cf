# QooQ VPN: models and proofs

QooQ VPN is a Telegram shop for VPN subscriptions: a bot (aiogram), a public API with
a Telegram Mini App (FastAPI), an admin panel (FastAPI) and cron scripts, all on one
PostgreSQL database, plus the Xray servers whose client lists the program writes. This
directory holds TLA+ models of that program, TLC configurations that model-check them,
and proofs checked by TLAPS. `PROJECT.json` maps each definition to the lines it models.

## 1. The system

### Processes and transactions

| Process | Started by | Transactions |
|---|---|---|
| API (`src/src/api`) | HTTP: Mini App, YooKassa webhook, subscription feed, hub pages | one per request, commit when the handler returns (`db/session.py:17-31`) |
| Bot (`src/src/bot`) | Telegram updates | one per update (`bot/middlewares/db.py:10-25`) |
| Admin panel (`src/src/admin`) | HTTP | one per request |
| `sync_xray_users.py` | cron, every 5 minutes | one per run |
| `sync_traffic.py` | cron, every 5 minutes | one per run |
| `poll_pending_payments.py` | cron, every 10 minutes, `flock`, 90 s limit | one per run, for all orders |
| `notify_subscription_expiry.py` | cron, daily | one per run, for all messages |

A handler reads rows into SQLAlchemy objects, computes, and writes absolute values. Rows
are locked by their UPDATE until the transaction ends. PostgreSQL runs at READ COMMITTED,
so there is no other isolation, except for one `SELECT ... FOR UPDATE`
(`get_by_external_id_for_update`). Any exception rolls the transaction back; messages to
Telegram, payments at YooKassa and files on the Xray servers are not rolled back with it.

### Components

| Component | State | Operations | What makes it correct | Module |
|---|---|---|---|---|
| Payment orders | `payment_orders`, the payment at YooKassa | create deposit / purchase, webhook, customer's check, poll | goods once, only for money, status and goods together, paid orders are found | `PaymentOrders`, `PaymentPromise` |
| Balance, promo codes, referral bonus | `users.balance`, `transactions`, `promo_codes.used_count`, `promo_code_redemptions` | purchase, deposit, bonus, adjustment, redemption | balance explained by transactions, no debt, limits on use | `Purchases` |
| Subscriptions | `subscriptions.status`, `expires_at`, `users.trial_used`, credentials | trial, purchase, renewal, gift, deactivation, sweep, feed, page views | paid days kept, no early expiry, no late expiry, one subscription | `Subscriptions`, `PaidTime` |
| Xray client lists | config file and running process of a server | sync from requests, sync from cron | the server serves the entitled clients | `XraySync` |
| Devices and credentials | `subscription_devices`, `subscription_config_credentials`, the link's token | add, delete, ensure, renew, expire, reset, feed | a link works until it is withdrawn and not after | `Credentials`, `LinkPromise` |
| Device slots | `subscription_hwids`, `device_limit_notified_at` | record, purge, prune, remove, clear, thaw | the first N devices have access, one overflow message | `DeviceSlots` |
| Reminders and nudges | `expiry_reminder_sent`, `purchase_nudge_sent_at` | daily run; renewal, gift, deactivation, deletion | everyone who is due, once | `Reminders` |
| Traffic | byte counters and baselines, Xray's counters | cron sync, panel sync, reset | no traffic counted twice, none lost but for restarts | `TrafficSync` |
| Referral and partner links | `referred_by_id`, `partner_link_id`, clicks | /start, short link, switch, delete, migration script | what brought a customer stays | `Attribution` |
| Imported subscriptions | `imported_subscriptions`, `imported_configs` | refresh by cron and admin, switch, delete | a feed shows the nodes that answer | `ImportedSubs` |
| Mailings and messages | the bot's FSM state and dictionary | five dialogues of an administrator | what was previewed goes to whom it was previewed for, once | `Dialogues` |
| Configuration catalogue | `vpn_configs` | panel's forms, seed at deployment | a default profile, and a main one that serves | `Catalogue` |
| Deployment scripts | files on the server, running services, schema version | copy, migrate, check, restart | services fit the schema and the files | `Rollout` |
| Settings, panel, pages, texts | settings, plans, servers | forms | single statements by one admin | none |

Components meet in four ways: by calls in one transaction (a settled order calls
`extend_subscription`, which charges, redeems, pays the bonus, ensures credentials and
may sync Xray); by shared rows (`users.balance` is written by all of
purchases, deposits, bonuses and admins; a subscription row by renewals, admins, the
sweep, the feed and whoever looks at it); by cron picking up what a request left; and by
the outside world (gateway, Telegram, Xray), which a rollback does not undo.

### What is hard here

Lost updates between overlapping transactions; checks on values loaded before a wait for a
row; SQLAlchemy not writing a column that did not change from the loaded value, and not
refreshing an object it has loaded; long transactions (the poll, the sweep) that lock rows
of many customers; SSH commands inside transactions; requests that die between two
external effects; cron as the only guarantee of progress. Section 6 lists where each is
checked; `hazards` in `PROJECT.json` lists each at its line.

## 2. The modules

**`PaymentPromise`** is what the customer is promised of an order: it becomes visible, it
may be paid, and orders that are open and paid in full are settled and credited in one
step, once. **`PaymentOrders`** is how `payment.py` keeps it. A session is one
transaction of a webhook, a customer's check or the poll. `WebhookStart`, `CheckStart` and
`PollStart` load orders; `LockOrder` is the `FOR UPDATE`; `GatewayConfirms` /
`GatewayRefuses` the query at YooKassa and the comparison of amounts; `AlreadyFulfilled`,
`NotYetFulfilled`, `Fulfil`, `FulfilRefused` the marker check and the goods; `Commit` and
`Rollback` the end. `view` is the identity map: the status a session first loaded is the one
it goes on seeing. `DeadlockAbort` is PostgreSQL's victim of a wait cycle. `CreateOrder`
... `RollbackCreate` are the four ways an order comes, or fails to come, into being; a
payment link may exist without its order. Messages to customers and admins are left out. (One
effect that the model makes visible: because `view` is not refreshed, a
session can see PENDING after another has settled the order and takes the branch that
notifies the admins a second time, `payment.py:169-172`; goods are still handed out once.)

**`Purchases`** has the money. `Begin` loads the customer's row, `Validate` makes the checks of
`extend_subscription` and the promo code, `Charge`, `Redeem`, `LoadReferrer`
and `PayBonus` write and thereby lock rows. What was loaded is in `seen`, `seenReferrer`
and `seenUsed`; writes are absolute. `raced` is history: users whose row was committed
under a session that had loaded it. Prices are whole kopecks, the plan's price is
positive in the runs.

**`Subscriptions`** has the life of one customer's subscriptions. `Start` begins an
operation; `Load...` is the query and the decision of one operation, which leaves in
`target`, `setStatus`, `setExpires` and `setKeys` what the session will write; `Write`,
`Insert`, `ReadKeys`, `WriteKeys` are the flushes in the order of the code. The sweep writes row after row,
each with its credentials (autoflush). `Unless` is SQLAlchemy's rule that a column set to its
loaded value is not written. A purchase from the balance updates the user's row first
(`PaysFirst`), and that lock is what orders renewals. Time is a day counter;
`bought` (days each row has had) and `raced` (rows written while another session worked on them)
are history. Devices and servers are abstracted: a subscription has credentials or has not.

**`PaidTime`** is what the customer is promised of the time he pays for: a purchase adds its plan to what is left of
one subscription, in one step, and nothing else moves an end. If nothing is left it counts from the moment at which it
looked at the clock, which is some moment up to the payment (`at`): the code reads the clock when it reads the row and commits later.
It is kept when renewals pay from the balance; `expires` and `bought` are mapped to it as they are.

**`XraySync`** has the client list of one server: `TakeList` inside the transaction,
`ReadFile`, `Merge` with its early return, `WriteFile` (an atomic replacement), `Reload`,
then `Commit`. `SkipSync` is the purchase in the bot, which leaves the sync to cron. The
list is compared with its order and the query has none, so `Merge` may rewrite an equal file.
The second managed node is a second independent run of the same code.

**`DeviceSlots`** has the hardware ids of one subscription. `Begin` loads the subscription's row;
`Purge`, `Prune`, `Remove`, `Clear` delete rows and hold them; `Lookup` and `Touch` or `Insert`
are `record_hwid`; `Decide` is `is_hwid_allowed`; `Tell` and `MarkTold` are the overflow message and
its mark. A row is its `first_seen_at`, which is the start of the transaction that inserts it, not
its commit. `View` is what a READ COMMITTED statement sees. The former freeze of a whole subscription
is only ever lifted. Which ids look like fingerprints of browsers is a constant; the code's expression
(`device_limit.py:29`) matches any 32 hexadecimal digits, so a real device may be among them.

**`Credentials`** has the devices of one subscription and a uuid for each device and configuration.
A request reads devices, configurations and credentials in three SELECTs (`Reading`), writes in a flush
that takes locks (`Locking`), and answers from the instances it loaded. `handed` and `withdrawn`
are history: the links that were given out and those that a reset or an expiry took back.
No request but the feed asks for the status: a reset accepts a SUSPENDED subscription (`services/__init__.py:190`), an administrator
may add a device to a SUSPENDED or EXPIRED one (`admin/services.py:425`), and one that is over may be deactivated again, so
`Begin` has no guard on `paid`. `paid` is one bit for "neither suspended nor over"; so the model also resets an EXPIRED subscription,
which the code refuses. That links are given only while the subscription is paid is therefore said of the feed alone. The hub of
bot and Mini App (`build_hub_data`), which also completes credentials and shows links while a subscription is SUSPENDED, is not modelled.

**`LinkPromise`** is the customer's view of them: a set of links that work, and which of a refresh, a removed device, the end of the time or a new
address takes which away. Its refresh may drop the links of any set `C` of configurations that is not all of them: the request read the configurations
in an earlier SELECT, and a link of one that has been switched off and on again meanwhile is dropped all the same. With no configuration on offer the code touches nothing
(`config_credentials.py:92-94`). `Working`, the mapped variable, is the links whose uuid is in its row and live.

**`Reminders`** has the daily script: `Load` the customers, `Send` one by one, commit at the end; a
crash loses the notes and not the messages. Dates are relative (days left, days since a nudge).

**`TrafficSync`** has Xray's counters, which restart from zero, and the syncs that add their growth to
the devices. Cron fetches before it loads, the panel loads before it fetches. What the model shows
besides: a reset of the traffic also clears the baselines, so that the next sync adds the whole of Xray's counters
again (`reset_user_traffic`); such behaviours are `disturbed` and outside `CountedWasUsed`.

**`Attribution`** has the first /start, the partners' links and the script that fills in referrers of
the old database. Codes stand for their owners. `unseen` records who registered while
their link was being deleted: `ON DELETE SET NULL` takes their partner away.

**`ImportedSubs`** has one imported source: a refresh fetches the list, probes its nodes for seconds,
and only then loads and writes the rows. **`Catalogue`** has the configurations that panel and
seed write: loaded columns, the flush in the middle, and only changed columns written.

**`Dialogues`** has one administrator's state and dictionary in aiogram's `MemoryStorage`, which five
dialogues share. Updates are matched when they arrive, handled at once with others, and see the
state as it is after their wait for the database. Buttons of old messages can still be pressed.

**`Rollout`** has what the deployment scripts do: a script is a sequence of `put`, `migrate`, `check`,
`restart` steps (`Plan`), and can stop at each. `Loaded` and `LoadedLate` say which service imports which file.
Migrations have numbers: `versions` are those on the disk, `schema` is the version of the database, `needs` the one that the models
on disk need. `put version` copies one migration; `migrate` (`alembic upgrade head`) takes the database to the newest on the disk, whatever
the models need, and fails if the disk lacks the predecessor of one. Four scripts (`Behind`) copy the repository's models, which
need migration 018, with an older migration: `deploy_profile_keys` and `deploy_fix_manual_key_import` with 014, `deploy_telegram_admins` with
013, `deploy_expired_renew_nudges` with 017. `lagging` remembers that one of them copied its models while 018 was not on the disk,
until a migration suffices.

### How they are put together

The `MC...` modules give the constants of functional type their values. Components that share no state
are checked in one run: in `MCWithOthers` (payments, attribution, dialogues, catalogue, reminders),
`MCWithTraffic` (subscriptions, traffic), `MCWithScripts` (Xray, imported subscriptions, rollouts) and
`MCAccess` (slots, credentials) the variable `part` names a component, a behaviour is a behaviour
of that one, and the others keep an initial value. Nothing is claimed about interaction of such
components; the models interact only within a module. An invariant of a part is guarded by `part`.

Definitions with a suffix (`...Unchecked`, `...Later`, `EndSessionKeeping...`) or a name like
`ClearedNone` that no other definition uses are plausible mistakes: each property is
listed with one under which TLC finds it violated.

## 3. Runs

| Run | Question | Answer |
|---|---|---|
| `pay_safety` | Can webhook, check and poll on a purchase and two deposits (one paid with a wrong sum), with one failure, hand out goods twice, or out of step with status or money? | no; and the sessions implement `PaymentPromise` |
| | Does a customer lose who brought them, or a link its clicks (`AttributionKept`)? | only by a deletion or a click that overlapped |
| | Can a button send something else than its preview, or twice (`SentAsShown`)? | no, unless updates were handled at once since the dialogue began; never twice |
| | Is someone passed over, or reminded twice (`RemindedOnce`)? | only after a renewal that overlapped a run, or a crash |
| | Is there one default configuration, and does a seed leave one that serves (`OneDefault`)? | yes, but for seeds and overlapping edits |
| `pay_liveness` | Is a paid deposit credited if webhooks fail, and does every session end, though poll and webhook lock in opposite orders? | yes |
| `pay_starved` | Does the poll find every visible paid order, as `payment.py:208` has it? | no: abandoned orders fill the limit |
| `purchases_all` | Two overlapping requests out of three, with one failure: debt, unexplained balances, counters beyond limits, endless waits? | none without an overlap; no debt, no overrun, no endless wait |
| `purchases_doublespend` | Can a customer spend more than was credited? | yes: two overlapping purchases |
| `subs_balance` | Three renewals from the balance with deactivations, views, sweep and feed: is a paid day lost, a second subscription made, a row EXPIRED with time left without two sessions having worked on it? | no |
| | Is a purchase one step for the customer (`RenewalsAddUp`)? | yes; the sessions implement `PaidTime` |
| | Is traffic counted twice, or missed but by a restart (`CountedWasUsed`)? | no, unless a reset, changed credentials or a sync between fetch and load interfere |
| `subs_fair` | With only cron to rely on: is a lapsed subscription marked, do sessions end, do lost credentials come back with the next refresh? | yes |
| `subs_early` | Is EXPIRED only what happens at the end (`README.md:248`)? | no: a renewal that overlaps the sweep |
| `subs_days` | Are days always added (`README.md:246`)? | no: two gateway payments settled at once |
| `xray_all` | Overlapping syncs, stale lists, skipped syncs, one failure: is a written file always loaded, does the server converge? | yes, unless something fails |
| | Does the feed show the imported nodes that answered (`ShownAnswered`)? | yes, unless refreshes overlap |
| | After any two scripts, broken off anywhere: does a service run models the database lacks, an old copy, or not at all (`InStep`, `CheckedFirst`)? | the models only if it was started by itself before the migration, a script stopped before it, or one of the four scripts of `Behind` has copied models without their migration; an old copy only after scripts that do not restart all readers; not at all only after scripts that check too little |
| `access` | Does a served device keep its slot, is the customer told once (`KeepsSlot`, `OverflowToldOnce`)? | yes, but for requests that overtake each other, and renewals or failures in between |
| | Do links live exactly as long as they should (`OldLinksDie`, `LinksLast`), is the device limit kept, do refreshes repair what is missing (`DeviceLimit`, `InLineAtLast`)? | yes; a refresh that overlaps a reset may hand out a link that outlives it, and concurrent additions exceed the limit by one each |
| | Is what a request does to the links one step, of whole configurations, a device or all (`KeepsLinks`)? | yes; the requests implement `LinkPromise` |
| `xray_reload` | Does it converge if one reload fails? | no: later syncs find the file unchanged |

**Bounds.** `MaxFailures`, `MaxOps`, `MaxRows`, `MaxTime` and `MaxLapses` bound behaviours and are named in
the modules. Two requests besides cron and the client are enough for every lost update and every wait
cycle of two; three orders let one poll hold one order while it waits for another and a third
is paid wrongly; three operations let a stale write hide an earlier overlap's result; a
bonus of 100 % of a discounted price lets a friend's purchase with the promo code wait for the
inviter's row while the inviter's waits for the code (`DeadlockAbort`); two subscription
rows allow a wrongly inserted second one; three days allow renewal before, at and after expiry
(`subs_fair` starts with one paid subscription or none, `NoTrialSpec`). `pay_liveness` starts with two
orders placed, a purchase and a deposit (`PlacedInit`), to which a deposit is added.
Two requests on one slot with three hardware ids, one of them a phantom with a row from the start, let rows
be committed out of order and a purge promote a refused device; two configurations and three device ids make a reset
overlap a refresh and a deletion in the credentials. Two traffic syncs, three bytes, a restart and one
change are enough for an old reading to be written after a newer one, and for a restart between them.
Two refreshes of two nodes overlap in every order, and can be followed by more of them. Five
registrations, clicks and edits with two sessions let a circle of referrals be closed by the script.
Five updates with two handlers let a preview, a second dialogue and a button of the first one meet.
Three transactions on a catalogue of at most three rows make a seed follow and meet edits (the admin's new names are restricted
to one that the seed retires; the database of an older version is the other initial state and is left out in the run). Four days
and three runs pass through all the reminders of a period, a renewal and a crash. Two rollouts suffice for a
script to meet what another left behind. They start on a server at migration 016 (`Deployed`): `deploy_profile_keys` or the nudges' 017 then leave the database behind the models,
the imports' 018 alone lacks its predecessor and fails, and a full deployment, or the nudges and then the imports, bring the database up. The proofs below do not depend on bounds. The
modules stop when their bounds are used up, so deadlock is not checked where requests
are bounded (`CHECK_DEADLOCK FALSE`); that sessions get on is what `EverySessionEnds` says. `XraySync_reload`
runs with the deadlock check.

**Symmetry** (`MCSubscriptions`) permutes the request sessions, which neither `PaidTime` nor an invariant names, and is used only in runs without
liveness properties.

**Fairness.** A started session takes its next step (`WF`), because asyncio and PostgreSQL run it; a
step that waits for a row lock is strongly fair, because PostgreSQL grants a row in the order of the
requests; cron starts its scripts (`WF` on `PollStart`, `Sweep`, `CronBegin`). No fairness is
assumed of customers, admins, the gateway, webhooks or VPN clients; where a client
must refresh its feed (`KeysComeBack`), that is a premise of the property. The one exception is
`InLineAtLast`, which is about what refreshes bring about: in `access` a client whose subscription has a session to
spare asks for its feed again and again (`SF` on `Begin(s, "feed", 0)`). The other parts of `access` and of the
other joint runs are checked for safety only. A rollback is never forced.

## 4. Proofs

Every safety property that a passing run checks is the conclusion of a theorem, the three refinements (`KeepsPromise`,
`RenewalsAddUp`, `KeepsLinks`) among them. A theorem holds for all values of the constants that satisfy the `ASSUME`s of the module it
extends: any set of orders, customers, rows, sessions or messages (finite where the model counts them), and
any bound on operations, failures and crashes. A component that is checked in a joint run names its assumption as a definition
(`AttributionAssumption`, `DialoguesAssumption`, `CatalogueAssumption`, `RemindersAssumption`, `TrafficAssumption`,
`RolloutAssumption`, `CredentialsAssumption`), which the joint module assumes of its instance and TLC evaluates on it. They say that
bounds are natural numbers (with room for the first two rows in `Catalogue`), ids positive, counted sets finite, the versions a server may start from existing ones, subsets what they are
called, and a null is none of the values.
The theorem is then about the specification of the joint run (`OthersSpec`, `EitherSpec`, `ScriptsSpec`, `AccessSpec`): a lemma shows that
its behaviours are behaviours of each part, which may stand still (`SubscriptionPart`, `RolloutPart`, ...), and the invariant is proved of the part alone.
The theorems of the module that a joint module extends (payments, subscriptions, Xray, slots) are about that module's own `Spec`. Sizes
that are written into `Catalogue` and `Rollout` (the names of the seed, the scripts, the number of the newest migration) are the code's.

| Theorem | Says |
|---|---|
| `PaymentOrders_proofs!AtMostOnce`, `StatusAgreesWithCredit`, `OnlyIfPaid` | the three safety invariants of `pay_safety` |
| `PaymentOrders_proofs!Implementation` | `Spec` implements `PaymentPromise` |
| `Purchases_proofs!DriftOnlyByOverlap`, `CounterNeverAhead`, `NoDebt` | the three safety invariants of `purchases_all` |
| `Subscriptions_proofs!ExpiryIsDue` | `EarlyExpiryNeedsOverlap` |
| `Subscriptions_proofs!BalanceKeepsDays`, `BalanceMakesOne` | `DaysKept`, `OneSubscription` |
| `Subscriptions_proofs!RenewalsAreAtomic` | `RenewalsAddUp`: `Spec` implements `PaidTime` |
| `MCWithScripts_proofs!NoFileForgotten` | `FileGetsLoaded` |
| `MCWithScripts_proofs!ImportsShown` | `ShownAnswered` |
| `MCWithScripts_proofs!ServicesInStep`, `ChecksProtect` | `InStep`, `CheckedFirst` |
| `MCAccess_proofs!SlotKept`, `ToldOnce` | `KeepsSlot`, `OverflowToldOnce` |
| `MCAccess_proofs!LinksHold`, `OldLinks`, `Limited` (by those of `Credentials_proofs`) | `LinksLast`, `OldLinksDie`, `DeviceLimit` |
| `MCAccess_proofs!PromisedLinks` (by `Credentials_proofs!LinksPromised`) | `KeepsLinks`: the requests implement `LinkPromise` |
| `MCWithTraffic_proofs!Counted` | `CountedWasUsed` |
| `MCWithOthers_proofs!AttributionHolds`, `DialoguesHold` | `AttributionKept`, `SentAsShown` |
| `MCWithOthers_proofs!CatalogueHolds`, `RemindersHold` | `OneDefault`, `RemindedOnce` |
| `TypeCorrect` (payments, purchases, subscriptions, Xray, slots, credentials); `AccessTypes`, `OthersTypes`, `BothTypesHold`, `ScriptsTypes` of the joint runs | types, and who may hold which lock |

*Payments.* `CreditedAtMostOnce` is not inductive: a session that is about to fulfil must be known to
have seen no fulfilment that is not its own. `IInv` adds that a session works on an
order only under the row lock it has taken (`LockDiscipline`), that its uncommitted fulfilment is
the only one (`WritesAreFresh`), that what the gateway said stays true (`GatewayAsked`), that a stale
`view` errs only towards "not yet settled" (`ViewsAreSound`), and the
relation of status, marker and money (`OrderState`). It survives the stale identity map because the marker
is looked up afresh under the lock.

*Purchases.* `SnapshotsHold` says that what a session loaded is still what is committed unless the user
is in `raced`; a commit puts every user it disturbs there. `PromoSeen` bounds remembered counters
by the redemptions. `Solvent` says that a checked purchase remembered enough money, so an absolute write is
never negative, however stale.

*Early expiry.* `EarlyInv` adds to the invariant that every session's plan is right for rows that are not
raced (`PlanIsCurrent`: it means to expire only what has lapsed, and keeps a status only if it is
not EXPIRED), and that a row it writes without having loaded is its own new one (`OwnRowsRun`). A commit
races every row another session has loaded to write, so their plans need to hold for no others.

*Paid days.* `DaysInv`: at most one session holds the customer's row (`OneHolder`); a session
that adds days holds it from before it reads the subscription (`PaysInTurn`); so between its reading
and its commit no other adds days, and the expiry it will write covers them (`CoversDays`). Inserted
rows have had nothing yet (`FreshRows`). The premise `Serialised` (every renewal pays from the balance)
is needed: gateway payments and gifts do not take that lock (`subs_days`).

*Purchases are atomic.* `ExactInv` says with equality what `CoversDays` says with an inequality: a session that pays from the balance is about
to write one row, and what it will write is its plan on top of what that row has now, counted from a moment that has been (`ExactPlan`), and rows not yet
inserted have no end. It needs `DaysInv`: another purchase would change the row under the plan, and `PaysInTurn` puts it before its reading or after the commit.
Then a commit is `Renew`, a tick is `Pass`, and every other step, the sweep and the rollbacks among them, leaves the account alone.

*One subscription.* `OneInv` stands on `OneHolder`: a session inserts a row only while there is none
(`FirstRow`), since with one row at most the query finds it (`FoundIfAny`); whoever inserts holds the customer's row, so no
other purchase is past its own reading when the new row is committed.

*Xray.* While nothing failed, a session between writing and reloading exists whenever the file is ahead of the
process; another session's write or reload keeps that true.

*Device slots.* `Locks`: a row is deleted, touched or inserted by one request at a time, and what a request
deleted or touched was there. `WillKeepSlot`: the answer a request has decided on stays right until
it is given, in what that request sees, unless an earlier row is committed meanwhile (`overtaken`), because
rows that go only move the others up. `ToldIsNoted`: a message that was sent is noted, or its sender is
still on the way to note it, or `again` says why not.

*Credentials.* `Locks` again keeps the rows of two requests apart, and `Kept` says that the device of a row to be
written is not removed by another meanwhile. A link is handed out for good only by a request that ran
alone (`Quiet`); for that one, what it loaded and answers is what the rows will be after its commit (`Snapshot`).
`Replaced`: a uuid that is about to take the place of a handed one comes with its revocation, since a uuid is
only planned for a key that is not live; so a commit leaves a handed link alone or withdraws it
(`Current`). `ResetCuts`: past its first step a reset holds all rows that have been handed out. `Fresh`: a planned uuid
is in no row, no withdrawn link and no other plan, so that a withdrawn link cannot come back (`Gone`).
For the refinement of `LinkPromise`, `CutInv` says of the links that were handed out: what a refresh, a renewal or an addition has revoked so far,
or is about to, is those of some configurations and not of all (`ByConfiguration`: it never splits a configuration between two devices, since the list of those on offer
is one for all rows, and with an empty list it stops early); what a deletion revoked is of its device; an expiry has revoked them all; and a feed that will answer has found the time paid (`PaidFor`).
That a commit gives no link twice is `Fresh` and `Gone`; that two links of one key never work is the one row they would share.
`Bounded` counts, besides the devices, the requests that have passed the test of the limit and not yet committed (`Adding`).

*Attribution.* `AttributionInv`: what a transaction has read is still so when it uses it (`Knows`: the referrer of a row that will be inserted
is known and is not the new user; everyone a deletion will strip of a partner is in `unseen`; a row that the script will
give a referrer had none), because those facts are never undone or a lock keeps them. `Apart` has what the
locks give: no two inserts of one user, no insert with a link that is being deleted, and two clicks on
a link at once are `overlapped`. `AttributionKept` alone says nothing of transactions that have not committed yet.

*Dialogues.* `DialogueInv`: a message is with one handler, or in one entry of the dictionary, or was sent, once (`OnePlace`); so a
button pressed again finds nothing to send. `PreviewHolds` says what the dictionary holds in the states that
show a preview, and that an update that nothing overtook is handled in the state it arrived in. Only the
direct message needs the premise `~ mixed`.

*Catalogue.* `CatalogueInv`: a transaction that is alone has loaded what is committed, and, if it is about to choose a
default, every other default (`AloneIsCurrent`), so that its flush leaves one at most; a transaction that is
not alone, or a seed, spoils the catalogue when it commits (`OneOrSpoiled`), and a seed that was alone leaves a default that serves.

*Reminders.* The mark in a row, the notes of the run that has not committed, and what was sent in the period
determine each other, for a customer whose renewal did not overlap a run, while no run has crashed: `MarkWasSent` and `NotedWasSent` say that
what is noted was sent, `SentIsMarked` the converse, and that the last note is the nearest to the expiry.
`LoadedIsNow` says that the row of someone the run has still to look at is as it was loaded; `RenewalClears` that a renewal which found no mark
leaves none behind; `NudgesNoted` is the same for nudges.

*Traffic.* `Fits` relates a pair of bytes and baseline to a reading of the counters that may be old: counting that reading now, and
the present one later, does not exceed what was used, and without a restart gives exactly that. `TrafficInv` has it of the committed
rows and of what each sync holds, stage by stage (`LoadedFirst`, `FetchedFirst`, `ReadyToSave`). A
commit of one sync keeps it for another that has already loaded, because `Fits` speaks of the pair the other holds: if that older pair is
written last, what it has not counted is still in the growth past its own baseline. Sums over credentials are folds, and the lemmas on them say that
they are natural numbers, monotone in the counters, and zero without credentials.

*Imported subscriptions.* `ImportsInv`: two refreshes that run at once both know that they do (`OnlyOne`), and one that is alone has loaded what is committed
(`Current`), so `answered` and the rows agree after its commit.

*Rollouts.* `RolloutInv` is about the remaining steps of a script. But for the four scripts of `Behind`, the newest migration is on
the disk before the models are copied (`SuppliesFirst`), and a migration that ends well ends at the newest on the disk. So models that
are ahead of the database are `lagging`, or their migration is on the disk, and a script has stopped or will run it
before its next restart (`MigratesFirst`, `WillMigrate`); a script that leaves nothing behind has still to restart each
service with an old copy (`Covers`, `WillRestore`); what a checking script restarts is checked between the copy and the
restart (`ChecksFirst`). That each of the forty plans starts out so is `Planned`. It is proved from lemmas on how these predicates
pass through the concatenation of copies, a migration, checks and restarts (`JoinedPlain`, `JoinedMigrates`, `JoinedSupplies`, `Restarting`,
`Checking`). That a tail of such a plan is such a plan (`TailSteps`, `TailSupplies` ...) is what a step needs.

**Model-checked only.** The liveness properties: `PaidDepositsAreCredited`, `EverySessionEnds`, `LapsedIsMarked`, `KeysComeBack`,
`ConvergesUnlessFailed` and `InLineAtLast` (TLAPS cannot use fairness and `ENABLED` here); and, since they fail, the properties of the
runs that expect a violation. Cron scripts being one at a time (`flock`) and the behaviour of PostgreSQL's locks are
part of the models, not results.

## 5. Not modelled

- *Promo-code rules and prices*: dates, plan filter, discount and rounding are arithmetic on one row; limits
  on use, which can be raced, are in `Purchases`, with the discount as a constant function.
- *Subscription feed and share links*: the formatting of links, client JSON and pages (`vpn_config.py`, `sub_feed.py`
  beyond what it does to rows).
- *Panel, bot and Mini App as user interfaces*: forms, menus, texts, dashboards, login; settings and
  the list of Telegram admins; single statements by one admin have no behaviour a model adds to.
- *Mini App authentication*: a hash check, which a model can only assume.
- *What schema migrations do*: `Rollout` has their numbers, their order and which of them are on the disk; the removal of a stray
  file `016_purchase_nudge_sent.py` by `deploy_expired_renew_nudges` is left out; scripts for LTE nodes, nginx, certificates, verification and
  debugging; repairs of data and the contents of `/etc/cron.d` (a script that replaces the file without the
  payment poll ends what `pay_liveness` assumes).
- *Deletion of a whole subscription* by an admin: it removes every row the other operations look at.
- *Deliveries*: that a mailing fails for one of many recipients changes no state and is left out.

Within the modelled parts: purchases at a price of zero (which lock no user row) are not in
`Subscriptions`; the transfer of a paid order into a subscription is one step of `PaymentOrders`
(`Fulfil`), whose parts are in `Purchases` and `Subscriptions`; `Subscriptions` has credentials as one bit, which
`Credentials` takes apart; `TrafficSync` has one direction and no sums per subscription; `Catalogue` has one
type of configuration. Locks of foreign keys are modelled where a deletion can meet them (`Attribution`).

### What reading showed besides

Where doc or comment and code differ and TLC shows it, `findings` has it (`pay_starved`,
`subs_early`, `subs_days`, `purchases_doublespend`, `xray_reload`). Seen while modelling, without a run: `README.md:249`
speaks of suspending a subscription with more than three devices, while the code refuses the surplus devices and only lifts suspensions;
`vpn_servers_sync.py:182` speaks of leaving the admin's configurations alone, while the seed takes over a row that an admin has given one of its older names; `broadcast.py:102`
and `:153` and `direct_message.py:70` call repository methods that do not exist, so the mailing of `broadcast.py`
stops at its first message and a recipient cannot be named by user name; `_deny` (`admin.py:31`) does not await its answer, so a refusal is not shown;
the four scripts of `Behind` end without an error and leave services on models whose columns the database lacks, if the server has not had the
newer migrations before; an administrator can add a device to a subscription that is over, whose credentials are then not revoked until the next feed,
though the list for Xray leaves them out (`config_credentials.py:287`).

## 6. Hazards and where they are checked

| Hazard | Properties |
|---|---|
| the same order settled by several sessions; stale status; dying half-way | `CreditedAtMostOnce`, `SettledIffCredited`, `KeepsPromise` |
| opposite lock orders | `EverySessionEnds` in three modules |
| missing webhook | `PaidDepositsAreCredited`, `PollIsSafetyNet` |
| lost update of a balance, a counter, an expiry | `DriftNeedsOverlap`, `NeverOverdrawn`, `NoDoubleSpend`, `PromoCounterBounded`, `DaysKept`, `RenewalsAddUp`, `DaysNotLost` |
| two first purchases at once | `OneSubscription` |
| sweep against renewal | `EarlyExpiryNeedsOverlap`, `ExpiredMeansOver` |
| nobody looks at a lapsed subscription | `LapsedIsMarked` |
| credentials revoked under a running subscription | `KeysComeBack` |
| stale lists, failed reloads | `FileGetsLoaded`, `ConvergesUnlessFailed`, `Converges` |
| rows of devices committed out of order; rows purged while others are refused | `KeepsSlot` |
| two refused requests at once, a failure after sending | `OverflowToldOnce` |
| refreshes, resets and expiries on the same credentials | `OldLinksDie`, `LinksLast`, `KeepsLinks`, `InLineAtLast`, `DeviceLimit` |
| a crash between sending and noting; a note of the period before | `RemindedOnce` |
| counters that restart; a reading that is older than the baseline | `CountedWasUsed` |
| a partner link deleted under a registration; referrals filled in afterwards | `AttributionKept` |
| overlapping refreshes of an imported source; nodes that come and go | `ShownAnswered` |
| old buttons, other dialogues' data, updates handled at once | `SentAsShown` |
| a seed over an admin's edits | `OneDefault` |
| scripts that stop half-way, bring models without their migration, copy what others import, or check too little | `InStep`, `CheckedFirst` |

Hazards without a property are in `PROJECT.json` with the reason.

## 7. Plan

1. The safety halves of the liveness properties as theorems (P): in a state in which nothing is under way and nothing failed, the Xray process serves the
   clients of the last list, and no lapsed row is unmarked after a sweep.
2. `PromoRules`: validity and discount as functions, checked against a definition over bounded amounts; bounds
   and monotonicity as lemmas (P); cited by `Purchases` in place of `Discount`.
3. Deletion of a subscription, in `Subscriptions`, `Credentials` and `DeviceSlots`.
   The same kind of promise as `PaidTime` and `LinkPromise` for the slots of hardware ids.
4. A composition of `Subscriptions` with `XraySync`: a client is served only while a committed or running transaction
   entitles him, and not for ever after.
5. Composition of `PaymentOrders` with `Purchases` and `Subscriptions` in place of the single step `Fulfil`.
