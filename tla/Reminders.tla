------------------------------- MODULE Reminders --------------------------------
(***************************************************************************)
(* The daily messages (src/src/services/expiry_reminders.py,               *)
(* src/scripts/notify_subscription_expiry.py): a reminder three, two and   *)
(* one day before a subscription ends, and a nudge from time to time to    *)
(* those who have none.  One transaction loads the customers, sends the    *)
(* messages one by one, notes each in the customer's row, and commits at   *)
(* the end; renewals, deactivations and deletions run beside it.           *)
(*                                                                         *)
(* Dates are relative: the days left, and the days since a nudge.          *)
(***************************************************************************)
EXTENDS Naturals, FiniteSets

CONSTANTS
  Customers,    \* finitely many
  Subscribed,   \* those with a subscription at the start
  Banned,       \* users.is_banned
  MaxLeft,      \* the days left after a purchase
  FirstAfter,   \* PURCHASE_NUDGE_FIRST_AFTER, in days
  Interval,     \* PURCHASE_NUDGE_INTERVAL, in days
  Batch,        \* PURCHASE_NUDGE_BATCH
  MaxDays,      \* bound: days
  MaxRuns,      \* bound: runs of the script
  MaxOps        \* bound: operations on subscriptions

\* Only customers have subscriptions, and days are counted in whole numbers.
RemindersAssumption ==
  /\ Subscribed \subseteq Customers
  /\ MaxLeft \in Nat /\ FirstAfter \in Nat /\ Interval \in Nat

VARIABLES
  state,    \* "none", "active" (ACTIVE or TRIAL and not over), "suspended"
  left,     \* days until expires_at
  mark,     \* expiry_reminder_sent, 0 for None
  nudged,   \* days since purchase_nudge_sent_at up to Interval, Never for None
  age,      \* days since created_at, up to FirstAfter
  renewal,  \* per customer: what a renewal has loaded
  job,      \* the run of the script
  sent,     \* history: the days for which the current period has had its reminder
  silence,  \* history: days since a nudge was last delivered, Never for none
  raced,    \* history: customers whose renewal overlapped a run
  missed,   \* history: customers a run has passed over without a reminder
  repeated, \* history: customers who got a message again too early
  crashed,  \* history: a run has failed
  day, runs, ops

rows == <<state, left, mark, nudged, age>>
history == <<sent, silence, raced, missed, repeated, crashed>>
vars == <<rows, renewal, job, history, day, runs, ops>>

ReminderDays == {1, 2, 3}
Never == Interval + 1
NoRenewal == [on |-> FALSE, left |-> 0, mark |-> 0]
NoJob == [at |-> "idle", todo |-> {}, left |-> [c \in Customers |-> 0],
          mark |-> [c \in Customers |-> 0], marked |-> {}, nudged |-> {}, gone |-> {}]

TypeOK ==
  /\ state \in [Customers -> {"none", "active", "suspended"}]
  /\ left \in [Customers -> 0 .. MaxLeft] /\ mark \in [Customers -> {0} \cup ReminderDays]
  /\ nudged \in [Customers -> 0 .. Never] /\ age \in [Customers -> 0 .. FirstAfter]
  /\ sent \in [Customers -> SUBSET ReminderDays] /\ silence \in [Customers -> 0 .. Never]
  /\ {raced, missed, repeated} \subseteq SUBSET Customers /\ crashed \in BOOLEAN
  /\ \A c \in Customers : ~ renewal[c].on => renewal[c] = NoRenewal
  /\ job.at = "idle" => job = NoJob
  /\ job.marked \cap job.gone = {}

Init ==
  /\ state = [c \in Customers |-> IF c \in Subscribed THEN "active" ELSE "none"]
  /\ left = [c \in Customers |-> IF c \in Subscribed THEN MaxLeft ELSE 0]
  /\ mark = [c \in Customers |-> 0] /\ nudged = [c \in Customers |-> Never]
  /\ age = [c \in Customers |-> 0] /\ renewal = [c \in Customers |-> NoRenewal]
  /\ job = NoJob
  /\ sent = [c \in Customers |-> {}] /\ silence = [c \in Customers |-> Never]
  /\ raced = {} /\ missed = {} /\ repeated = {} /\ crashed = FALSE
  /\ day = 0 /\ runs = 0 /\ ops = 0

-------------------------------------------------------------------------------
(* The run: reminders, then nudges, then the only commit                   *)

\* list_active_with_users
Start ==
  /\ job.at = "idle" /\ runs < MaxRuns
  /\ runs' = runs + 1
  /\ job' = [NoJob EXCEPT !.at = "remind", !.todo = {c \in Customers : state[c] = "active"},
                          !.left = left, !.mark = mark]
  /\ UNCHANGED <<rows, renewal, history, day, ops>>

Due(c) == c \notin Banned /\ job.left[c] \in ReminderDays

DueEveryTime(c) == Due(c)

\* A day's reminder has not been sent, nor one for fewer days.
NotYet(c) == Due(c) /\ ~ (job.mark[c] # 0 /\ job.mark[c] <= job.left[c])

Skip(c) ==
  /\ job.at = "remind" /\ c \in job.todo /\ ~ NotYet(c)
  /\ job' = [job EXCEPT !.todo = @ \ {c}]
  /\ missed' = IF Due(c) /\ job.left[c] \notin sent[c] /\ c \notin raced \cup job.gone
                 THEN missed \cup {c} ELSE missed
  /\ UNCHANGED <<rows, renewal, sent, silence, raced, repeated, crashed, day, runs, ops>>

\* Telegram takes the message, and the flush notes it.
Remind(c) ==
  /\ job.at = "remind" /\ c \in job.todo \ job.gone /\ NotYet(c)
  /\ job' = [job EXCEPT !.todo = @ \ {c}, !.marked = @ \cup {c}]
  /\ sent' = [sent EXCEPT ![c] = IF c \in raced THEN @ ELSE @ \cup {job.left[c]}]
  /\ repeated' = IF job.left[c] \in sent[c] /\ c \notin raced THEN repeated \cup {c} ELSE repeated
  /\ UNCHANGED <<rows, renewal, silence, raced, missed, crashed, day, runs, ops>>

RemindFails(c) ==
  /\ job.at = "remind" /\ c \in job.todo /\ NotYet(c)
  /\ job' = [job EXCEPT !.todo = @ \ {c}]
  /\ UNCHANGED <<rows, renewal, history, day, runs, ops>>

Wants(c) ==
  /\ state[c] = "none" /\ c \notin Banned /\ age[c] = FirstAfter
  /\ nudged[c] >= Interval

Waited(c) == nudged[c]

\* process_due_nudges: the longest-waiting first, up to the batch.
Nudges ==
  /\ job.at = "remind" /\ job.todo = {}
  /\ \E B \in SUBSET {c \in Customers : Wants(c)} :
       /\ Cardinality(B) <= Batch
       /\ \A c \in Customers \ B : Wants(c) =>
            Cardinality(B) = Batch /\ \A b \in B : Waited(b) >= Waited(c)
       /\ job' = [job EXCEPT !.at = "nudge", !.todo = B]
  /\ UNCHANGED <<rows, renewal, history, day, runs, ops>>

\* Noted whether Telegram took it or not.
Nudge(c, delivered) ==
  /\ job.at = "nudge" /\ c \in job.todo
  /\ job' = [job EXCEPT !.todo = @ \ {c}, !.nudged = @ \cup {c}]
  /\ silence' = IF delivered THEN [silence EXCEPT ![c] = 0] ELSE silence
  /\ repeated' = IF delivered /\ silence[c] < Interval THEN repeated \cup {c} ELSE repeated
  /\ UNCHANGED <<rows, renewal, sent, raced, missed, crashed, day, runs, ops>>

Commit ==
  /\ job.at = "nudge" /\ job.todo = {}
  /\ mark' = [c \in Customers |-> IF c \in job.marked THEN job.left[c] ELSE mark[c]]
  /\ nudged' = [c \in Customers |-> IF c \in job.nudged THEN 0 ELSE nudged[c]]
  /\ raced' = raced \cup {c \in job.marked : renewal[c].on}
  /\ job' = NoJob
  /\ UNCHANGED <<state, left, age, renewal, sent, silence, missed, repeated, crashed, day, runs, ops>>

\* The script dies, or the row of a reminded customer is gone (StaleDataError):
\* what it has noted is rolled back, what it has sent is not.
Crash ==
  /\ job.at # "idle"
  /\ job' = NoJob
  /\ crashed' = TRUE
  /\ UNCHANGED <<rows, renewal, sent, silence, raced, missed, repeated, day, runs, ops>>

-------------------------------------------------------------------------------
(* Beside it                                                               *)

RunLists(c) == job.at = "remind" /\ c \in job.todo

\* extend_subscription, extend_user_subscription: the row is loaded.
RenewStart(c) ==
  /\ ~ renewal[c].on /\ ops < MaxOps
  /\ ops' = ops + 1
  /\ renewal' = [renewal EXCEPT ![c] = [on |-> TRUE, left |-> left[c], mark |-> mark[c]]]
  /\ UNCHANGED <<rows, job, history, day, runs>>

KeptMark(c) == mark[c]

\* expiry_reminder_sent = None is written if something else was loaded.
ClearedMark(c) == IF renewal[c].mark # 0 THEN 0 ELSE mark[c]

\* The renewed row waits for the run's commit.  An admin's gift also notes a nudge.
\* MaxLeft stands for every number of days that is more than three.
RenewCommit(c, gift) ==
  /\ renewal[c].on /\ c \notin job.marked
  /\ gift => c \notin job.nudged
  /\ state' = [state EXCEPT ![c] = "active"] /\ left' = [left EXCEPT ![c] = MaxLeft]
  /\ mark' = [mark EXCEPT ![c] = ClearedMark(c)]
  /\ nudged' = IF gift THEN [nudged EXCEPT ![c] = 0] ELSE nudged
  /\ sent' = [sent EXCEPT ![c] = {}]
  /\ raced' = IF RunLists(c) \/ (c \in raced /\ mark'[c] # 0) THEN raced \cup {c} ELSE raced \ {c}
  /\ renewal' = [renewal EXCEPT ![c] = NoRenewal]
  /\ UNCHANGED <<age, job, silence, missed, repeated, crashed, day, runs, ops>>

\* deactivate_user_subscription
Deactivate(c) ==
  /\ state[c] = "active" /\ ~ renewal[c].on /\ c \notin job.marked /\ ops < MaxOps
  /\ ops' = ops + 1
  /\ state' = [state EXCEPT ![c] = "suspended"]
  /\ UNCHANGED <<left, mark, nudged, age, renewal, job, history, day, runs>>

\* delete_user_subscription
Delete(c) ==
  /\ state[c] # "none" /\ ~ renewal[c].on /\ c \notin job.marked /\ ops < MaxOps
  /\ ops' = ops + 1
  /\ state' = [state EXCEPT ![c] = "none"] /\ left' = [left EXCEPT ![c] = 0]
  /\ mark' = [mark EXCEPT ![c] = 0] /\ sent' = [sent EXCEPT ![c] = {}]
  /\ job' = IF RunLists(c) THEN [job EXCEPT !.gone = @ \cup {c}] ELSE job
  /\ UNCHANGED <<nudged, age, renewal, silence, raced, missed, repeated, crashed, day, runs>>

\* expires_at passes, at some time of its day.
Lapse(c) ==
  /\ state[c] # "none" /\ left[c] = 0
  /\ state' = [state EXCEPT ![c] = "none"]
  /\ UNCHANGED <<left, mark, nudged, age, renewal, job, history, day, runs, ops>>

\* No request lasts over midnight.
NewDay ==
  /\ day < MaxDays
  /\ job.at = "idle" /\ \A c \in Customers : ~ renewal[c].on /\ (state[c] # "none" => left[c] > 0)
  /\ day' = day + 1
  /\ left' = [c \in Customers |-> IF left[c] > 0 THEN left[c] - 1 ELSE 0]
  /\ nudged' = [c \in Customers |-> IF nudged[c] < Interval THEN nudged[c] + 1 ELSE nudged[c]]
  /\ age' = [c \in Customers |-> IF age[c] < FirstAfter THEN age[c] + 1 ELSE age[c]]
  /\ silence' = [c \in Customers |-> IF silence[c] < Interval THEN silence[c] + 1 ELSE silence[c]]
  /\ UNCHANGED <<state, mark, renewal, job, sent, raced, missed, repeated, crashed, runs, ops>>

Next ==
  \/ Start \/ Nudges \/ Commit \/ Crash \/ NewDay
  \/ \E c \in Customers :
       \/ Skip(c) \/ Remind(c) \/ RemindFails(c)
       \/ \E b \in BOOLEAN : Nudge(c, b) \/ RenewCommit(c, b)
       \/ RenewStart(c) \/ Deactivate(c) \/ Delete(c) \/ Lapse(c)

Spec == Init /\ [][Next]_vars

-------------------------------------------------------------------------------
(* Properties                                                              *)

\* A run passes over nobody who is due and has not been reminded in this period:
\* what was noted in the period before does not count, unless the renewal between
\* them overlapped a run.
EveryoneReminded == missed = {}

\* Nobody gets the same reminder twice, or a nudge before its time, unless a run
\* has died before its commit.
NotTwice == repeated # {} => crashed
===============================================================================
