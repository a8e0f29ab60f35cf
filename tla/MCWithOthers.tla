------------------------------ MODULE MCWithOthers -----------------------------
(***************************************************************************)
(* Instances of PaymentOrders and, in the same run, of the parts that      *)
(* share no state with it: attribution, the administrator's dialogues, the *)
(* catalogue and the reminders.  A behaviour is a behaviour of one of      *)
(* them; the variables of the others keep their initial values.            *)
(***************************************************************************)
EXTENDS MCPaymentOrders

CONSTANTS
  p1, p2,
  People, Links, Legacy, NoOne, Transactions, MaxAttributions,
  Customers, Everybody, Nothing, Handlers, MaxUpdates,
  NewNames, MaxRow, MaxEdits,
  Subscribed, Banned, MaxLeft, FirstAfter, Interval, Batch, MaxDays, MaxRuns, MaxRenewals

VARIABLES
  part,
  users, links, attributing, first, clicks, unseen, overlapped, migrated, attributions,
  state, data, handler, admin, updates, promised, outbox, mixed,
  rows, lastRow, editing, spoiled, untouched, edits,
  holding, left, mark, nudged, age, renewal, job, sent, silence, raced, missed,
  repeated, crashed, day, runs, renewals

attribution ==
  <<users, links, attributing, first, clicks, unseen, overlapped, migrated, attributions>>
dialogues == <<state, data, handler, admin, updates, promised, outbox, mixed>>
catalogue == <<rows, lastRow, editing, spoiled, untouched, edits>>
reminders ==
  <<holding, left, mark, nudged, age, renewal, job, sent, silence, raced, missed,
    repeated, crashed, day, runs, renewals>>

\* The old database knows that p1 came through p2.
MCLegacy == {<<p1, p2>>}

A == INSTANCE Attribution
       WITH Sessions <- Transactions,
            MaxOps <- MaxAttributions, session <- attributing, ops <- attributions
D == INSTANCE Dialogues
K == INSTANCE Catalogue
       WITH Sessions <- Transactions, MaxOps <- MaxEdits, session <- editing, ops <- edits
M == INSTANCE Reminders
       WITH Customers <- People, MaxOps <- MaxRenewals, state <- holding, ops <- renewals

ASSUME OthersAssumption ==
  /\ A!AttributionAssumption /\ D!DialoguesAssumption
  /\ K!CatalogueAssumption /\ M!RemindersAssumption

OthersInit ==
  /\ Init /\ A!Init /\ D!Init /\ K!Init /\ M!Init
  /\ part \in {"payments", "attribution", "dialogues", "catalogue", "reminders"}
  /\ part # "payments" => blocked = {}
  /\ part # "catalogue" => rows[1].name = "main"

OthersNext ==
  \/ /\ part = "payments" /\ Next
     /\ UNCHANGED <<part, attribution, dialogues, catalogue, reminders>>
  \/ /\ part = "attribution" /\ A!Next
     /\ UNCHANGED <<part, vars, dialogues, catalogue, reminders>>
  \/ /\ part = "dialogues" /\ D!Next
     /\ UNCHANGED <<part, vars, attribution, catalogue, reminders>>
  \/ /\ part = "catalogue" /\ K!Next
     /\ UNCHANGED <<part, vars, attribution, dialogues, reminders>>
  \/ /\ part = "reminders" /\ M!Next
     /\ UNCHANGED <<part, vars, attribution, dialogues, catalogue>>

OthersSpec ==
  OthersInit /\ [][OthersNext]_<<part, vars, attribution, dialogues, catalogue, reminders>>

\* The types of the other parts; TypeOK is that of PaymentOrders.
OthersTypeOK ==
  CASE part = "payments" -> TRUE
    [] part = "attribution" -> A!TypeOK
    [] part = "dialogues" -> D!TypeOK
    [] part = "catalogue" -> K!TypeOK
    [] part = "reminders" -> M!TypeOK

\* Attribution: what brought a customer stays with the row, nobody becomes their
\* own referrer, and no click on a partner's link that was redirected is lost
\* unless two came at once.
AttributionKept == part = "attribution" => A!AttributionKept /\ A!ClicksCounted

\* Dialogues: the button of any preview sends what the administrator was shown to
\* the recipient who was named there, and sends it once.
SentAsShown == part = "dialogues" => D!SentAsShown /\ D!SentOnce

\* Reminders: a run of the script passes over nobody who is due and has had no
\* reminder in this period, unless the renewal before it overlapped a run; and
\* nobody gets one twice or a nudge too early, unless a run died before its commit.
RemindedOnce == part = "reminders" => M!EveryoneReminded /\ M!NotTwice

\* Catalogue: there is one default configuration to fall back on unless a seed or
\* overlapping edits came since it was chosen, and what the seed leaves serves.
OneDefault == part = "catalogue" => K!OneDefault /\ K!SeedServes
===============================================================================
