-------------------------------- MODULE XraySync -------------------------------
(***************************************************************************)
(* How the credentials in the database reach an Xray server: a sync takes  *)
(* the list of entitled clients, reads the server's config file, and when  *)
(* its clients differ replaces the file and reloads Xray                   *)
(* (src/src/services/xray_sync.py, sync_xray_clients of services).         *)
(*                                                                         *)
(* Syncs run inside requests, before their transaction commits, and in     *)
(* cron; nothing keeps two of them apart.  One managed node is modelled:   *)
(* sync_all_active_clients serves the two nodes one after the other, and   *)
(* neither's result affects what it does with the other.                   *)
(***************************************************************************)
EXTENDS Naturals

\* Definitions named ...Skipped, ...Committed and the like are deliberate
\* mistakes: the mutants that show each property can fail.

CONSTANTS
  Clients,     \* credentials
  NoClient,
  Requests,    \* concurrent requests that change credentials
  Cron,        \* scripts/sync_xray_users.py (flock: one at a time)
  MaxOps,      \* bound: requests
  MaxLapses,   \* bound: subscriptions whose time runs out
  MaxFailures  \* bound: failed connections, reloads, commits; crashes

Sessions == Requests \cup {Cron}

ASSUME SyncAssumption ==
  /\ Cron \notin Requests
  /\ NoClient \notin Clients
  /\ MaxOps \in Nat /\ MaxLapses \in Nat /\ MaxFailures \in Nat

VARIABLES
  entitled,   \* committed: what get_all_for_active_subscriptions returns
  file,       \* managed clients in the server's config file
  running,    \* managed clients of the running Xray
  pc,
  draft,      \* per session: the client whose credentials it changes,
  gives,      \* and whether it grants or withdraws them
  list,       \* per session: clients it is to install
  seenFile,   \* per session: clients it read in the file
  started, lapses, failures

bounds == <<started, lapses, failures>>
vars == <<entitled, file, running, pc, draft, gives, list, seenFile, bounds>>

PC == {"idle", "work", "read", "merge", "write", "reload", "synced"}

TypeOK ==
  /\ entitled \in SUBSET Clients /\ file \in SUBSET Clients /\ running \in SUBSET Clients
  /\ pc \in [Sessions -> PC]
  /\ draft \in [Sessions -> Clients \cup {NoClient}]
  /\ gives \in [Sessions -> BOOLEAN]
  /\ list \in [Sessions -> SUBSET Clients] /\ seenFile \in [Sessions -> SUBSET Clients]
  /\ started \in 0 .. MaxOps /\ lapses \in 0 .. MaxLapses /\ failures \in 0 .. MaxFailures
  /\ \A s \in Sessions : draft[s] # NoClient =>
       pc[s] # "idle" /\ \A t \in Sessions \ {s} : draft[t] # draft[s]

Init ==
  /\ entitled \in SUBSET Clients
  /\ file = entitled /\ running = entitled
  /\ pc = [s \in Sessions |-> "idle"]
  /\ draft = [s \in Sessions |-> NoClient]
  /\ gives = [s \in Sessions |-> FALSE]
  /\ list = [s \in Sessions |-> {}] /\ seenFile = [s \in Sessions |-> {}]
  /\ started = 0 /\ lapses = 0 /\ failures = 0

Goto(s, at) == pc' = [pc EXCEPT ![s] = at]

-------------------------------------------------------------------------------
\* A request (purchase, trial, gift, deactivation, device added or deleted)
\* grants or withdraws c, whose row is locked till the end.
Begin(s, c) ==
  /\ s \in Requests /\ pc[s] = "idle"
  /\ started < MaxOps
  /\ \A t \in Sessions : draft[t] # c
  /\ started' = started + 1
  /\ draft' = [draft EXCEPT ![s] = c]
  /\ \E g \in BOOLEAN : gives' = [gives EXCEPT ![s] = g]
  /\ Goto(s, "work")
  /\ UNCHANGED <<entitled, file, running, list, seenFile, lapses, failures>>

CronBegin ==
  /\ pc[Cron] = "idle"
  /\ Goto(Cron, "work")
  /\ UNCHANGED <<entitled, file, running, draft, gives, list, seenFile, bounds>>

\* Expiry needs no transaction: the query compares expires_at with the clock.
Lapse(c) ==
  /\ c \in entitled
  /\ lapses < MaxLapses
  /\ lapses' = lapses + 1
  /\ entitled' = entitled \ {c}
  /\ UNCHANGED <<file, running, pc, draft, gives, list, seenFile, started, failures>>

\* The transaction's own view: what is committed, with its own change.
View(s) ==
  IF draft[s] = NoClient THEN entitled
  ELSE IF gives[s] THEN entitled \cup {draft[s]} ELSE entitled \ {draft[s]}

\* sync_xray_clients: the list is taken once, before the connection.
TakeList(s) ==
  /\ pc[s] = "work"
  /\ list' = [list EXCEPT ![s] = View(s)]
  /\ Goto(s, "read")
  /\ UNCHANGED <<entitled, file, running, draft, gives, seenFile, bounds>>

\* extend_subscription(sync_xray=False): "cron will pick the UUID up".
SkipSync(s) ==
  /\ pc[s] = "work" /\ s \in Requests
  /\ Goto(s, "synced")
  /\ UNCHANGED <<entitled, file, running, draft, gives, list, seenFile, bounds>>

ReadFile(s) ==
  /\ pc[s] = "read"
  /\ seenFile' = [seenFile EXCEPT ![s] = file]
  /\ Goto(s, "merge")
  /\ UNCHANGED <<entitled, file, running, draft, gives, list, bounds>>

UnchangedAlways(s) == TRUE

\* "if before == after: return True"
Unchanged(s) == list[s] = seenFile[s]

\* The list has no ORDER BY: the same clients in another order count as a change.
Merge(s) ==
  /\ pc[s] = "merge"
  /\ \/ Unchanged(s) /\ Goto(s, "synced")
     \/ Goto(s, "write")
  /\ UNCHANGED <<entitled, file, running, draft, gives, list, seenFile, bounds>>

WriteAndReloadSkipped(s) == file' = list[s] /\ Goto(s, "synced")
WriteAndReload(s) == file' = list[s] /\ Goto(s, "reload")

\* mv of the finished temporary file: the file is replaced as a whole.
WriteFile(s) ==
  /\ pc[s] = "write"
  /\ WriteAndReload(s)
  /\ UNCHANGED <<entitled, running, draft, gives, list, seenFile, bounds>>

\* Xray loads whatever the file holds by then.
Reload(s) ==
  /\ pc[s] = "reload"
  /\ running' = file
  /\ Goto(s, "synced")
  /\ UNCHANGED <<entitled, file, draft, gives, list, seenFile, bounds>>

EndSession(s) ==
  /\ Goto(s, "idle")
  /\ draft' = [draft EXCEPT ![s] = NoClient] /\ gives' = [gives EXCEPT ![s] = FALSE]
  /\ list' = [list EXCEPT ![s] = {}] /\ seenFile' = [seenFile EXCEPT ![s] = {}]

\* What a sync returned is logged, never acted upon.
Commit(s) ==
  /\ pc[s] = "synced"
  /\ entitled' = View(s)
  /\ EndSession(s)
  /\ UNCHANGED <<file, running, bounds>>

Fails == failures < MaxFailures /\ failures' = failures + 1

\* No connection, no config, "Failed to install Xray config", "Xray reload
\* failed": all end the sync and nothing else ("non-fatal").
SyncFails(s) ==
  /\ pc[s] \in {"read", "write", "reload"}
  /\ Fails
  /\ Goto(s, "synced")
  /\ UNCHANGED <<entitled, file, running, draft, gives, list, seenFile, started, lapses>>

\* Crash, restart, failed commit.
Rollback(s) ==
  /\ pc[s] # "idle"
  /\ Fails
  /\ EndSession(s)
  /\ UNCHANGED <<entitled, file, running, started, lapses>>

Step(s) ==
  \/ TakeList(s) \/ ReadFile(s) \/ Merge(s) \/ WriteFile(s) \/ Reload(s) \/ Commit(s)

Next ==
  \/ CronBegin
  \/ \E c \in Clients : Lapse(c) \/ \E s \in Sessions : Begin(s, c)
  \/ \E s \in Sessions : Step(s) \/ SkipSync(s) \/ SyncFails(s) \/ Rollback(s)

Spec == Init /\ [][Next]_vars

\* Cron starts every five minutes and a started sync goes on.
FairSpec == Spec /\ WF_vars(CronBegin) /\ \A s \in Sessions : WF_vars(Step(s))

-------------------------------------------------------------------------------
(* Properties                                                              *)

\* As long as no sync fails half-way, a file Xray has not loaded has a
\* session that is about to reload it, whichever syncs overlap: so a sync that
\* finds the file as it wants it may leave Xray alone.
FileGetsLoaded ==
  failures = 0 /\ running # file => \E s \in Sessions : pc[s] = "reload"

\* Lists are taken before commits, syncs overtake one another, bot purchases do
\* not sync at all and expiry tells nobody: when the changes stop, the server
\* comes to serve the entitled clients and no one else all the same
\* (README.md:248: after expiry the UUIDs are taken off).
Converges == <>[](running = entitled)

\* The same, as long as no sync, request or process fails: one failure between
\* the file and the reload is enough to lose it.
ConvergesUnlessFailed == [](failures = 0) => Converges
===============================================================================
