------------------------------ MODULE ImportedSubs ------------------------------
(***************************************************************************)
(* One imported subscription (src/src/services/imported_subs.py): a list   *)
(* of VPN nodes on somebody else's server.  A refresh fetches the list,    *)
(* probes each node, and writes what has come, gone, answered or failed;   *)
(* cron refreshes every source in one transaction, an admin one of them    *)
(* at any time.  The feed adds the nodes that are alive to every           *)
(* customer's links.                                                       *)
(*                                                                         *)
(* A row is "alive" with fail_count 0 or "dead" with fail_count 1: the     *)
(* second failure in a row deletes it.                                     *)
(***************************************************************************)
EXTENDS Naturals, FiniteSets

CONSTANTS
  Nodes,      \* fingerprints of nodes, finitely many
  Refreshes   \* concurrent transactions

VARIABLES
  rows,      \* committed imported_configs: "none", "alive", "dead"
  active,    \* is_active of the source
  exists,    \* the source's row exists
  refresh,   \* per transaction
  answered,  \* history: the nodes that answered the refresh that committed last
  alone      \* history: no other refresh overlapped it

vars == <<rows, active, exists, refresh, answered, alone>>

NoRows == [n \in Nodes |-> "none"]
Idle == [at |-> "idle", list |-> {}, up |-> {}, loaded |-> NoRows, alone |-> TRUE]

TypeOK ==
  /\ rows \in [Nodes -> {"none", "alive", "dead"}]
  /\ active \in BOOLEAN /\ exists \in BOOLEAN /\ answered \in SUBSET Nodes /\ alone \in BOOLEAN
  /\ \A r \in Refreshes : refresh[r].up \subseteq refresh[r].list
  /\ \A r \in Refreshes : refresh[r].at = "idle" => refresh[r] = Idle

Init ==
  /\ rows = NoRows /\ active = TRUE /\ exists = TRUE
  /\ refresh = [r \in Refreshes |-> Idle] /\ answered = {} /\ alone = TRUE

-------------------------------------------------------------------------------
Running(r) == refresh[r].at # "idle"

\* The cron job, or an admin's button: every refresh ends with an UPDATE of the
\* source, which one that has flushed holds until it commits.
Free(r) == \A q \in Refreshes \ {r} : refresh[q].at # "flushed"

Goto(r, at, state) ==
  /\ refresh[r].at = at
  /\ refresh' = [refresh EXCEPT ![r] = state]

Begin(r) ==
  /\ refresh[r].at = "idle" /\ exists
  /\ refresh' = [q \in Refreshes |->
       IF q = r THEN [Idle EXCEPT !.at = "fetch", !.alone = \A p \in Refreshes \ {r} : ~ Running(p)]
       ELSE [refresh[q] EXCEPT !.alone = @ /\ ~ Running(q)]]
  /\ UNCHANGED <<rows, active, exists, answered, alone>>

\* fetch_subscription and parse_subscription_body: some list, or an error, which
\* leaves the rows as they are.
Fetch(r) ==
  /\ \E L \in (SUBSET Nodes) \ {{}} :
       Goto(r, "fetch", [refresh[r] EXCEPT !.at = "probe", !.list = L])
  /\ UNCHANGED <<rows, active, exists, answered, alone>>

FetchFails(r) ==
  /\ Goto(r, "fetch", Idle)
  /\ UNCHANGED <<rows, active, exists, answered, alone>>

\* probe_nodes
Probe(r) ==
  /\ \E A \in SUBSET refresh[r].list :
       Goto(r, "probe", [refresh[r] EXCEPT !.at = "select", !.up = A])
  /\ UNCHANGED <<rows, active, exists, answered, alone>>

\* The SELECT of the source's rows
Select(r) ==
  /\ Goto(r, "select", [refresh[r] EXCEPT !.at = "flush", !.loaded = rows])
  /\ UNCHANGED <<rows, active, exists, answered, alone>>

OnlyListed(s, n) == n \in s.list /\ s.loaded[n] # "none"

\* The rows a refresh updates or deletes, and those it inserts.
Touches(s, n) == s.loaded[n] # "none"
Inserts(s, n) == n \in s.list /\ s.loaded[n] = "none"

\* uq_imported_config_fp, the foreign key, and StaleDataError
Collides(r) ==
  LET s == refresh[r]
  IN \/ ~ exists
     \/ \E n \in Nodes : Inserts(s, n) /\ rows[n] # "none"
     \/ \E n \in s.list : s.loaded[n] # "none" /\ rows[n] = "none"
                          /\ (n \in s.up \/ s.loaded[n] = "alive")

Flush(r) ==
  /\ Free(r) /\ ~ Collides(r)
  /\ Goto(r, "flush", [refresh[r] EXCEPT !.at = "flushed"])
  /\ UNCHANGED <<rows, active, exists, answered, alone>>

\* The transaction is lost, with the other sources' refreshes in cron.
Fail(r) ==
  /\ Running(r)
  /\ refresh' = [refresh EXCEPT ![r] = Idle]
  /\ UNCHANGED <<rows, active, exists, answered, alone>>

\* What a node becomes that was loaded as w: the second failure deletes it.
Checked(s, n, w) ==
  CASE n \in s.up -> "alive"
    [] n \in s.list \ s.up /\ w = "dead" -> "none"
    [] n \in s.list \ s.up /\ w # "dead" -> "dead"
    [] OTHER -> "none"

\* A column is written if it differs from what was loaded.
Commit(r) ==
  LET s == refresh[r]
      value(n) == Checked(s, n, s.loaded[n])
  IN /\ Goto(r, "flushed", Idle)
     /\ rows' = [n \in Nodes |->
          IF (Touches(s, n) \/ Inserts(s, n)) /\ value(n) # s.loaded[n] THEN value(n) ELSE rows[n]]
     /\ answered' = s.up /\ alone' = s.alone
     /\ UNCHANGED <<active, exists>>

\* imported_subs_toggle
Toggle ==
  /\ exists /\ \A r \in Refreshes : refresh[r].at # "flushed"
  /\ active' = ~ active
  /\ UNCHANGED <<rows, exists, refresh, answered, alone>>

\* imported_subs_delete, with the rows
Delete ==
  /\ exists /\ \A r \in Refreshes : refresh[r].at # "flushed"
  /\ exists' = FALSE /\ rows' = NoRows /\ answered' = {}
  /\ UNCHANGED <<active, refresh, alone>>

Next ==
  \/ \E r \in Refreshes :
       \/ Begin(r) \/ Fetch(r) \/ FetchFails(r) \/ Probe(r) \/ Select(r)
       \/ Flush(r) \/ Fail(r) \/ Commit(r)
  \/ Toggle \/ Delete

Spec == Init /\ [][Next]_vars

-------------------------------------------------------------------------------
(* Properties                                                              *)

\* list_alive_uris
Shown == IF active THEN {n \in Nodes : rows[n] = "alive"} ELSE {}

\* After a refresh the feed has exactly the nodes that answered it, however the
\* refreshes before it came and failed, unless another refresh overlapped it.
ShownAnswered == alone => Shown = IF active THEN answered ELSE {}
===============================================================================
