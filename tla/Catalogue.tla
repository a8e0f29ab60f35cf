-------------------------------- MODULE Catalogue --------------------------------
(***************************************************************************)
(* The configurations that the feed gives out (src/src/services/           *)
(* vpn_config_store.py, vpn_servers_sync.py): an admin creates, changes    *)
(* and deletes them in the panel, one of them the default profile, and the *)
(* seed that every deployment runs brings the system configurations in     *)
(* line with the source: the default one and Finland's here, and not the   *)
(* third, which is treated as Finland's.  All are of one type; a default   *)
(* is one of its type.  Servers are only written by the seed: the panel's  *)
(* forms for them redirect.                                                *)
(*                                                                         *)
(* A transaction loads rows, selects again, and writes the columns it has  *)
(* changed; the second SELECT flushes, and so locks, what is changed by    *)
(* then (READ COMMITTED, identity map not refreshed).                      *)
(***************************************************************************)
EXTENDS Naturals, FiniteSets, FiniteSetsExt

CONSTANTS
  NewNames,   \* the names an admin gives, of those in Names
  MaxRow,     \* bound: vpn_configs.id
  Sessions,   \* concurrent transactions
  MaxOps      \* bound: transactions

VARIABLES
  rows,       \* committed: the rows of vpn_configs by id, NoRow for none
  lastRow,    \* the id given out last
  session,    \* per transaction
  spoiled,    \* history: a seed, or edits that overlapped, since one default was last chosen
  untouched,  \* history: a seed was the last to write
  ops

vars == <<rows, lastRow, session, spoiled, untouched, ops>>

Ids == 1 .. MaxRow

\* The names the seed knows: its own two, older names of them, and names it
\* retires, one of which is an older name as well.  "own" is any other.
Aliases(name) == IF name = "main" THEN {"old main", "retired"} ELSE {"old finland"}
Names == {"main", "old main", "finland", "old finland", "retired", "own"}

\* The database has room for the two rows it starts with.
CatalogueAssumption == NewNames \subseteq Names /\ MaxRow \in Nat /\ MaxRow >= 2

NoRow == [server |-> "none", name |-> "own", active |-> FALSE, default |-> FALSE]
Row(server, name, active, default) ==
  [server |-> server, name |-> name, active |-> active, default |-> default]

Idle == [kind |-> "none", at |-> "idle", row |-> 0, want |-> NoRow,
         seen |-> {}, loaded |-> [i \in Ids |-> NoRow], touched |-> FALSE, alone |-> TRUE]

Existing == {i \in Ids : rows[i] # NoRow}
Defaults == {i \in Existing : rows[i].default}

TypeOK ==
  /\ \A i \in Ids : rows[i] # NoRow => rows[i].server \in {"entry", "panel"} /\ rows[i].name \in Names
  /\ lastRow \in 0 .. MaxRow /\ \A i \in Existing : i <= lastRow
  /\ \A s \in Sessions : session[s].at = "idle" => session[s] = Idle

\* A database that was seeded, and one of an older version.
Init ==
  /\ \/ rows = [i \in Ids |-> CASE i = 1 -> Row("entry", "main", TRUE, TRUE)
                               [] i = 2 -> Row("panel", "finland", TRUE, FALSE) [] OTHER -> NoRow]
     \/ rows = [i \in Ids |-> CASE i = 1 -> Row("entry", "retired", TRUE, TRUE)
                               [] i = 2 -> Row("entry", "old main", TRUE, FALSE) [] OTHER -> NoRow]
  /\ lastRow = 2
  /\ session = [s \in Sessions |-> Idle]
  /\ spoiled = FALSE /\ untouched = FALSE /\ ops = 0

-------------------------------------------------------------------------------
(* What a transaction has loaded, and what it makes of it                  *)

\* The rows read at once, next to those the identity map has already.
Read(s, ids) ==
  [session[s] EXCEPT
     !.seen = @ \cup ids,
     !.loaded = [i \in Ids |-> IF i \in ids \ session[s].seen THEN rows[i] ELSE session[s].loaded[i]]]

\* Mutant: _clear_default that forgets to write
ClearedNone(loaded, but) == loaded

\* _clear_default
Cleared(loaded, but) == [i \in Ids |-> IF i = but THEN loaded[i] ELSE [loaded[i] EXCEPT !.default = FALSE]]

\* update_config: the form always carries every field
Updated(r) ==
  LET others == IF r.want.default THEN Cleared(r.loaded, r.row) ELSE r.loaded
  IN [others EXCEPT ![r.row] = [r.want EXCEPT !.server = r.loaded[r.row].server]]

\* _upsert_happ_config: the newest row of that name, else of an older name
Upsert(loaded, server, name, default) ==
  LET named == {i \in Ids : loaded[i].server = server /\ loaded[i].name = name}
      aliased == {i \in Ids : loaded[i].server = server /\ loaded[i].name \in Aliases(name)}
      found == IF named # {} THEN named ELSE aliased
  IN IF found = {} THEN loaded
     ELSE [loaded EXCEPT ![Max(found)] = Row(server, name, TRUE, default)]

\* Mutant: the system's own name is retired
RetiredMain(loaded) ==
  [i \in Ids |-> IF loaded[i].name \in {"main", "retired"}
                   THEN [loaded[i] EXCEPT !.active = FALSE, !.default = FALSE] ELSE loaded[i]]

Retired(loaded) ==
  [i \in Ids |-> IF loaded[i].name = "retired"
                   THEN [loaded[i] EXCEPT !.active = FALSE, !.default = FALSE] ELSE loaded[i]]

Upserted(loaded) == Upsert(Upsert(loaded, "entry", "main", TRUE), "panel", "finland", FALSE)

\* The two system configurations, as new rows where there is none to take over
Missing(loaded) ==
  {Row(n[1], n[2], TRUE, n[3]) : n \in {m \in {<<"entry", "main", TRUE>>, <<"panel", "finland", FALSE>>} :
     ~ \E i \in Ids : loaded[i].server = m[1] /\ loaded[i].name \in {m[2]} \cup Aliases(m[2])}}

Goal(r) ==
  CASE r.kind = "update" -> Updated(r)
    [] r.kind = "create" -> IF r.want.default THEN Cleared(r.loaded, 0) ELSE r.loaded
    [] r.kind = "seed" -> Retired(Upserted(r.loaded))
    [] r.kind = "delete" -> [r.loaded EXCEPT ![r.row] = NoRow]
    [] r.kind = "refused" -> [r.loaded EXCEPT ![r.row].name = r.want.name]

Changed(r) == {i \in r.seen : Goal(r)[i] # r.loaded[i]}

\* Flushed by the second SELECT: the row whose name or template changes, and the
\* rows that the seed takes over
Flushed(r) ==
  IF r.at # "selected" THEN {}
  ELSE IF r.kind = "seed" THEN {i \in r.seen : Upserted(r.loaded)[i] # r.loaded[i]}
  ELSE IF r.touched THEN {r.row} ELSE {}

Free(s, ids) == \A t \in Sessions \ {s} : Flushed(session[t]) \cap ids = {}

-------------------------------------------------------------------------------
(* Transactions                                                            *)

Begin(s, r) ==
  /\ session[s] = Idle /\ ops < MaxOps
  /\ ops' = ops + 1
  /\ session' = [t \in Sessions |->
       IF t = s THEN [r EXCEPT !.at = "loaded", !.alone = \A u \in Sessions \ {s} : session[u] = Idle]
       ELSE IF session[t] = Idle THEN Idle ELSE [session[t] EXCEPT !.alone = FALSE]]
  /\ UNCHANGED <<rows, lastRow, spoiled, untouched>>

\* get_by_id; a new name stands for a new template as well.  A template that is
\* refused leaves the new name in the session, which commits it.
Edit(s, kind, i) ==
  /\ i \in Existing
  /\ \E name \in NewNames \cup {rows[i].name}, active, default \in BOOLEAN :
       /\ kind = "delete" => name = rows[i].name
       /\ kind # "update" => ~ active /\ ~ default
       /\ Begin(s, [Read(s, {i}) EXCEPT !.kind = kind, !.row = i, !.touched = name # rows[i].name,
                                        !.want = Row("none", name, active, default)])

\* The panel's new configurations are on the panel's server.
Create(s) ==
  /\ lastRow < MaxRow
  /\ \E name \in NewNames, default \in BOOLEAN :
       Begin(s, [Idle EXCEPT !.kind = "create", !.want = Row("panel", name, TRUE, default)])

Seed(s) ==
  Begin(s, [Read(s, {i \in Existing : \E n \in {<<"entry", "main">>, <<"panel", "finland">>} :
                       rows[i].server = n[1] /\ rows[i].name \in {n[2]} \cup Aliases(n[2])})
              EXCEPT !.kind = "seed"])

\* _clear_default's SELECT, or the seed's of every row; nothing for the others.
\* The flush before it waits for the rows it writes.
Select(s) ==
  LET r == session[s]
      ids == IF r.kind = "seed" THEN Existing
             ELSE IF r.want.default THEN Defaults ELSE {}
      next == [Read(s, ids) EXCEPT !.at = "selected"]
  IN /\ r.at = "loaded"
     /\ Free(s, Flushed([r EXCEPT !.at = "selected"]))
     /\ session' = [session EXCEPT ![s] = next]
     /\ UNCHANGED <<rows, lastRow, spoiled, untouched, ops>>

New(r) == IF r.kind = "create" THEN {r.want} ELSE IF r.kind = "seed" THEN Missing(r.loaded) ELSE {}

\* The columns that changed, written over what is committed by now
Column(old, new, now) == IF new # old THEN new ELSE now
Written(r, i) ==
  LET old == r.loaded[i]
      new == Goal(r)[i]
      now == rows[i]
  IN IF i \notin Changed(r) \/ now = NoRow THEN now
     ELSE IF new = NoRow THEN NoRow
     ELSE Row(now.server, Column(old.name, new.name, now.name),
              Column(old.active, new.active, now.active), Column(old.default, new.default, now.default))

Commit(s) ==
  LET r == session[s]
      new == New(r)
      first == IF Cardinality(new) = 2 THEN CHOOSE q \in new : q.name = "main" ELSE CHOOSE q \in new : TRUE
      second == CHOOSE q \in new : q # first
  IN /\ r.at = "selected"
     /\ Free(s, Changed(r))
     /\ r.kind # "delete" => \A i \in Changed(r) : rows[i] # NoRow
     /\ lastRow + Cardinality(new) <= MaxRow
     /\ rows' = [i \in Ids |->
          IF i = lastRow + 1 /\ new # {} THEN first
          ELSE IF i = lastRow + 2 /\ Cardinality(new) = 2 THEN second
          ELSE Written(r, i)]
     /\ lastRow' = lastRow + Cardinality(new)
     /\ session' = [session EXCEPT ![s] = Idle]
     /\ spoiled' = IF r.kind = "seed" \/ ~ r.alone THEN TRUE
                   ELSE IF r.kind \in {"create", "update"} /\ r.want.default THEN FALSE ELSE spoiled
     /\ untouched' = (r.kind = "seed" /\ r.alone)
     /\ UNCHANGED ops

\* A row to be changed is gone (StaleDataError), a deadlock, or any other error:
\* the transaction is rolled back.
Fail(s) ==
  /\ session[s] # Idle
  /\ session' = [session EXCEPT ![s] = Idle]
  /\ UNCHANGED <<rows, lastRow, spoiled, untouched, ops>>

Next ==
  \E s \in Sessions :
    \/ \E i \in Ids, kind \in {"update", "refused", "delete"} : Edit(s, kind, i)
    \/ Create(s) \/ Seed(s) \/ Select(s) \/ Commit(s) \/ Fail(s)

Spec == Init /\ [][Next]_vars

-------------------------------------------------------------------------------
(* Properties                                                              *)

\* There is at most one default profile, unless a seed, which makes its own the
\* default beside the admin's, or edits that overlapped, have left two; an edit
\* that chooses a default mends it.
OneDefault == spoiled \/ Cardinality(Defaults) <= 1

\* What a seed leaves behind is a main profile that is served and a default,
\* whatever the admin or an older version had made of the rows.
SeedServes ==
  untouched => \E i \in Existing : rows[i].server = "entry" /\ rows[i].name = "main"
                                   /\ rows[i].active /\ rows[i].default
===============================================================================
