------------------------------ MODULE Attribution ------------------------------
(***************************************************************************)
(* Who brought a customer (src/src/bot/handlers/start.py,                  *)
(* src/src/services/partners.py, src/src/api/routes/partner.py,            *)
(* src/scripts/migrate_referrals.py).  The first /start of a customer      *)
(* creates the row, with the referrer or the partner link that the message *)
(* names; later ones change nothing of it.  A partner's short link counts  *)
(* its clicks and leads to the bot.  An admin switches partner links off   *)
(* and deletes those without registrations; a script fills in referrers    *)
(* from the old database.                                                  *)
(*                                                                         *)
(* Each operation is one READ COMMITTED transaction.  Referral codes and   *)
(* telegram ids stand for their owners.                                    *)
(***************************************************************************)
EXTENDS Naturals

CONSTANTS
  People,      \* telegram ids, finitely many
  Links,       \* partner_links.id, finitely many
  Legacy,      \* the old database: for some people, who referred them
  NoOne,
  Sessions,    \* concurrent transactions
  MaxOps       \* bound: operations started

AttributionAssumption ==
  /\ NoOne \notin People \cup Links /\ Legacy \subseteq People \X People
  /\ MaxOps \in Nat

VARIABLES
  users,       \* committed: the rows of users, NoUser for none
  links,       \* committed: the rows of partner_links
  session,     \* per transaction: its operation, step, and what it has read
  first,       \* history: the attribution a row was created with
  clicks,      \* history: clicks that were redirected to the bot
  unseen,      \* history: people registered while their link was being deleted
  overlapped,  \* history: links clicked twice at once
  migrated,    \* history: the script has run
  ops

history == <<first, clicks, unseen, overlapped, migrated>>
vars == <<users, links, session, history, ops>>

NoUser == [known |-> FALSE, referrer |-> NoOne, partner |-> NoOne]
NewLink == [exists |-> TRUE, active |-> TRUE, count |-> 0]
Idle == [kind |-> "none", at |-> "idle", who |-> NoOne, token |-> NoOne, link |-> NoOne,
         row |-> NoUser, seen |-> NewLink, known |-> {}]

TypeOK ==
  /\ \A u \in People :
       /\ users[u].referrer \in People \cup {NoOne} /\ users[u].partner \in Links \cup {NoOne}
       /\ ~ users[u].known => users[u] = NoUser
  /\ \A l \in Links : links[l].count \in 0 .. MaxOps
  /\ \A s \in Sessions : session[s].at = "idle" => session[s] = Idle
  /\ unseen \subseteq People /\ overlapped \subseteq Links

Init ==
  /\ users = [u \in People |-> NoUser]
  /\ links = [l \in Links |-> NewLink]
  /\ session = [s \in Sessions |-> Idle]
  /\ first = [u \in People |-> NoUser] /\ clicks = [l \in Links |-> 0]
  /\ unseen = {} /\ overlapped = {} /\ migrated = FALSE /\ ops = 0

-------------------------------------------------------------------------------
At(s, kind, at) == session[s].kind = kind /\ session[s].at = at
Others(s) == Sessions \ {s}

Begin(s, kind, r) ==
  /\ session[s] = Idle /\ ops < MaxOps
  /\ ops' = ops + 1
  /\ session' = [session EXCEPT ![s] = [r EXCEPT !.kind = kind]]

Goto(s, r) == session' = [session EXCEPT ![s] = r] /\ ops' = ops
EndKeepingRow(s) == Goto(s, [session[s] EXCEPT !.at = "idle"])
End(s) == Goto(s, Idle)

\* The partner row is free: FOR KEY SHARE of a pending registration, and the
\* row locks of a pending click, switch or deletion.
Registering(l) == {s \in Sessions : At(s, "start", "inserted") /\ session[s].row.partner = l}
Writing(l) == {s \in Sessions : session[s].at = "written" /\ session[s].link = l}

-------------------------------------------------------------------------------
(* /start                                                                  *)

\* get_by_telegram_id: a customer we know gets the menu.
StartKnown(s, u) ==
  /\ users[u].known
  /\ Begin(s, "start", [Idle EXCEPT !.who = u, !.at = "done"])
  /\ UNCHANGED <<users, links, history>>

\* ref_<code> names a customer, p_<code> a partner link, anything else nobody.
StartNew(s, u, token) ==
  /\ ~ users[u].known
  /\ Begin(s, "start", [Idle EXCEPT !.who = u, !.token = token, !.at = "resolve"])
  /\ UNCHANGED <<users, links, history>>

\* resolve_referrer, and get_by_code(active_only)
Referrer(u, token) ==
  IF token \in People /\ token # u /\ users[token].known THEN token ELSE NoOne
Partner(token) ==
  IF token \in Links /\ links[token].exists /\ links[token].active THEN token ELSE NoOne

Resolve(s) ==
  LET r == session[s]
  IN /\ At(s, "start", "resolve")
     /\ Goto(s, [r EXCEPT !.at = "insert",
                   !.row = [known |-> TRUE, referrer |-> Referrer(r.who, r.token),
                            partner |-> Partner(r.token)]])
     /\ UNCHANGED <<users, links, history>>

\* The flush waits for another row of this customer and for a deletion of the link.
Insert(s) ==
  LET r == session[s]
  IN /\ At(s, "start", "insert")
     /\ ~ \E t \in Others(s) : At(t, "start", "inserted") /\ session[t].who = r.who
     /\ ~ \E t \in Others(s) : At(t, "delete", "written") /\ session[t].link = r.row.partner
     /\ ~ users[r.who].known
     /\ r.row.partner \in Links => links[r.row.partner].exists
     /\ Goto(s, [r EXCEPT !.at = "inserted"])
     /\ UNCHANGED <<users, links, history>>

\* users.telegram_id is unique, and the link must exist: the whole /start fails.
InsertFails(s) ==
  LET r == session[s]
  IN /\ At(s, "start", "insert")
     /\ users[r.who].known \/ (r.row.partner \in Links /\ ~ links[r.row.partner].exists)
     /\ End(s)
     /\ UNCHANGED <<users, links, history>>

Register(s) ==
  LET r == session[s]
  IN /\ At(s, "start", "inserted")
     /\ users' = [users EXCEPT ![r.who] = r.row]
     /\ first' = [first EXCEPT ![r.who] = r.row]
     /\ unseen' = IF \E t \in Sessions : At(t, "delete", "counted") /\ session[t].link = r.row.partner
                    THEN unseen \cup {r.who} ELSE unseen
     /\ End(s)
     /\ UNCHANGED <<links, clicks, overlapped, migrated>>

Greet(s) ==
  /\ session[s].at = "done"
  /\ End(s)
  /\ UNCHANGED <<users, links, history>>

-------------------------------------------------------------------------------
(* Partner links                                                           *)

\* record_click, toggle_active and delete_link load the row first.
LoadLink(s, kind, l) ==
  /\ links[l].exists /\ (kind = "click" => links[l].active)
  /\ Begin(s, kind, [Idle EXCEPT !.link = l, !.seen = links[l],
                       !.at = IF kind = "delete" THEN "count" ELSE "write"])
  /\ overlapped' = IF kind = "click" /\ \E t \in Sessions : session[t].kind = "click" /\ session[t].link = l
                     THEN overlapped \cup {l} ELSE overlapped
  /\ UNCHANGED <<users, links, first, clicks, unseen, migrated>>

\* Mutant: a deletion that counts no registrations
CountNobody(s) ==
  /\ At(s, "delete", "count")
  /\ Goto(s, [session[s] EXCEPT !.at = "counted"])
  /\ UNCHANGED <<users, links, history>>

\* A link with registrations is not deleted.
Count(s) ==
  LET l == session[s].link
      registrations == {u \in People : users[u].partner = l}
  IN /\ At(s, "delete", "count")
     /\ IF registrations = {} THEN Goto(s, [session[s] EXCEPT !.at = "counted"]) ELSE End(s)
     /\ UNCHANGED <<users, links, history>>

Ready(s) == session[s].at \in {"write", "counted"}

\* The flush: an UPDATE, or a DELETE, which also waits for registrations.
Write(s) ==
  LET l == session[s].link
  IN /\ Ready(s) /\ links[l].exists
     /\ Writing(l) = {}
     /\ session[s].kind = "delete" => Registering(l) = {}
     /\ Goto(s, [session[s] EXCEPT !.at = "written"])
     /\ UNCHANGED <<users, links, history>>

\* The row is gone: StaleDataError for an UPDATE, a warning for a DELETE.
WriteFails(s) ==
  /\ Ready(s) /\ ~ links[session[s].link].exists
  /\ End(s)
  /\ UNCHANGED <<users, links, history>>

Click(s) ==
  LET l == session[s].link
  IN /\ At(s, "click", "written")
     /\ links' = [links EXCEPT ![l].count = session[s].seen.count + 1]
     /\ clicks' = [clicks EXCEPT ![l] = @ + 1]
     /\ End(s)
     /\ UNCHANGED <<users, first, unseen, overlapped, migrated>>

Toggle(s) ==
  /\ At(s, "toggle", "written")
  /\ links' = [links EXCEPT ![session[s].link].active = ~ session[s].seen.active]
  /\ End(s)
  /\ UNCHANGED <<users, history>>

\* ON DELETE SET NULL
Delete(s) ==
  LET l == session[s].link
  IN /\ At(s, "delete", "written")
     /\ links' = [links EXCEPT ![l].exists = FALSE]
     /\ users' = [u \in People |->
          IF users[u].partner = l THEN [users[u] EXCEPT !.partner = NoOne] ELSE users[u]]
     /\ End(s)
     /\ UNCHANGED history

-------------------------------------------------------------------------------
(* The script                                                              *)

\* Those of the old database whom we know, with a referrer we know and none yet.
Unreferred(row) == row.known /\ row.referrer = NoOne

\* A row of its own is nobody's referrer, and a dry run writes nothing.
Migrate(s, dry) ==
  LET pairs == {p \in Legacy : p[1] # p[2] /\ users[p[2]].known /\ Unreferred(users[p[1]])}
  IN /\ Begin(s, "migrate", [Idle EXCEPT !.at = "migrate", !.known = IF dry THEN {} ELSE pairs])
     /\ UNCHANGED <<users, links, history>>

\* The flush writes the column of the rows it has loaded.
MigrateCommit(s) ==
  LET pairs == session[s].known
  IN /\ At(s, "migrate", "migrate")
     /\ users' = [u \in People |->
          IF \E p \in pairs : p[1] = u
            THEN [users[u] EXCEPT !.referrer = (CHOOSE p \in pairs : p[1] = u)[2]]
            ELSE users[u]]
     /\ migrated' = (migrated \/ pairs # {})
     /\ End(s)
     /\ UNCHANGED <<links, first, clicks, unseen, overlapped>>

\* An error anywhere: the transaction is rolled back.
Fail(s) ==
  /\ session[s] # Idle
  /\ End(s)
  /\ UNCHANGED <<users, links, history>>

Next ==
  \E s \in Sessions :
    \/ \E u \in People :
         StartKnown(s, u) \/ \E t \in People \cup Links \cup {NoOne} : StartNew(s, u, t)
    \/ Resolve(s) \/ Insert(s) \/ InsertFails(s) \/ Register(s) \/ Greet(s)
    \/ \E l \in Links, kind \in {"click", "toggle", "delete"} : LoadLink(s, kind, l)
    \/ Count(s) \/ Write(s) \/ WriteFails(s) \/ Click(s) \/ Toggle(s) \/ Delete(s)
    \/ \E dry \in BOOLEAN : Migrate(s, dry)
    \/ MigrateCommit(s) \/ Fail(s)

Spec == Init /\ [][Next]_vars

-------------------------------------------------------------------------------
(* Properties                                                              *)

\* In every group of people somebody was brought by nobody of the group.
NoCircle ==
  \A group \in (SUBSET People) \ {{}} : \E u \in group : users[u].referrer \notin group

\* What brought a customer stays with the row: a partner is only lost by a deletion
\* that had counted before the customer registered, a referrer is only ever filled
\* in by the script, and nobody is their own referrer, be it through others, unless
\* the script has run.
AttributionKept ==
  /\ \A u \in People :
       /\ users[u].known =>
            /\ users[u].partner = first[u].partner \/ u \in unseen
            /\ users[u].referrer = first[u].referrer \/ (migrated /\ first[u].referrer = NoOne)
       /\ users[u].referrer # u
  /\ ~ migrated => NoCircle

\* A partner's clicks are all counted unless two were handled at once.
ClicksCounted ==
  \A l \in Links : links[l].exists /\ l \notin overlapped => links[l].count = clicks[l]
===============================================================================
