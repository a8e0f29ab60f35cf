-------------------------------- MODULE Dialogues --------------------------------
(***************************************************************************)
(* The bot's dialogues with one administrator (src/src/bot/handlers):      *)
(* the panel's mailing to everybody or to one customer (admin.py), the     *)
(* direct message (direct_message.py), the mailing of broadcast.py, the    *)
(* new administrator's id, and the customer's own questions for a promo    *)
(* code and an amount.  All share one state and one dictionary of the      *)
(* MemoryStorage, which a restart empties.                                 *)
(*                                                                         *)
(* An update is matched against the state when it arrives; its handler     *)
(* then waits for the database and works with whatever the state and the   *)
(* dictionary hold by then.  The calls on them do not suspend, so what a   *)
(* handler does to them after its wait is one step.                        *)
(***************************************************************************)
EXTENDS Naturals, FiniteSets

CONSTANTS
  Customers,    \* recipients, finitely many
  Everybody,
  Nothing,      \* no message, no recipient
  Handlers,     \* updates handled at a time
  MaxUpdates    \* bound: updates received

\* Recipients, messages and the lack of either are told apart.
DialoguesAssumption ==
  MaxUpdates \in Nat /\ Nothing \notin Customers /\ Nothing \notin 1 .. MaxUpdates

VARIABLES
  state,      \* the FSM state, "none" for no state
  data,       \* the dictionary: keys that are not set are Nothing
  handler,    \* per update in progress: which handler and what it carries
  admin,      \* the administrator still is one
  updates,    \* updates received, the number of the last one
  promised,   \* history: per message, the recipient its preview named
  outbox,     \* history: what was sent to whom, and whether handlers had overlapped
  mixed       \* history: handlers have overlapped since the last clear

vars == <<state, data, handler, admin, updates, promised, outbox, mixed>>

Messages == 1 .. MaxUpdates   \* a message is named by its update
Recipients == Customers \cup {Everybody}

Cleared == [scope |-> "all", target |-> Nothing, label |-> Nothing,
            content |-> Nothing, message |-> Nothing, plan |-> FALSE]
Idle == [does |-> "nothing", with |-> Nothing, alone |-> TRUE]

States == {"none", "panel content", "panel target", "panel confirm", "new admin",
           "broadcast", "dm target", "dm message", "dm confirm", "code", "amount"}

TypeOK ==
  /\ state \in States
  /\ data.target \in Customers \cup {Nothing} /\ data.label \in Customers \cup {Nothing}
  /\ data.content \in Messages \cup {Nothing} /\ data.message \in Messages \cup {Nothing}
  /\ state = "panel confirm" => data.content # Nothing
  /\ state = "dm confirm" => data.message # Nothing
  /\ \A h \in Handlers : handler[h].does = "nothing" => handler[h] = Idle

Init ==
  /\ state = "none" /\ data = Cleared
  /\ handler = [h \in Handlers |-> Idle] /\ admin = TRUE
  /\ updates = 0 /\ promised = [m \in Messages |-> Nothing] /\ outbox = {} /\ mixed = FALSE

-------------------------------------------------------------------------------
(* Arrival: which handler an update goes to                                *)

Arrive(h, does, with) ==
  /\ handler[h] = Idle /\ updates < MaxUpdates
  /\ updates' = updates + 1
  /\ handler' = [handler EXCEPT ![h] = [Idle EXCEPT !.does = does, !.with = with]]
  /\ UNCHANGED <<state, data, admin, promised, outbox, mixed>>

\* /start and the main menu button have the first routers and no state.
PressMenu(h) == Arrive(h, "clear", Nothing)

\* The keyboard's buttons, and /cancel.  The panel takes every message while it
\* waits for the content, and the promo code and the amount come after both.
PressBroadcast(h) ==
  /\ state \notin {"panel content", "panel target", "new admin"}
  /\ Arrive(h, "broadcast start", Nothing)

PressDirect(h) ==
  /\ state \notin {"panel content", "panel target", "new admin"}
  /\ Arrive(h, "dm start", Nothing)

TypeCancel(h) ==
  /\ state \in {"broadcast", "dm target", "dm message", "dm confirm"}
  /\ Arrive(h, "clear", Nothing)

TypeId(h, c) ==
  \/ state = "panel target" /\ Arrive(h, "panel target", c)
  \/ state = "dm target" /\ Arrive(h, "dm target", c)

\* Text or a picture to be sent on.  For broadcast.py the handler fails:
\* UserRepository has no list_broadcast_telegram_ids.
TypeMessage(h) ==
  \/ state = "panel content" /\ Arrive(h, "panel content", updates + 1)
  \/ state = "dm message" /\ Arrive(h, "dm message", updates + 1)
  \/ state = "broadcast" /\ Arrive(h, "fails", Nothing)

\* The answers to the questions that keep no message.
TypeAnswer(h) ==
  \/ state = "new admin" /\ Arrive(h, "clear", Nothing)
  \/ state = "code" /\ Arrive(h, "code", Nothing)
  \/ state = "amount" /\ Arrive(h, "clear", Nothing)

\* Buttons under old messages keep working; those of a preview need its state.
PressButton(h) ==
  \/ \E does \in {"panel all", "panel one", "new admin", "code start", "amount start", "clear"} :
       Arrive(h, does, Nothing)
  \/ state = "panel confirm" /\ \E does \in {"panel no", "panel yes"} : Arrive(h, does, Nothing)
  \/ state = "dm confirm" /\ \E does \in {"dm no", "dm yes"} : Arrive(h, does, Nothing)

-------------------------------------------------------------------------------
(* Work: what the handler does after its wait                              *)

\* The step of h, after which the others have been overtaken.
Ends(h) ==
  handler' = [g \in Handlers |->
    IF g = h THEN Idle
    ELSE IF handler[g] = Idle THEN Idle ELSE [handler[g] EXCEPT !.alone = FALSE]]

Turn(h, does) == handler[h].does = does /\ Ends(h) /\ UNCHANGED <<admin, updates>>

Keeps(h) == mixed' = (mixed \/ ~ handler[h].alone) /\ UNCHANGED outbox

Clears == state' = "none" /\ data' = Cleared /\ mixed' = FALSE

Moves(h, s, d) == state' = s /\ data' = d /\ Keeps(h) /\ UNCHANGED promised

Clear(h) ==
  /\ \E does \in {"clear", "panel no", "dm no"} : Turn(h, does)
  /\ Clears /\ UNCHANGED <<promised, outbox>>

\* The handlers that open a dialogue leave the dictionary as it is.
Start(h) ==
  \E p \in {<<"panel one", "panel target">>, <<"new admin", "new admin">>, <<"dm start", "dm target">>,
            <<"broadcast start", "broadcast">>, <<"amount start", "amount">>} :
    Turn(h, p[1]) /\ Moves(h, p[2], data)

PanelAll(h) == Turn(h, "panel all") /\ Moves(h, "panel content", [data EXCEPT !.scope = "all"])

AskCode(h) == Turn(h, "code start") /\ Moves(h, "code", [data EXCEPT !.plan = TRUE])

\* A code that is refused is asked for again; one without a plan, or a good one,
\* ends the dialogue.
Code(h) ==
  /\ Turn(h, "code")
  /\ \/ Clears /\ UNCHANGED <<promised, outbox>>
     \/ data.plan /\ Moves(h, state, data)

PanelTarget(h) ==
  /\ Turn(h, "panel target")
  /\ Moves(h, "panel content", [data EXCEPT !.scope = "one", !.target = handler[h].with])

DmTarget(h) ==
  /\ Turn(h, "dm target")
  /\ Moves(h, "dm message", [data EXCEPT !.target = handler[h].with, !.label = handler[h].with])

\* To whom the panel's mailing goes
Addressee == IF data.scope = "one" /\ data.target # Nothing THEN data.target ELSE Everybody

PanelContent(h) ==
  LET m == handler[h].with
  IN /\ Turn(h, "panel content")
     /\ state' = "panel confirm" /\ data' = [data EXCEPT !.content = m]
     /\ promised' = [promised EXCEPT ![m] = Addressee]
     /\ Keeps(h)

\* The preview of a direct message shows the label.
DmMessage(h) ==
  LET m == handler[h].with
  IN /\ Turn(h, "dm message")
     /\ state' = "dm confirm" /\ data' = [data EXCEPT !.message = m]
     /\ promised' = [promised EXCEPT ![m] = data.label]
     /\ Keeps(h)

Sends(h, m, to) ==
  outbox' = outbox \cup {[id |-> Cardinality(outbox), message |-> m, to |-> to,
                          mixed |-> mixed \/ ~ handler[h].alone]}

\* Mutants: the addressee of an earlier mailing is used; the dictionary is
\* emptied after the sending.
PanelYesToTarget(h) ==
  /\ Turn(h, "panel yes") /\ Clears /\ UNCHANGED promised
  /\ IF data.content = Nothing THEN UNCHANGED outbox
     ELSE Sends(h, data.content, IF data.target # Nothing THEN data.target ELSE Everybody)

DmYesKeeping(h) ==
  /\ Turn(h, "dm yes") /\ UNCHANGED <<state, data, mixed, promised>>
  /\ IF data.message = Nothing \/ data.target = Nothing THEN UNCHANGED outbox
     ELSE Sends(h, data.message, data.target)

\* The message and the addressee are taken from the dictionary and the dictionary
\* is emptied before anything is sent; without a message nothing is.
PanelYes(h) ==
  /\ Turn(h, "panel yes") /\ Clears /\ UNCHANGED promised
  /\ IF data.content = Nothing THEN UNCHANGED outbox ELSE Sends(h, data.content, Addressee)

DmYes(h) ==
  /\ Turn(h, "dm yes") /\ Clears /\ UNCHANGED promised
  /\ IF data.message = Nothing \/ data.target = Nothing THEN UNCHANGED outbox
     ELSE Sends(h, data.message, data.target)

\* The handler raises, or the input is refused: nothing of the dialogue changes.
Refuse(h) ==
  /\ \E does \in {"fails", "panel target", "dm target"} : Turn(h, does)
  /\ UNCHANGED <<state, data, promised, outbox, mixed>>

\* The check of the rights fails: an answer to a message ends the dialogue, a
\* button does nothing.  The menus, codes and amounts are everybody's.
Denied(h) ==
  /\ ~ admin
  /\ \/ /\ \E does \in {"panel target", "panel content", "dm target", "dm message", "fails"} : Turn(h, does)
        /\ Clears
     \/ /\ \E does \in {"panel all", "panel one", "panel no", "panel yes", "new admin",
                        "dm start", "dm no", "dm yes", "broadcast start"} : Turn(h, does)
        /\ UNCHANGED <<state, data, mixed>>
  /\ UNCHANGED <<promised, outbox>>

PanelWork(h) == PanelAll(h) \/ PanelTarget(h) \/ PanelContent(h) \/ PanelYes(h)
DmWork(h) == DmTarget(h) \/ DmMessage(h) \/ DmYes(h)

Work(h) ==
  \/ Clear(h) \/ Start(h) \/ AskCode(h) \/ Code(h) \/ Refuse(h) \/ Denied(h)
  \/ PanelWork(h) \/ DmWork(h)

\* Another administrator takes the rights away.
Dismiss ==
  /\ admin /\ admin' = FALSE
  /\ UNCHANGED <<state, data, handler, updates, promised, outbox, mixed>>

Restart ==
  /\ state' = "none" /\ data' = Cleared /\ mixed' = FALSE
  /\ handler' = [h \in Handlers |-> Idle]
  /\ UNCHANGED <<admin, updates, promised, outbox>>

Next ==
  \/ \E h \in Handlers :
       \/ PressMenu(h) \/ PressBroadcast(h) \/ PressDirect(h) \/ TypeCancel(h)
       \/ \E c \in Customers : TypeId(h, c)
       \/ TypeMessage(h) \/ TypeAnswer(h) \/ PressButton(h) \/ Work(h)
  \/ Dismiss \/ Restart

Spec == Init /\ [][Next]_vars

-------------------------------------------------------------------------------
(* Properties                                                              *)

\* Whichever preview's button is pressed, of whichever dialogue, what goes out
\* goes to the recipient that its own preview named, if no two updates of the
\* administrator were handled at once since the dialogue began.
SentAsShown == \A o \in outbox : ~ o.mixed => o.to = promised[o.message]

\* A message is sent once, however often and however fast its button is pressed.
SentOnce == \A o, p \in outbox : o.message = p.message => o.id = p.id
===============================================================================
