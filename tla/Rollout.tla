-------------------------------- MODULE Rollout --------------------------------
(***************************************************************************)
(* The deployment scripts (scripts/deploy_*.py, redeploy.py, ...): each    *)
(* copies some source files over SSH into the directory the three services *)
(* run from and restarts some of the services.  A service keeps the copies *)
(* it imported when it started, systemd restarts a service that dies       *)
(* (Restart=always), a connection can break at any step, and nobody looks  *)
(* after a script that stopped half-way before starting the next one.      *)
(*                                                                         *)
(* A file is named by its module; "bot", "api" and "admin" stand for the   *)
(* files of one service alone.  Templates and static files are read when   *)
(* used and are left out, and so are the repairs of data some scripts do.  *)
(* The migrations of alembic/versions are a chain, each named by its       *)
(* number, and "alembic upgrade head" applies those that the disk has.     *)
(***************************************************************************)
EXTENDS Naturals, Sequences

CONSTANTS
  Deployed,     \* the versions the server may be at before the first script
  Breakable,    \* the files whose new copy may fail to import on the server
  MaxRollouts,  \* bounds the number of scripts run,
  MaxDeaths     \* and how often a service dies

\* The newest migration, whose columns the models of the repository have.
Latest == 18

RolloutAssumption ==
  MaxRollouts \in Nat /\ MaxDeaths \in Nat /\ Deployed \subseteq 1 .. Latest

VARIABLES
  script,       \* the script that runs, or "none"
  todo,         \* its remaining steps
  stale,        \* per service: files it imported before their newest copy came
  needs,        \* the version of the database that the models on disk need,
  versions,     \* the migrations that are on disk,
  schema,       \* and the version of the database
  lagging,      \* history: a script of Behind left models without their migration
  broken,       \* files whose copy on disk does not import
  down,         \* per service: "up", or who restarted it into a failing import
  alone,        \* services that started by themselves while models were ahead
  stopped,      \* a script stopped before its end, and no migration that sufficed since
  clean,        \* only scripts that restart all their readers have run
  rollouts, deaths   \* count them

models == <<needs, versions, schema, lagging>>
vars == <<script, todo, stale, models, broken, down, alone, stopped, clean, rollouts, deaths>>

\* The models on disk have columns that the database lacks.
ahead == needs > schema

Services == {"api", "admin", "bot"}

Shared == {"models", "repositories", "services", "config_credentials", "vpn_config",
           "xray_sync"}

\* What each service imports when it starts,
Loaded ==
  [api   |-> Shared \cup {"api", "device_limit", "notifications", "promo",
                          "system_settings", "payment", "vpn_config_store"},
   admin |-> Shared \cup {"admin"},
   bot   |-> Shared \cup {"bot", "device_limit", "notifications", "promo",
                          "system_settings", "payment"}]

\* and what it imports inside functions, when one is first called.
LoadedLate ==
  [api   |-> {"imported_subs"},
   admin |-> {"device_limit", "notifications", "promo", "system_settings",
              "vpn_config_store", "imported_subs"},
   bot   |-> {"vpn_config_store"}]

Files == UNION {Loaded[s] \cup LoadedLate[s] : s \in Services}

-------------------------------------------------------------------------------
(* The steps of a script.                                                  *)

Put(files) == [i \in DOMAIN files |-> [do |-> "put", file |-> files[i]]]
PutVersion(n) == <<[do |-> "put version", number |-> n]>>
PutAll == <<[do |-> "putall"]>>
Migrate == <<[do |-> "migrate"]>>
MigrateOrGoOn == <<[do |-> "migrate or go on"]>>
Restart(services) == <<[do |-> "restart", services |-> services]>>

\* The import of some modules, and so of all these files; the script stops when
\* it fails.  ("bot" and "api" only when every file of the group is imported.)
Check(files) == <<[do |-> "check", files |-> files]>>

\* What services/__init__.py imports, with itself,
Core == Shared
\* what device_limit.py does, and what sub_feed.py does.
Limits == Shared \cup {"device_limit", "notifications"}
Feed == Limits \cup {"vpn_config_store"}

(* The scripts.                                                            *)

redeploy == PutAll \o Migrate \o Restart(Services)
\* (It stops the bot, which keeps no old copy either; start_bot starts it.)
deploy_remote == PutAll \o Migrate \o Restart(Services)
finish_install == Migrate \o Check(Loaded["api"]) \o Restart({"api", "admin"})

deploy_promo_retry_buttons == Put(<<"bot">>) \o Restart({"bot"})
deploy_sub_fix == Put(<<"api">>) \o Check(Feed) \o Restart({"api"})
deploy_payment_notify_fix ==
  Put(<<"payment", "notifications", "repositories">>)
    \o Check({"models", "repositories"}) \o Restart({"api", "bot"})
deploy_json_no_yandex_bind ==
  Put(<<"vpn_config", "vpn_config_store", "services", "admin">>) \o Restart({"admin", "api"})
deploy_payment_poll == Put(<<"repositories", "payment">>) \o Restart({"api"})
deploy_expiry_reminders == Put(<<"bot">>) \o Restart({"bot"})
deploy_fix_finland_sync == Put(<<"vpn_config", "xray_sync">>)
deploy_promo_delete_fix ==
  Put(<<"promo", "admin">>) \o Check(Core \cup {"promo"}) \o Restart({"admin"})
deploy_keys_ux == Put(<<"admin">>) \o Check(Loaded["admin"]) \o Restart({"admin"})
deploy_keys_fix ==
  Put(<<"admin", "services">>) \o Check(Loaded["admin"]) \o Restart({"admin", "api"})
deploy_fix_manual_key_import ==
  Put(<<"models", "services">>) \o PutVersion(14) \o MigrateOrGoOn \o Restart(Services)
deploy_tg_routing_fix == Put(<<"vpn_config">>) \o Restart({"api"})
deploy_connect_guide ==
  Put(<<"system_settings", "bot", "admin">>)
    \o Check(Core \cup {"system_settings"}) \o Restart({"bot", "admin"})
\* (A mutant: the check imports nothing of what was copied.)
MessageImportingHandlers ==
  Put(<<"bot", "repositories">>) \o Check({}) \o Restart({"bot"})
deploy_direct_message ==
  Put(<<"bot", "repositories">>) \o Check(Loaded["bot"]) \o Restart({"bot"})
deploy_renew_expired ==
  Put(<<"repositories", "services", "bot">>) \o Restart({"api", "bot"})
deploy_fix_expired_feed == Put(<<"services", "vpn_config", "api">>) \o Restart({"api"})
deploy_broadcast ==
  Put(<<"bot", "notifications", "repositories">>) \o Check(Loaded["bot"]) \o Restart({"bot"})
deploy_broadcast_fix ==
  Put(<<"bot", "notifications">>) \o Check(Loaded["bot"]) \o Restart({"bot"})
deploy_expired_telegram_only ==
  Put(<<"vpn_config", "xray_sync", "api">>) \o Check(Feed) \o Restart({"api"})
deploy_soft_device_limit ==
  Put(<<"device_limit", "bot", "api">>) \o Check(Limits) \o Restart({"api", "bot"})
deploy_expired_renew_nudges ==
  PutVersion(17) \o Put(<<"models", "admin">>)
    \o Migrate \o Check(Loaded["admin"]) \o Restart({"admin"})
deploy_finland_ru_direct == Put(<<"vpn_config", "api">>) \o Restart({"api"})
deploy_bot_ui == Put(<<"bot">>) \o Check(Loaded["bot"]) \o Restart({"bot"})
deploy_restore_fix ==
  Put(<<"config_credentials", "device_limit", "bot">>)
    \o Check(Limits) \o Restart({"api", "bot"})
deploy_balance_buy_fix ==
  Put(<<"services", "bot", "xray_sync">>) \o Restart({"bot", "api"})
deploy_multi_server ==
  Put(<<"config_credentials", "vpn_config", "services", "api">>)
    \o Check(Core) \o Restart({"api", "bot"})
deploy_multi_server2 ==
  Put(<<"config_credentials", "vpn_config", "services", "api">>) \o Restart({"api"})
\* (A mutant: the script forgets the migration of its models.)
ImportedSubsWithoutVersion ==
  Put(<<"models", "imported_subs", "admin", "api">>)
    \o Migrate \o Check(Loaded["admin"] \cup {"imported_subs"}) \o Restart({"admin", "api"})
deploy_imported_subs ==
  PutVersion(18) \o Put(<<"models", "imported_subs", "admin", "api">>)
    \o Migrate \o Check(Loaded["admin"] \cup {"imported_subs"}) \o Restart({"admin", "api"})
deploy_sub_keys_fix ==
  Put(<<"vpn_config", "device_limit", "config_credentials", "api", "bot">>)
    \o Check(Core) \o Restart({"api", "bot"})
deploy_telegram_admins ==
  PutVersion(13) \o Put(<<"models", "notifications", "payment", "bot", "admin", "api">>)
    \o Migrate \o Check(Loaded["admin"] \cup {"notifications"}) \o Restart(Services)
deploy_device_limit_fix ==
  Put(<<"device_limit", "services", "bot", "api">>) \o Check(Limits) \o Restart({"api", "bot"})
deploy_profile_keys ==
  PutVersion(14) \o Put(<<"models", "services", "xray_sync", "bot", "admin", "api">>)
    \o Migrate \o Check(Loaded["admin"]) \o Restart(Services)
fix_bot_notifications == Put(<<"notifications", "bot", "admin">>) \o Restart(Services)

\* Scripts that write .env or the units and copy no code.
enable_traffic_stats == Restart({"api", "admin"})
update_yookassa_env == Restart({"api", "bot"})
start_bot == Restart({"bot"})
setup_services == Restart({"api", "admin"})

\* The scripts that restart every service that imports what they copy, those
\* that replace everything, and those whose check imports all that the service
\* they restart does.
Complete ==
  {"deploy_promo_retry_buttons", "deploy_sub_fix", "deploy_expiry_reminders", "deploy_keys_ux",
   "deploy_fix_manual_key_import", "deploy_bot_ui", "deploy_telegram_admins",
   "deploy_profile_keys", "finish_install", "enable_traffic_stats",
   "update_yookassa_env", "start_bot", "setup_services", "fix_bot_notifications"}
Full == {"redeploy", "deploy_remote"}
Checked ==
  {"deploy_bot_ui", "deploy_broadcast", "deploy_broadcast_fix", "deploy_direct_message",
   "deploy_keys_ux", "deploy_expired_renew_nudges"}

Others ==
  {"deploy_payment_notify_fix", "deploy_json_no_yandex_bind", "deploy_payment_poll",
   "deploy_fix_finland_sync", "deploy_promo_delete_fix", "deploy_keys_fix",
   "deploy_tg_routing_fix", "deploy_connect_guide", "deploy_renew_expired",
   "deploy_fix_expired_feed", "deploy_expired_telegram_only",
   "deploy_soft_device_limit", "deploy_finland_ru_direct", "deploy_restore_fix",
   "deploy_balance_buy_fix", "deploy_multi_server", "deploy_multi_server2",
   "deploy_imported_subs", "deploy_sub_keys_fix", "deploy_device_limit_fix"}

\* The scripts that copy the models with a migration older than their newest one.
Behind == {"deploy_profile_keys", "deploy_fix_manual_key_import", "deploy_telegram_admins",
           "deploy_expired_renew_nudges"}

Scripts == Complete \cup Full \cup Checked \cup Others

Plan(r) ==
  CASE r = "redeploy" -> redeploy [] r = "deploy_remote" -> deploy_remote []
     r = "finish_install" -> finish_install []
     r = "deploy_promo_retry_buttons" -> deploy_promo_retry_buttons []
     r = "deploy_sub_fix" -> deploy_sub_fix []
     r = "deploy_payment_notify_fix" -> deploy_payment_notify_fix []
     r = "deploy_json_no_yandex_bind" -> deploy_json_no_yandex_bind []
     r = "deploy_payment_poll" -> deploy_payment_poll []
     r = "deploy_expiry_reminders" -> deploy_expiry_reminders []
     r = "deploy_fix_finland_sync" -> deploy_fix_finland_sync []
     r = "deploy_promo_delete_fix" -> deploy_promo_delete_fix []
     r = "deploy_keys_ux" -> deploy_keys_ux []
     r = "deploy_keys_fix" -> deploy_keys_fix []
     r = "deploy_fix_manual_key_import" -> deploy_fix_manual_key_import []
     r = "deploy_tg_routing_fix" -> deploy_tg_routing_fix []
     r = "deploy_connect_guide" -> deploy_connect_guide []
     r = "deploy_direct_message" -> deploy_direct_message []
     r = "deploy_renew_expired" -> deploy_renew_expired []
     r = "deploy_fix_expired_feed" -> deploy_fix_expired_feed []
     r = "deploy_broadcast" -> deploy_broadcast []
     r = "deploy_broadcast_fix" -> deploy_broadcast_fix []
     r = "deploy_expired_telegram_only" -> deploy_expired_telegram_only []
     r = "deploy_soft_device_limit" -> deploy_soft_device_limit []
     r = "deploy_expired_renew_nudges" -> deploy_expired_renew_nudges []
     r = "deploy_finland_ru_direct" -> deploy_finland_ru_direct []
     r = "deploy_bot_ui" -> deploy_bot_ui []
     r = "deploy_restore_fix" -> deploy_restore_fix []
     r = "deploy_balance_buy_fix" -> deploy_balance_buy_fix []
     r = "deploy_multi_server" -> deploy_multi_server []
     r = "deploy_multi_server2" -> deploy_multi_server2 []
     r = "deploy_imported_subs" -> deploy_imported_subs []
     r = "deploy_sub_keys_fix" -> deploy_sub_keys_fix []
     r = "deploy_telegram_admins" -> deploy_telegram_admins []
     r = "deploy_device_limit_fix" -> deploy_device_limit_fix []
     r = "deploy_profile_keys" -> deploy_profile_keys []
     r = "fix_bot_notifications" -> fix_bot_notifications []
     r = "enable_traffic_stats" -> enable_traffic_stats []
     r = "update_yookassa_env" -> update_yookassa_env []
     r = "start_bot" -> start_bot [] r = "setup_services" -> setup_services

-------------------------------------------------------------------------------
Init ==
  /\ script = "none" /\ todo = <<>> /\ rollouts = 0 /\ deaths = 0
  /\ \E v \in Deployed : needs = v /\ schema = v /\ versions = 1 .. v
  /\ stale = [s \in Services |-> {}] /\ lagging = FALSE /\ broken = {}
  /\ down = [s \in Services |-> "up"]
  /\ alone = {} /\ stopped = FALSE /\ clean = TRUE

Begin(r) ==
  /\ script = "none" /\ rollouts < MaxRollouts
  /\ script' = r /\ todo' = Plan(r) /\ rollouts' = rollouts + 1
  /\ UNCHANGED <<stale, models, broken, down, alone, stopped, clean, deaths>>

Step(what) == todo # <<>> /\ Head(todo).do = what /\ todo' = Tail(todo)

\* (A mutant: every service counts as a reader of every file.)
CopiedToAll(files) == stale' = [s \in Services |-> stale[s] \cup files]

\* A service that has imported a file keeps the old copy; what it imports late
\* it may have imported or not.
Copied(files) ==
  \E late \in SUBSET {s \in Services : files \cap LoadedLate[s] # {}} :
    stale' = [s \in Services |->
                stale[s] \cup (files \cap Loaded[s])
                         \cup (IF s \in late THEN files \cap LoadedLate[s] ELSE {})]

PutFile ==
  /\ Step("put")
  /\ LET f == Head(todo).file IN
       /\ Copied({f})
       /\ needs' = IF f = "models" THEN Latest ELSE needs
       /\ lagging' = (lagging \/ (f = "models" /\ script \in Behind /\ Latest \notin versions))
       /\ broken' \in {broken \ {f}} \cup
                      (IF f \in Breakable /\ broken \subseteq {f} THEN {{f}} ELSE {})
  /\ UNCHANGED <<script, versions, schema, down, alone, stopped, clean, rollouts, deaths>>

\* A file of alembic/versions, which no service imports.
PutVersionFile ==
  /\ Step("put version")
  /\ versions' = versions \cup {Head(todo).number}
  /\ UNCHANGED <<script, stale, needs, schema, lagging, broken, down, alone, stopped, clean,
                 rollouts, deaths>>

PutFiles ==
  /\ Step("putall")
  /\ Copied(Files)
  /\ needs' = Latest /\ versions' = 1 .. Latest
  /\ broken' \in {{}} \cup {{f} : f \in Breakable}
  /\ UNCHANGED <<script, schema, lagging, down, alone, stopped, clean, rollouts, deaths>>

Stop ==
  /\ script' = "none" /\ todo' = <<>> /\ stopped' = TRUE /\ clean' = FALSE
  /\ UNCHANGED <<stale, models, broken, down, alone, rollouts, deaths>>

\* alembic finds the predecessor of every migration on the disk, applies those that
\* are new and ends well, whether or not the models on the disk need newer ones.
Migrated ==
  /\ Step("migrate") \/ Step("migrate or go on")
  /\ \A n \in versions : 1 .. n \subseteq versions
  /\ schema' \in versions /\ \A n \in versions : n <= schema'
  /\ IF needs <= schema'
       THEN alone' = {} /\ stopped' = FALSE /\ lagging' = FALSE
       ELSE UNCHANGED <<alone, stopped, lagging>>
  /\ UNCHANGED <<script, stale, needs, versions, broken, down, clean, rollouts, deaths>>

\* deploy_fix_manual_key_import does not look at alembic's exit code.
NotMigrated ==
  /\ Step("migrate or go on")
  /\ stopped' = TRUE
  /\ UNCHANGED <<script, stale, models, broken, down, alone, clean, rollouts, deaths>>

Passes ==
  /\ Step("check") /\ Head(todo).files \cap broken = {}
  /\ UNCHANGED <<script, stale, models, broken, down, alone, stopped, clean, rollouts, deaths>>

\* The service starts on what is on the disk now.
Starts(s, by) == IF broken \cap Loaded[s] = {} THEN "up" ELSE by

Restarted ==
  /\ Step("restart")
  /\ LET those == Head(todo).services IN
       /\ stale' = [s \in Services |-> IF s \in those THEN {} ELSE stale[s]]
       /\ down' = [s \in Services |-> IF s \in those THEN Starts(s, script) ELSE down[s]]
       /\ alone' = alone \ those
  /\ UNCHANGED <<script, models, broken, stopped, clean, rollouts, deaths>>

\* A script that fails to migrate (the disk lacks a predecessor) or to import stops,
\* and so does one whose connection breaks, which can happen at every step.
Interrupted == script # "none" /\ todo # <<>> /\ Stop

Ends ==
  /\ script # "none" /\ todo = <<>>
  /\ script' = "none"
  /\ clean' = (script \in Full \/ (clean /\ script \in Complete))
  /\ UNCHANGED <<todo, stale, models, broken, down, alone, stopped, rollouts, deaths>>

\* Restart=always: a service dies and systemd starts it again.
StartsAgain(s) ==
  /\ deaths < MaxDeaths /\ deaths' = deaths + 1
  /\ stale' = [stale EXCEPT ![s] = {}]
  /\ down' = [down EXCEPT ![s] = Starts(s, "itself")]
  /\ alone' = IF ahead THEN alone \cup {s} ELSE alone
  /\ UNCHANGED <<script, todo, models, broken, stopped, clean, rollouts>>

Next ==
  \/ \E r \in Scripts : Begin(r)
  \/ PutFile \/ PutVersionFile \/ PutFiles \/ Migrated \/ NotMigrated \/ Passes \/ Restarted
  \/ Interrupted \/ Ends
  \/ \E s \in Services : StartsAgain(s)

Spec == Init /\ [][Next]_vars

-------------------------------------------------------------------------------
(* Types: what a service has an old copy of is something it imports.       *)
TypeOK ==
  /\ script \in Scripts \cup {"none"} /\ rollouts \in 0 .. MaxRollouts
  /\ deaths \in 0 .. MaxDeaths
  /\ \A s \in Services :
       /\ stale[s] \subseteq Loaded[s] \cup LoadedLate[s]
       /\ down[s] \in Scripts \cup {"up", "itself"}
  /\ needs \in 1 .. Latest /\ versions \subseteq 1 .. Latest /\ schema \in versions
  /\ lagging \in BOOLEAN /\ stopped \in BOOLEAN /\ clean \in BOOLEAN
  /\ broken \subseteq Breakable /\ alone \subseteq Services

\* No service runs models whose columns the database lacks, unless it restarted
\* by itself before the migration, a script stopped before it, or one of the four
\* scripts of Behind has brought the models without their newest migration, for
\* which alembic ends well all the same (the files that each script copies, and
\* its order of copy, migration, check and restart).
SchemaFirst ==
  \A s \in Services :
    ahead /\ "models" \notin stale[s] => stopped \/ s \in alone \/ lagging

\* After the scripts that restart all the readers of what they copy, and after a
\* full redeploy whatever went before, no service runs an old copy of a file.
NoneLeftBehind == script = "none" /\ clean => \A s \in Services : stale[s] = {}

\* Services are in step with the database and the disk.
InStep == SchemaFirst /\ NoneLeftBehind

\* A script whose check imports all that the service does never takes it down,
\* whatever earlier scripts left on the disk.
CheckedFirst == \A s \in Services : down[s] \notin Checked
===============================================================================
