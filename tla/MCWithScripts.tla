----------------------------- MODULE MCWithScripts -----------------------------
(***************************************************************************)
(* Instances of XraySync and, in the same run, of two other parts that     *)
(* the scripts in scripts/ drive and that share no state with it: the      *)
(* imported subscriptions and the rollouts of code.  A behaviour is a      *)
(* behaviour of one of them; the variables of the others keep their        *)
(* initial values.                                                         *)
(***************************************************************************)
EXTENDS MCXraySync

CONSTANTS Nodes, Refreshes, Deployed, Breakable, MaxRollouts, MaxDeaths

VARIABLES
  part,
  rows, active, exists, refresh, answered, undisturbed,
  script, todo, stale, needs, versions, schema, lagging, broken, down, alone, stopped, clean,
  rollouts, deaths

imports == <<rows, active, exists, refresh, answered, undisturbed>>
rollout ==
  <<script, todo, stale, needs, versions, schema, lagging, broken, down, alone, stopped, clean,
    rollouts, deaths>>

I == INSTANCE ImportedSubs WITH alone <- undisturbed
R == INSTANCE Rollout

ASSUME RolloutsAssumption == R!RolloutAssumption

ScriptsInit ==
  /\ Init /\ I!Init /\ R!Init
  /\ part \in {"xray", "imports", "rollout"}
  /\ part # "xray" => entitled = {}

ScriptsNext ==
  \/ part = "xray" /\ Next /\ UNCHANGED <<part, imports, rollout>>
  \/ part = "imports" /\ I!Next /\ UNCHANGED <<part, vars, rollout>>
  \/ part = "rollout" /\ R!Next /\ UNCHANGED <<part, vars, imports>>

\* The fairness of XraySync; the others are checked for safety here.
ScriptsSpec ==
  /\ ScriptsInit /\ [][ScriptsNext]_<<part, vars, imports, rollout>>
  /\ WF_vars(part = "xray" /\ CronBegin)
  /\ \A s \in Sessions : WF_vars(Step(s))

\* The types of XraySync, and those of the part that moves.
ScriptsTypeOK ==
  /\ TypeOK
  /\ part = "imports" => I!TypeOK
  /\ part = "rollout" => R!TypeOK

\* ImportedSubs: the feed shows the nodes that answered the last refresh, and only
\* those, unless two refreshes of a source overlapped.
ShownAnswered == part = "imports" => I!ShownAnswered

\* Rollout: no service runs models the database lacks, but for the exceptions that
\* R!SchemaFirst names, nor, after scripts that restart all readers of what they
\* copy, an old copy of a file.
InStep == part = "rollout" => R!InStep

\* Rollout: a script whose check imports all that its service does never takes
\* the service down.
CheckedFirst == part = "rollout" => R!CheckedFirst
===============================================================================
