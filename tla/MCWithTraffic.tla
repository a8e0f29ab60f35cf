----------------------------- MODULE MCWithTraffic -----------------------------
(***************************************************************************)
(* Instances of Subscriptions and, in the same run, of TrafficSync, which  *)
(* shares no state with it.  A behaviour is a behaviour of one of them;    *)
(* the variables of the other keep their initial values.                   *)
(***************************************************************************)
EXTENDS MCSubscriptions

CONSTANTS Devices, Configs, Syncs, MaxTraffic, MaxRestarts, MaxChanges

VARIABLES
  part,
  bytes, baseline, devices, live, raw, served, used, disturbed, sent, restarts,
  changes, sync

traffic ==
  <<bytes, baseline, devices, live, raw, served, used, disturbed, sent, restarts,
    changes, sync>>

T == INSTANCE TrafficSync

ASSUME BytesAssumption == T!TrafficAssumption

EitherInit ==
  /\ Init /\ T!Init
  /\ part = "subscriptions" \/ (part = "traffic" /\ next = 1)

EitherNext ==
  \/ part = "subscriptions" /\ Next /\ UNCHANGED <<part, traffic>>
  \/ part = "traffic" /\ T!Next /\ UNCHANGED <<part, vars>>

EitherSpec == EitherInit /\ [][EitherNext]_<<part, vars, traffic>>

\* The types of both, and that a session has no locks but its own.
BothTypeOK == TypeOK /\ (part = "traffic" => T!TypeOK)

\* TrafficSync: no byte is counted twice, and none is missed but by a restart of
\* Xray, by overlapping syncs, unless resets or changed credentials interfere.
CountedWasUsed == part = "traffic" => T!CountedWasUsed
===============================================================================
