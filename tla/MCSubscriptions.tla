---------------------------- MODULE MCSubscriptions ----------------------------
(* Instances of Subscriptions for TLC. *)
EXTENDS Subscriptions, TLC

CONSTANTS s1, s2

Symmetric == Permutations(Requests)

\* A customer who has paid before, and a new one.
NoTrialInit == Init /\ ~ trialUsed

NoTrialSpec == NoTrialInit /\ [][Next]_vars /\ CronFairness
===============================================================================
