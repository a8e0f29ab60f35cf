------------------------------ MODULE MCXraySync -------------------------------
(* Instances of XraySync for TLC. *)
EXTENDS XraySync, TLC

CONSTANTS c1, c2, s1, s2
===============================================================================
