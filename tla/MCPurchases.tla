------------------------------ MODULE MCPurchases ------------------------------
(* Instances of Purchases for TLC. *)
EXTENDS Purchases, TLC

CONSTANTS inviter, friend, s1, s2

\* The friend came through the inviter's link.
MCReferrer == (inviter :> NoUser) @@ (friend :> inviter)

TopUps == {1}
===============================================================================
