------------------------------- MODULE MCAccess --------------------------------
(***************************************************************************)
(* Instances of DeviceSlots and Credentials for TLC, in one run: a         *)
(* behaviour is one of the slots or one of the credentials, which share no *)
(* state.                                                                  *)
(***************************************************************************)
EXTENDS DeviceSlots, TLC

CONSTANTS d1, d2, ph, s1, s2, Ids, Configs, Limit, MaxCredentialOps

VARIABLES
  part,
  devices, uuid, live, active, paid, token, lastId, made, handed, withdrawn, sess, ops

credentialVars ==
  <<devices, uuid, live, active, paid, token, lastId, made, handed, withdrawn, sess, ops>>

C == INSTANCE Credentials_proofs WITH MaxOps <- MaxCredentialOps

ASSUME AccessAssumption == C!CredentialsAssumption

AccessInit ==
  /\ Init /\ C!Init
  /\ (part = "slots" /\ devices = {}) \/ (part = "credentials" /\ ~ frozen)

AccessNext ==
  \/ part = "slots" /\ Next /\ UNCHANGED <<part, credentialVars>>
  \/ part = "credentials" /\ C!Next /\ UNCHANGED <<part, vars>>

\* The fairness of Credentials; the slots are checked for safety here.
AccessSpec ==
  /\ AccessInit /\ [][AccessNext]_<<part, vars, credentialVars>>
  /\ \A s \in Sessions :
       /\ WF_credentialVars(C!Reading(s)) /\ SF_credentialVars(C!Locking(s))
       /\ SF_credentialVars(part = "credentials" /\ C!Begin(s, "feed", 0))

\* DeviceSlots and Credentials: the types of both, and that a request that has
\* ended holds no rows.
AccessTypeOK == TypeOK /\ C!TypeOK

\* Credentials: after a reset of the link, or an expiry, no link handed out
\* before works again.
OldLinksDie == C!OldLinksDie

\* Credentials: a link works until its uuid is revoked or its device removed,
\* whatever refreshes and renewals run beside each other.
LinksLast == C!LinksLast

\* Credentials: a request withdraws links as a whole and gives none twice.
KeepsLinks == C!KeepsLinks

\* Credentials: overlapping additions exceed the limit by at most one each.
DeviceLimit == C!DeviceLimit

\* Credentials: the refreshes bring the credentials in line with devices,
\* configurations and payment.
InLineAtLast == part = "credentials" => C!InLineAtLast
===============================================================================
