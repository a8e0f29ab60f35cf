------------------------------ MODULE LinkPromise ------------------------------
(***************************************************************************)
(* What a customer is promised of the links in his subscription.  Each     *)
(* works until the time is over, he asks for a new address, he removes the *)
(* device, or its configuration is no longer offered, and then it goes     *)
(* with all others of the kind, for good.  A new one is one he has not had *)
(* before, and no device has two for one configuration.                    *)
(***************************************************************************)
EXTENDS Naturals

CONSTANTS Devices, Configurations

VARIABLES
  given,    \* the links the customer has ever had: token, key and uuid
  working,  \* those that work; a key is a device and a configuration
  token,    \* of the subscription's address
  paid      \* the subscription is active and not over

linkVars == <<given, working, token, paid>>

LinkPromiseInit == given = {} /\ working = {} /\ token = 1 /\ paid = TRUE

Kept(C) == {h \in working : h.key[2] \notin C}

\* A refresh, a renewal or a new device: the links of the configurations C, which
\* are not offered any more and not all, are dropped, and new ones may be given.
Refresh(C) ==
  /\ working # {} => C # Configurations
  /\ Kept(C) \subseteq working'
  /\ \A h \in working' \ Kept(C) : paid /\ h.token = token /\ h \notin given
  /\ \A g, h \in working' : g.key = h.key => g = h
  /\ given' = given \cup working'
  /\ paid' \in {paid, TRUE}
  /\ UNCHANGED token

RemoveDevice(d) ==
  /\ working' = {h \in working : h.key[1] # d}
  /\ UNCHANGED <<given, token, paid>>

Expire == working' = {} /\ paid' = FALSE /\ UNCHANGED <<given, token>>

\* The customer asks for a new address: nothing that he had works.
ReplaceAll == working' = {} /\ token' = token + 1 /\ UNCHANGED <<given, paid>>

LinkPromiseNext ==
  \/ \E C \in SUBSET Configurations : Refresh(C)
  \/ \E d \in Devices : RemoveDevice(d)
  \/ Expire \/ ReplaceAll

LinkPromiseSpec == LinkPromiseInit /\ [][LinkPromiseNext]_linkVars
===============================================================================
