-------------------------------- MODULE PaidTime -------------------------------
(***************************************************************************)
(* What a customer is promised of the time he pays for, whatever pages,    *)
(* sweeps, crashes and other purchases happen underneath: a purchase adds  *)
(* the days of its plan to the time that is left, or counts them from a    *)
(* moment up to the payment if none is left, in one step, and nothing else *)
(* moves the end of a subscription (README.md:245-247).                    *)
(***************************************************************************)
EXTENDS Naturals

CONSTANTS
  Rows,   \* the subscriptions of one customer, those to come included
  Plans   \* lengths of plans in days

VARIABLES
  now,
  until,  \* until[r] : the day on which r ends, 0 if it has had no day yet
  paid    \* paid[r] : the days that were paid for

accountVars == <<now, until, paid>>

Later(a, b) == IF a >= b THEN a ELSE b

PaidTimeInit == now = 0 /\ until \in [Rows -> Nat] /\ paid = until

Pass == now' = now + 1 /\ UNCHANGED <<until, paid>>

\* A purchase that looked at the clock at the time "at".
Renew(r, d, at) ==
  /\ until' = [until EXCEPT ![r] = Later(@, at) + d]
  /\ paid' = [paid EXCEPT ![r] = @ + d]
  /\ UNCHANGED now

PaidTimeNext ==
  \/ Pass
  \/ \E r \in Rows, d \in Plans : \E at \in 0 .. now : Renew(r, d, at)

PaidTimeSpec == PaidTimeInit /\ [][PaidTimeNext]_accountVars
===============================================================================
