---------------------------- MODULE HashTimelock ----------------------------
(***************************************************************************)
(* What an escrow promises, without balances or clocks: funds locked on a  *)
(* leg are either claimed, before the leg expires, or refunded, after it   *)
(* has; and either happens once.                                           *)
(***************************************************************************)
EXTENDS Naturals

CONSTANT Leg

VARIABLES
  locked,        \* legs that have been funded
  expired,       \* legs past the start of their cancellation window
  claims,        \* how often a leg paid its claimant
  refunds        \* how often a leg paid back its funder

legVars == <<locked, expired, claims, refunds>>

Init ==
  /\ locked = {}
  /\ expired = {}
  /\ claims = [l \in Leg |-> 0]
  /\ refunds = [l \in Leg |-> 0]

Unsettled(l) == l \in locked /\ claims[l] = 0 /\ refunds[l] = 0

Lock(l) ==
  /\ l \notin locked
  /\ locked' = locked \union {l}
  /\ UNCHANGED <<expired, claims, refunds>>

Claim(l) ==
  /\ Unsettled(l)
  /\ l \notin expired
  /\ claims' = [claims EXCEPT ![l] = 1]
  /\ UNCHANGED <<locked, expired, refunds>>

Refund(l) ==
  /\ Unsettled(l)
  /\ l \in expired
  /\ refunds' = [refunds EXCEPT ![l] = 1]
  /\ UNCHANGED <<locked, expired, claims>>

\* Time passes, for any number of legs at once.
Expire ==
  /\ \E more \in SUBSET locked : expired' = expired \union more
  /\ UNCHANGED <<locked, claims, refunds>>

Next ==
  \/ \E l \in Leg : Lock(l) \/ Claim(l) \/ Refund(l)
  \/ Expire

Spec == Init /\ [][Next]_legVars
=============================================================================
