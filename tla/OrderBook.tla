------------------------------ MODULE OrderBook ------------------------------
(***************************************************************************)
(* What the order protocol promises, without calls and entries: orders are *)
(* taken from a transaction at a time, while they are alive, within their  *)
(* limit and with their maker's signature; what is dead stays dead.        *)
(***************************************************************************)
EXTENDS Naturals

CONSTANTS
  Order,
  Limit,         \* what may be taken of an order
  Single         \* orders that are taken from once

VARIABLES
  signed,
  taken,
  dead

bookVars == <<signed, taken, dead>>

Init ==
  /\ signed \subseteq Order
  /\ taken = [o \in Order |-> 0]
  /\ dead \subseteq Order

\* What a transaction that takes from an order does to it.
Taken(o) ==
  /\ o \in signed
  /\ o \notin dead
  /\ taken'[o] > taken[o]
  /\ taken'[o] <= Limit[o]
  /\ o \in Single \/ taken'[o] = Limit[o] => o \in dead'

Transaction ==
  /\ taken' \in [Order -> Nat]
  /\ dead \subseteq dead' /\ dead' \subseteq Order
  /\ \A o \in Order : taken'[o] # taken[o] => Taken(o)
  /\ UNCHANGED signed

Spec == Init /\ [][Transaction]_bookVars
==============================================================================
