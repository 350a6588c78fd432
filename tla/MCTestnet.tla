------------------------------ MODULE MCTestnet ------------------------------
(* Two executions of the swap script, which are interchangeable.           *)
EXTENDS Testnet, TLC

Symmetry == Permutations(Run)
=============================================================================
