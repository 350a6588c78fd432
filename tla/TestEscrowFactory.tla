-------------------------- MODULE TestEscrowFactory --------------------------
(***************************************************************************)
(* The factory that the scripts and tests deploy on every chain.  Its      *)
(* constructor takes a rescue delay for the source clones and one for the  *)
(* destination clones and hands them on to EscrowFactory, which builds an  *)
(* implementation of each kind around them.                                *)
(***************************************************************************)
EXTENDS Timelocks

CONSTANTS
  Clone, Account, Asset, Native, Secret, Keccak, Terms, Refuses, Donor,
  Endowment, Horizon,
  rescueDelaySrc, rescueDelayDst     \* arguments of the constructor

VARIABLES now, deployedAt, bal, log

\* RESCUE_DELAY of the source implementation: the argument that the constructor
\* of EscrowFactory gets in its place.
SrcRescueDelay == rescueDelayDst

Src == INSTANCE EscrowSrc WITH RescueDelay <- SrcRescueDelay

Spec == Src!Spec

\* main.spec.ts and deploy-escrow-factory.ts call the fifth argument of the
\* constructor the "src rescue delay": nothing is rescued from a source clone
\* before it is over.
SrcRescueDelayed ==
  \A c \in Clone : log[c]["FundsRescued"] > 0 => now >= deployedAt[c] + rescueDelaySrc
=============================================================================
