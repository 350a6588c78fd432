------------------------------ MODULE Timelocks ------------------------------
(***************************************************************************)
(* TimelocksLib: one 256-bit word holds the deployment time of an escrow   *)
(* and seven delays, each in a field of FieldRange values (2^32 in the     *)
(* code).  A stage starts its delay after the deployment.                  *)
(***************************************************************************)
EXTENDS Integers

CONSTANT FieldRange          \* how many values a field holds: 2^32

ASSUME FieldRangeAssumption == FieldRange \in Nat \ {0}

Stage == {"SrcWithdrawal", "SrcPublicWithdrawal", "SrcCancellation",
          "SrcPublicCancellation",
          "DstWithdrawal", "DstPublicWithdrawal", "DstCancellation"}

Field == 0 .. FieldRange - 1

Timelock == [deployedAt : Field, delay : [Stage -> Field]]

\* `value << 224` keeps the low 32 bits of the timestamp: it wraps in 2106.
SetDeployedAt(t, value) == [t EXCEPT !.deployedAt = value % FieldRange]

\* Sums are taken in 256 bits, so they do not wrap.
StageStart(t, stage) == t.deployedAt + t.delay[stage]

RescueStart(t, rescueDelay) == t.deployedAt + rescueDelay

\* What the constructors of the SDK's SrcTimeLocks and DstTimeLocks assert
\* before an order is built: the windows of each chain follow one another.
WellOrdered(t) ==
  /\ t.delay["SrcWithdrawal"] < t.delay["SrcPublicWithdrawal"]
  /\ t.delay["SrcPublicWithdrawal"] < t.delay["SrcCancellation"]
  /\ t.delay["SrcCancellation"] < t.delay["SrcPublicCancellation"]
  /\ t.delay["DstWithdrawal"] < t.delay["DstPublicWithdrawal"]
  /\ t.delay["DstPublicWithdrawal"] < t.delay["DstCancellation"]
==============================================================================
