----------------------------- MODULE MCETHOrders -----------------------------
(* Two native orders of different makers: o1 may be filled several times    *)
(* and expires, o2 is filled once and does not.                             *)
EXTENDS ETHOrders, AmountGetters, TLC

CONSTANTS o1, o2, m1, m2, taker

MCOrder(making, partial, multiple, expiration) ==
  [maker |-> this, makingAmount |-> making, takingAmount |-> 1,
   allowPartialFills |-> partial, allowMultipleFills |-> multiple, nonceOrEpoch |-> 0,
   needCheckEpochManager |-> FALSE, series |-> 0, expiration |-> expiration,
   allowedSender |-> {taker}, makerPermit |-> FALSE,
   auction |-> NoAuction, fees |-> NoFees, orderId |-> 0]

MCTerms == (o1 :> MCOrder(3, TRUE, TRUE, 1)) @@ (o2 :> MCOrder(2, TRUE, FALSE, 0))

MCDepositor == (o1 :> m1) @@ (o2 :> m2)
=============================================================================
